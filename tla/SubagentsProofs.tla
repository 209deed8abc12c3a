-------------------------- MODULE SubagentsProofs ---------------------------
(***************************************************************************)
(* For every depth, width, number of steps, ceiling and price: the agents  *)
(* of a job form one branch below each tool call of the root's turn that   *)
(* runs, so that no more of them are with the model at once, and no more   *)
(* sessions are held, than that turn runs calls.  And for every depth at   *)
(* which turns fan out, a workdir belongs to the agent it was made for.    *)
(***************************************************************************)
EXTENDS Subagents, FiniteSetTheorems, TLAPS

Pcs == {"none", "starting", "top", "call", "dispatch", "ending", "ended"}
SubCall == [task : Tasks \cup Tools, st : {"waiting", "running", "done"}]

Shape ==
    /\ cancelled \in BOOLEAN /\ cost \in Nat /\ fresh \in Nat /\ late \in Nat
    /\ pc \in [Paths -> Pcs]
    /\ calls \in [Paths -> Seq(SubCall)]
    /\ \A p \in Paths : Len(calls[p]) =< MaxWidth
    /\ history \in [Paths -> Seq(Nat)]
    /\ \A p \in Paths : Len(history[p]) =< MaxSteps
    /\ \A p \in Paths : pc[p] = "call" => Len(history[p]) < MaxSteps
    /\ \A r \in cache : r.id \in Nat /\ r.turn \in Turns
    /\ DOMAIN task = Paths /\ DOMAIN sid = Paths /\ DOMAIN workdir = Paths
    /\ \A d \in DOMAIN dirs : dirs[d] \in Paths

\* p is an ancestor of q.
Above(p, q) == Len(p) < Len(q) /\ \A k \in 1 .. Len(p) : p[k] = q[k]

\* Call i of the turn of p runs a subagent.
Runs(p, i) ==
    /\ pc[p] = "dispatch" /\ i \in DOMAIN calls[p]
    /\ calls[p][i].st = "running" /\ calls[p][i].task \in Tasks

\* A live agent runs for a call of its parent that runs, and so on up to the root.
Tree == \A p, q \in Paths : Live(q) /\ Above(p, q) => Runs(p, q[Len(p) + 1])

\* A turn that does not fan out has its calls before the running one behind it.
Serial ==
    \A p \in Paths : ~FanOut(p) =>
        \A i \in Active(p) : \A k \in 1 .. i - 1 : calls[p][k].st = "done"

\* The root's turn runs no more calls than it may.
Width == Cardinality(Active(root)) =< ParallelLimit

\* The live agents below one call of the root's turn are ancestors of each other.
OneBranch ==
    \A p, q \in Paths \ {root} :
        Live(p) /\ Live(q) /\ p[1] = q[1] =>
            \A k \in 1 .. Len(p) : k =< Len(q) => p[k] = q[k]

\* Who is with the model, and may still be billed or come late.
Calling == {p \in Paths : pc[p] = "call"}

SpendInv ==
    /\ fresh * Cost + Cardinality(Calling) * Cost < MaxJobCost + ParallelLimit * Cost
    /\ fresh * Cost =< cost

StopInv ==
    IF cancelled THEN late + Cardinality(Calling) =< ParallelLimit ELSE late = 0

\* A workdir is named after the id, so two agents share one only if they share
\* their ids; and every one that was made whole has a live agent that will remove it.
DirsInv ==
    /\ \A p \in Paths \ {root} : Live(p) => workdir[p] = sid[p]
    /\ \A p, q \in Paths \ {root} :
           Live(p) /\ Live(q) /\ p # q /\ sid[p] = sid[q] => sid[p] \in collided
    /\ \A d \in DOMAIN dirs \ halfMade :
           \E p \in Paths \ {root} : Live(p) /\ workdir[p] = d
    /\ \A p \in Paths \ {root} : Live(p) /\ sid[p] \notin collided => Owns(p)

-----------------------------------------------------------------------------
(* Paths.                                                                  *)

\* A function on the first places is a sequence.
LEMMA Listed ==
    ASSUME NEW S, NEW m \in Nat, NEW s \in [1 .. m -> S]
    PROVE  s \in Seq(S) /\ Len(s) = m
OBVIOUS

\* A path is a sequence of places.
LEMMA PathFacts ==
    ASSUME NEW p \in Paths
    PROVE  /\ p \in Seq(1 .. MaxWidth) /\ Len(p) \in Nat /\ Len(p) =< MaxDepth - 1
           /\ DOMAIN p = 1 .. Len(p) /\ \A k \in 1 .. Len(p) : p[k] \in 1 .. MaxWidth
<1>1. PICK n \in 0 .. MaxDepth - 1 : p \in [1 .. n -> 1 .. MaxWidth] BY DEF Paths
<1>2. p \in Seq(1 .. MaxWidth) /\ Len(p) = n BY <1>1, PipelineAssumption
<1> QED BY <1>1, <1>2, PipelineAssumption

\* A sequence of places that is short enough is a path.
LEMMA IsPath ==
    ASSUME NEW p \in Seq(1 .. MaxWidth), Len(p) =< MaxDepth - 1
    PROVE  p \in Paths
<1>1. Len(p) \in 0 .. MaxDepth - 1 /\ p \in [1 .. Len(p) -> 1 .. MaxWidth]
  BY PipelineAssumption
<1> QED BY <1>1 DEF Paths

\* The root is a path, and the only empty one.
LEMMA RootPath == /\ root \in Paths /\ Len(root) = 0
                  /\ \A p \in Paths \ {root} : Len(p) > 0 /\ 1 \in 1 .. Len(p)
<1>1. root \in Seq(1 .. MaxWidth) /\ Len(root) = 0 BY DEF root
<1>d. Len(root) =< MaxDepth - 1 BY <1>1, PipelineAssumption
<1>2. root \in Paths BY <1>1, <1>d, IsPath
<1>3. ASSUME NEW p \in Paths, Len(p) = 0 PROVE p = root
  BY <1>3, PathFacts DEF root
<1> QED BY <1>1, <1>2, <1>3, PathFacts

\* Paths of one length with the same places are one path.
LEMMA SamePath ==
    ASSUME NEW p \in Paths, NEW q \in Paths, Len(p) = Len(q),
           \A k \in 1 .. Len(p) : p[k] = q[k]
    PROVE  p = q
BY PathFacts

\* A child's path is its parent's and its place.
LEMMA ChildPath ==
    ASSUME NEW p \in Paths, NEW i \in 1 .. MaxWidth, Depth(p) < MaxDepth
    PROVE  /\ Append(p, i) \in Paths \ {root} /\ Len(Append(p, i)) = Len(p) + 1
           /\ Append(p, i)[Len(p) + 1] = i
           /\ \A k \in 1 .. Len(p) : Append(p, i)[k] = p[k]
           /\ Append(p, i) # p
<1>1. p \in Seq(1 .. MaxWidth) /\ Len(p) \in Nat BY PathFacts
<1>2. Append(p, i) \in Seq(1 .. MaxWidth) /\ Len(Append(p, i)) = Len(p) + 1 BY <1>1
<1>d. Len(Append(p, i)) =< MaxDepth - 1 BY <1>1, <1>2, PipelineAssumption DEF Depth
<1>3. Append(p, i) \in Paths BY <1>2, <1>d, IsPath
<1>4. Append(p, i) # root /\ Append(p, i) # p
  <2>1. Len(Append(p, i)) # Len(p) /\ Len(Append(p, i)) # Len(root)
    BY <1>1, <1>2, RootPath
  <2> QED BY <2>1
<1>5. /\ Append(p, i)[Len(p) + 1] = i
      /\ \A k \in 1 .. Len(p) : Append(p, i)[k] = p[k]
  BY <1>1
<1> QED BY <1>2, <1>3, <1>4, <1>5

\* The parent of an agent is the ancestor next to it.
LEMMA ParentPath ==
    ASSUME NEW c \in Paths \ {root}
    PROVE  /\ Parent(c) \in Paths /\ Len(Parent(c)) = Len(c) - 1
           /\ Above(Parent(c), c) /\ Parent(c) # c
<1>1. c \in Seq(1 .. MaxWidth) /\ Len(c) \in Nat /\ Len(c) > 0 /\ Len(c) =< MaxDepth - 1
  BY PathFacts, RootPath
<1>n. /\ Len(c) - 1 \in Nat /\ Len(c) - 1 =< Len(c)
      /\ Len(c) - 1 < Len(c) /\ Len(c) - 1 =< MaxDepth - 1
  BY <1>1, PipelineAssumption
<1>2. /\ Parent(c) \in Seq(1 .. MaxWidth) /\ Len(Parent(c)) = Len(c) - 1
      /\ \A k \in 1 .. Len(c) - 1 : Parent(c)[k] = c[k]
  <2> DEFINE n == Len(c) - 1
  <2>n. n \in Nat BY <1>n
  <2>1. n \in 0 .. Len(c) BY <1>1, <1>n
  <2>2. SubSeq(c, 1, n) = [k \in 1 .. n |-> c[k]] BY <1>1, <2>1
  <2>p. \A k \in 1 .. Len(c) : c[k] \in 1 .. MaxWidth BY PathFacts
  <2>3. [k \in 1 .. n |-> c[k]] \in [1 .. n -> 1 .. MaxWidth] BY <2>p, <1>n, <1>1
  <2>4. SubSeq(c, 1, n) \in Seq(1 .. MaxWidth) /\ Len(SubSeq(c, 1, n)) = n
    <3> HIDE DEF n
    <3> QED BY <2>n, <2>2, <2>3, Listed
  <2>5. \A k \in 1 .. n : SubSeq(c, 1, n)[k] = c[k] BY <2>2
  <2> QED BY <2>4, <2>5 DEF Parent
<1>3. Parent(c) \in Paths BY <1>n, <1>2, IsPath
<1>4. Above(Parent(c), c) BY <1>n, <1>2 DEF Above
<1> QED BY <1>n, <1>2, <1>3, <1>4

\* An ancestor of an agent is its parent or one of its parent's.
LEMMA AboveParent ==
    ASSUME NEW p \in Paths, NEW i \in 1 .. MaxWidth, Depth(p) < MaxDepth,
           NEW q \in Paths, Above(q, Append(p, i))
    PROVE  q = p \/ (Above(q, p) /\ Append(p, i)[Len(q) + 1] = p[Len(q) + 1])
<1>1. /\ Len(p) \in Nat /\ Len(q) \in Nat /\ Len(q) < Len(p) + 1
      /\ \A k \in 1 .. Len(q) : q[k] = Append(p, i)[k]
      /\ \A k \in 1 .. Len(p) : Append(p, i)[k] = p[k]
  BY PathFacts, ChildPath DEF Above
<1>2. CASE Len(q) = Len(p) BY <1>1, <1>2, SamePath
<1>3. CASE Len(q) < Len(p) BY <1>1, <1>3 DEF Above
<1> QED BY <1>1, <1>2, <1>3

\* An agent whose place below an ancestor of another is the same is that one, or
\* another ancestor.
LEMMA BelowPlace ==
    ASSUME NEW c \in Paths \ {root}, NEW q \in Paths, Above(Parent(c), q),
           q[Len(Parent(c)) + 1] = c[Len(c)]
    PROVE  q = c \/ Above(c, q)
<1>1. /\ Len(c) \in Nat /\ Len(q) \in Nat /\ Len(c) > 0 /\ Len(Parent(c)) = Len(c) - 1
      /\ \A k \in 1 .. Len(c) - 1 : Parent(c)[k] = c[k] /\ Parent(c)[k] = q[k]
      /\ Len(c) =< Len(q) /\ q[Len(c)] = c[Len(c)]
  BY PathFacts, RootPath, ParentPath DEF Above
<1>2. \A k \in 1 .. Len(c) : c[k] = q[k] BY <1>1
<1> QED BY <1>1, <1>2, SamePath DEF Above

-----------------------------------------------------------------------------
(* What a step may be.                                                     *)

\* p goes on in its loop, to the model only below the ceiling and uncancelled.
Moves(p) ==
    /\ Live(p) /\ pc[p] # "dispatch"
    /\ \E v \in {"top", "call", "ending"} :
           /\ pc' = [pc EXCEPT ![p] = v]
           /\ v = "call" => /\ ~cancelled /\ cost < MaxJobCost
                            /\ Len(history[p]) < MaxSteps
    /\ UNCHANGED <<jobVars, agentVars, calls, dirVars>>

\* One more response is billed, or none.
Bills ==
    \/ fresh' = fresh /\ cost' = cost
    \/ fresh' = fresh + 1 /\ cost' = cost + Cost

\* p has a response, billed or replayed.
Answers(p) ==
    /\ pc[p] = "call"
    /\ \E id \in Nat : \E turn \in Turns : Answer(p, id, turn)
    /\ Bills
    /\ \A r \in cache' : r.id \in Nat /\ r.turn \in Turns

\* A call is refused, or that of another tool begins, is billed or is done.
ToolStep(p, i) ==
    /\ \E s \in {"running", "done"} : calls' = [calls EXCEPT ![p][i].st = s]
    /\ pc[p] = "dispatch"
    /\ \/ Begins(p, i)
       \/ calls[p][i].st = "running" /\ calls[p][i].task \in Tools
    /\ cost' \in Nat /\ cost =< cost'
    /\ UNCHANGED <<cancelled, cache, fresh, late, pc, agentVars>>
    /\ UNCHANGED dirVars \/ SpawnFails(p, i)

\* Every step of an agent is one of six kinds.
LEMMA StepKinds ==
    ASSUME Shape, NEW p \in Paths, AgentStep(p)
    PROVE  \/ Moves(p) \/ Answers(p) \/ End(p) \/ TurnGoesOn(p)
           \/ \E i \in DOMAIN calls[p] : ToolStep(p, i) \/ Spawn(p, i)
<1>1. CASE Stops(p) \/ CallFails(p) \/ StartFails(p)
  BY <1>1 DEF Stops, CallFails, StartFails, Raise, Moves, Live
<1>2. CASE PassTop(p) BY <1>2 DEF PassTop, Moves, Live
<1>3. CASE Start(p) BY <1>3 DEF Start, Moves, Live
<1>4. CASE Ask(p)
  <2>1. PICK turn \in Turns :
            /\ Answer(p, fresh + 1, turn)
            /\ cache' \subseteq cache \cup {[request |-> Request(p), id |-> fresh + 1,
                                             turn |-> turn]}
    BY <1>4 DEF Ask
  <2>2. fresh \in Nat /\ fresh + 1 \in Nat /\ \A r \in cache : r.id \in Nat /\ r.turn \in Turns
    BY DEF Shape
  <2>3. \A r \in cache' : r.id \in Nat /\ r.turn \in Turns BY <2>1, <2>2
  <2>4. pc[p] = "call" /\ fresh' = fresh + 1 /\ cost' = cost + Cost BY <1>4 DEF Ask
  <2> QED BY <2>1, <2>2, <2>3, <2>4 DEF Answers, Bills
<1>5. CASE Replay(p)
  <2>1. PICK r \in cache : Answer(p, r.id, r.turn) BY <1>5 DEF Replay
  <2>2. r.id \in Nat /\ r.turn \in Turns /\ fresh \in Nat BY DEF Shape
  <2>3. /\ pc[p] = "call" /\ cost' = cost /\ fresh' = fresh
        /\ \A x \in cache' : x.id \in Nat /\ x.turn \in Turns
    BY <1>5 DEF Replay, Shape
  <2> QED BY <2>1, <2>2, <2>3 DEF Answers, Bills
<1>6. ASSUME NEW i \in DOMAIN calls[p], Refuse(p, i) PROVE ToolStep(p, i)
  BY <1>6 DEF Refuse, Becomes, ToolStep, Begins, Shape
<1>7. ASSUME NEW i \in DOMAIN calls[p], Work(p, i) PROVE ToolStep(p, i)
  BY <1>7 DEF Work, Becomes, ToolStep, Begins, Shape
<1>8. ASSUME NEW i \in DOMAIN calls[p], Bill(p, i) PROVE ToolStep(p, i)
  <2>1. PICK charge \in Charges : cost' = cost + charge BY <1>8 DEF Bill
  <2>2. cost' \in Nat /\ cost =< cost' BY <2>1, PipelineAssumption DEF Shape
  <2> QED BY <1>8, <2>2 DEF Bill, Works, Active, Becomes, ToolStep
<1>9. ASSUME NEW i \in DOMAIN calls[p], Worked(p, i) PROVE ToolStep(p, i)
  BY <1>9 DEF Worked, Works, Active, Becomes, ToolStep, Shape
<1>10. ASSUME NEW i \in DOMAIN calls[p], SpawnFails(p, i) PROVE ToolStep(p, i)
  BY <1>10 DEF SpawnFails, MakeDir, Begins, ToolStep, jobVars, Shape
<1> QED BY <1>1, <1>2, <1>3, <1>4, <1>5, <1>6, <1>7, <1>8, <1>9, <1>10 DEF AgentStep

\* A turn's calls are calls.
LEMMA CallFacts ==
    ASSUME Shape, NEW p \in Paths
    PROVE  /\ calls[p] \in Seq(SubCall) /\ DOMAIN calls[p] = 1 .. Len(calls[p])
           /\ Len(calls[p]) \in Nat /\ Len(calls[p]) =< MaxWidth /\ MaxWidth \in Nat
           /\ DOMAIN calls[p] \subseteq 1 .. MaxWidth
           /\ \A i \in DOMAIN calls[p] : calls[p][i].st \in {"waiting", "running", "done"}
<1>1. calls[p] \in Seq(SubCall) /\ Len(calls[p]) =< MaxWidth BY DEF Shape
<1>2. DOMAIN calls[p] = 1 .. Len(calls[p]) /\ Len(calls[p]) \in Nat BY <1>1
<1>3. \A i \in DOMAIN calls[p] : calls[p][i] \in SubCall BY <1>1, <1>2
<1> QED BY <1>1, <1>2, <1>3, PipelineAssumption DEF SubCall

\* The calls of a turn, of which call i has status s.
With(f, i, s) == [f EXCEPT ![i].st = s]

\* They are calls, and the others have the status they had.
LEMMA WithStatus ==
    ASSUME NEW f \in Seq(SubCall), NEW i, NEW s \in {"waiting", "running", "done"}
    PROVE  /\ With(f, i, s) \in Seq(SubCall) /\ Len(With(f, i, s)) = Len(f)
           /\ DOMAIN With(f, i, s) = DOMAIN f
           /\ \A k \in DOMAIN f : /\ With(f, i, s)[k].st = IF k = i THEN s ELSE f[k].st
                                  /\ With(f, i, s)[k].task = f[k].task
<1> DEFINE g == With(f, i, s)
<1>1. \A c \in SubCall : /\ [c EXCEPT !.st = s] \in SubCall
                         /\ [c EXCEPT !.st = s].st = s
                         /\ [c EXCEPT !.st = s].task = c.task
  BY DEF SubCall
<1>2. g = [f EXCEPT ![i] = [f[i] EXCEPT !.st = s]] BY DEF With
<1>3. DOMAIN f = 1 .. Len(f) /\ Len(f) \in Nat /\ \A k \in DOMAIN f : f[k] \in SubCall
  OBVIOUS
<1> HIDE DEF g
<1>4. DOMAIN g = DOMAIN f BY <1>2
<1>5. \A k \in DOMAIN f : g[k] = IF k = i THEN [f[i] EXCEPT !.st = s] ELSE f[k]
  BY <1>2
<1>6. \A k \in DOMAIN f : g[k] \in SubCall BY <1>1, <1>3, <1>5
<1>7. g \in [1 .. Len(f) -> SubCall] BY <1>2, <1>3, <1>4, <1>6
<1>8. g \in Seq(SubCall) /\ Len(g) = Len(f) BY <1>3, <1>7, Listed
<1>9. \A k \in DOMAIN f : /\ g[k].st = IF k = i THEN s ELSE f[k].st
                          /\ g[k].task = f[k].task
  BY <1>1, <1>3, <1>5
<1> QED BY <1>4, <1>8, <1>9 DEF g

\* The turn of p is as it was, but for the status of call i.
Sets(p, i, s) ==
    /\ calls'[p] \in Seq(SubCall) /\ Len(calls'[p]) = Len(calls[p])
    /\ DOMAIN calls'[p] = DOMAIN calls[p]
    /\ \A k \in DOMAIN calls[p] :
           /\ calls'[p][k].st = IF k = i THEN s ELSE calls[p][k].st
           /\ calls'[p][k].task = calls[p][k].task
    /\ \A q \in Paths : q # p => calls'[q] = calls[q]

\* A call that begins is refused or runs.
LEMMA CallSets ==
    ASSUME Shape, NEW p \in Paths, NEW i, NEW s \in {"running", "done"},
           calls' = [calls EXCEPT ![p][i].st = s]
    PROVE  Sets(p, i, s) /\ DOMAIN calls' = Paths
<1>1. calls[p] \in Seq(SubCall) /\ p \in DOMAIN calls /\ DOMAIN calls = Paths BY DEF Shape
<1>2. /\ calls'[p] = With(calls[p], i, s) /\ DOMAIN calls' = Paths
      /\ \A q \in Paths : q # p => calls'[q] = calls[q]
  BY <1>1 DEF With
<1>s. s \in {"waiting", "running", "done"} OBVIOUS
<1>3. /\ calls'[p] \in Seq(SubCall) /\ Len(calls'[p]) = Len(calls[p])
      /\ DOMAIN calls'[p] = DOMAIN calls[p]
      /\ \A k \in DOMAIN calls[p] :
             /\ calls'[p][k].st = IF k = i THEN s ELSE calls[p][k].st
             /\ calls'[p][k].task = calls[p][k].task
  <2>1. ASSUME NEW f \in Seq(SubCall)
        PROVE  /\ With(f, i, s) \in Seq(SubCall) /\ Len(With(f, i, s)) = Len(f)
               /\ DOMAIN With(f, i, s) = DOMAIN f
               /\ \A k \in DOMAIN f :
                      /\ With(f, i, s)[k].st = IF k = i THEN s ELSE f[k].st
                      /\ With(f, i, s)[k].task = f[k].task
    BY <1>s, WithStatus
  <2>2. calls[p] \in Seq(SubCall) BY <1>1
  <2>3. /\ With(calls[p], i, s) \in Seq(SubCall)
        /\ Len(With(calls[p], i, s)) = Len(calls[p])
        /\ DOMAIN With(calls[p], i, s) = DOMAIN calls[p]
        /\ \A k \in DOMAIN calls[p] :
               /\ With(calls[p], i, s)[k].st = IF k = i THEN s ELSE calls[p][k].st
               /\ With(calls[p], i, s)[k].task = calls[p][k].task
    BY <2>1, <2>2
  <2> QED BY <1>2, <2>3
<1> QED BY <1>2, <1>3 DEF Sets

\* An agent that ends leaves nothing of its turn, and its parent's call done.
LEMMA EndSets ==
    ASSUME Shape, NEW c \in Paths, End(c)
    PROVE  /\ DOMAIN calls' = Paths /\ calls'[c] = <<>>
           /\ c = root => \A q \in Paths : q # c => calls'[q] = calls[q]
           /\ c # root =>
                 /\ calls'[Parent(c)] \in Seq(SubCall)
                 /\ Len(calls'[Parent(c)]) = Len(calls[Parent(c)])
                 /\ DOMAIN calls'[Parent(c)] = DOMAIN calls[Parent(c)]
                 /\ \A k \in DOMAIN calls[Parent(c)] :
                       /\ calls'[Parent(c)][k].st =
                              IF k = c[Len(c)] THEN "done" ELSE calls[Parent(c)][k].st
                       /\ calls'[Parent(c)][k].task = calls[Parent(c)][k].task
                 /\ \A q \in Paths : q \notin {c, Parent(c)} => calls'[q] = calls[q]
           /\ pc[c] = "ending" /\ pc' = [pc EXCEPT ![c] = IF c = root THEN "ended" ELSE "none"]
           /\ dirs' = [d \in DOMAIN dirs \ {workdir[c]} |-> dirs[d]]
           /\ history' = [history EXCEPT ![c] = <<>>] /\ task' = [task EXCEPT ![c] = root]
           /\ sid' = [sid EXCEPT ![c] = NoSid] /\ workdir' = [workdir EXCEPT ![c] = NoSid]
           /\ UNCHANGED <<jobVars, collided, halfMade>>
<1>1. calls' = [p \in Paths |->
                    IF p = c THEN <<>>
                    ELSE IF c # root /\ p = Parent(c)
                        THEN [calls[p] EXCEPT ![c[Len(c)]].st = "done"]
                    ELSE calls[p]]
  BY DEF End
<1>2. /\ DOMAIN calls' = Paths /\ calls'[c] = <<>>
      /\ c = root => \A q \in Paths : q # c => calls'[q] = calls[q]
  BY <1>1
<1>3. ASSUME c # root
      PROVE  /\ calls'[Parent(c)] = With(calls[Parent(c)], c[Len(c)], "done")
             /\ \A q \in Paths : q \notin {c, Parent(c)} => calls'[q] = calls[q]
             /\ calls[Parent(c)] \in Seq(SubCall)
  BY <1>1, <1>3, ParentPath DEF Shape, With
<1>4. ASSUME c # root
      PROVE  /\ calls'[Parent(c)] \in Seq(SubCall)
             /\ Len(calls'[Parent(c)]) = Len(calls[Parent(c)])
             /\ DOMAIN calls'[Parent(c)] = DOMAIN calls[Parent(c)]
             /\ \A k \in DOMAIN calls[Parent(c)] :
                    /\ calls'[Parent(c)][k].st =
                           IF k = c[Len(c)] THEN "done" ELSE calls[Parent(c)][k].st
                    /\ calls'[Parent(c)][k].task = calls[Parent(c)][k].task
  BY <1>3, <1>4, WithStatus
<1>5. /\ pc[c] = "ending" /\ pc' = [pc EXCEPT ![c] = IF c = root THEN "ended" ELSE "none"]
      /\ dirs' = [d \in DOMAIN dirs \ {workdir[c]} |-> dirs[d]]
      /\ history' = [history EXCEPT ![c] = <<>>] /\ task' = [task EXCEPT ![c] = root]
      /\ sid' = [sid EXCEPT ![c] = NoSid] /\ workdir' = [workdir EXCEPT ![c] = NoSid]
      /\ UNCHANGED <<jobVars, collided, halfMade>>
  BY DEF End, Forget
<1> QED BY <1>2, <1>3, <1>4, <1>5

\* A turn of subagents begins with all its calls waiting.
LEMMA AnswerSets ==
    ASSUME Shape, NEW p \in Paths, Answers(p)
    PROVE  /\ DOMAIN calls' = Paths /\ calls'[p] \in Seq(SubCall)
           /\ Len(calls'[p]) =< MaxWidth
           /\ \A k \in DOMAIN calls'[p] : calls'[p][k].st = "waiting"
           /\ \A q \in Paths : q # p => calls'[q] = calls[q]
           /\ pc' \in [Paths -> Pcs] /\ pc'[p] \in {"ending", "dispatch"} /\ pc[p] = "call"
           /\ \A q \in Paths : q # p => pc'[q] = pc[q]
           /\ \E id \in Nat : history' = [history EXCEPT ![p] = Append(@, id)]
           /\ late' = IF cancelled THEN late + 1 ELSE late
           /\ Bills
           /\ UNCHANGED <<cancelled, task, sid, workdir, dirVars>>
           /\ \A r \in cache' : r.id \in Nat /\ r.turn \in Turns
<1>1. PICK id \in Nat, turn \in Turns : Answer(p, id, turn) BY DEF Answers
<1>2. PICK n \in 0 .. MaxWidth : turn \in [1 .. n -> Tasks \cup Tools] BY PipelineAssumption
<1>n. n \in Nat /\ n =< MaxWidth BY PipelineAssumption
<1>3. DOMAIN calls = Paths /\ DOMAIN pc = Paths /\ pc \in [Paths -> Pcs] BY DEF Shape
<1> DEFINE t == [i \in DOMAIN turn |-> [task |-> turn[i], st |-> "waiting"]]
<1>4. /\ t \in [1 .. n -> SubCall] /\ \A k \in DOMAIN t : t[k].st = "waiting"
  BY <1>2 DEF SubCall
<1>5. calls' = [calls EXCEPT ![p] = t] BY <1>1 DEF Answer
<1> HIDE DEF t
<1>6. t \in Seq(SubCall) /\ Len(t) = n BY <1>4, <1>n, Listed
<1>7. /\ DOMAIN calls' = Paths /\ calls'[p] = t
      /\ \A q \in Paths : q # p => calls'[q] = calls[q]
  BY <1>3, <1>5
<1>8. pc' = [pc EXCEPT ![p] = IF turn = <<>> THEN "ending" ELSE "dispatch"]
  BY <1>1 DEF Answer
<1>9. /\ pc' \in [Paths -> Pcs] /\ pc'[p] \in {"ending", "dispatch"}
      /\ \A q \in Paths : q # p => pc'[q] = pc[q]
  <2>1. PICK v \in {"ending", "dispatch"} : pc' = [pc EXCEPT ![p] = v] BY <1>8
  <2> QED BY <1>3, <2>1 DEF Pcs
<1>10. /\ history' = [history EXCEPT ![p] = Append(@, id)]
       /\ late' = IF cancelled THEN late + 1 ELSE late
       /\ UNCHANGED <<cancelled, task, sid, workdir, dirVars>>
  BY <1>1 DEF Answer
<1>11. /\ Bills /\ pc[p] = "call"
       /\ \A r \in cache' : r.id \in Nat /\ r.turn \in Turns
  BY DEF Answers
<1> QED BY <1>4, <1>6, <1>7, <1>9, <1>10, <1>11, <1>n

-----------------------------------------------------------------------------
(* Shape.                                                                  *)

\* The turns' calls are calls whatever becomes of one of them.
LEMMA ShapeOfCalls ==
    ASSUME Shape, NEW p \in Paths, NEW i \in DOMAIN calls[p],
           ToolStep(p, i) \/ Spawn(p, i)
    PROVE  /\ calls' \in [Paths -> Seq(SubCall)]
           /\ \A q \in Paths : Len(calls'[q]) =< MaxWidth
<1>1. PICK s \in {"running", "done"} : calls' = [calls EXCEPT ![p][i].st = s]
  BY DEF ToolStep, Spawn
<1>2. Sets(p, i, s) /\ DOMAIN calls' = Paths BY <1>1, CallSets
<1>3. \A q \in Paths : calls'[q] \in Seq(SubCall) /\ Len(calls'[q]) =< MaxWidth
  BY <1>2, CallFacts DEF Sets
<1>4. calls' = [q \in Paths |-> calls'[q]] BY <1>1, <1>2 DEF Shape
<1> QED BY <1>3, <1>4

\* A child's start is one of an agent.
LEMMA SpawnSets ==
    ASSUME Shape, NEW p \in Paths, NEW i \in DOMAIN calls[p], Spawn(p, i)
    PROVE  /\ i \in 1 .. MaxWidth /\ Depth(p) < MaxDepth
           /\ Append(p, i) \in Paths \ {root} /\ Append(p, i) # p
           /\ Sets(p, i, "running") /\ Begins(p, i) /\ calls[p][i].task \in Tasks
           /\ pc' = [pc EXCEPT ![Append(p, i)] = "starting"]
           /\ sid' = [sid EXCEPT ![Append(p, i)] = ToolUseId(p, i)]
           /\ workdir' = [workdir EXCEPT ![Append(p, i)] = ToolUseId(p, i)]
           /\ history' = [history EXCEPT ![Append(p, i)] = <<>>]
           /\ task' = [task EXCEPT ![Append(p, i)] = calls[p][i].task]
           /\ dirs' = [d \in DOMAIN dirs \cup {ToolUseId(p, i)} |->
                           IF d = ToolUseId(p, i) THEN Append(p, i) ELSE dirs[d]]
           /\ collided' = IF \E q \in Paths : Live(q) /\ sid[q] = ToolUseId(p, i)
                          THEN collided \cup {ToolUseId(p, i)} ELSE collided
           /\ UNCHANGED <<jobVars, halfMade>>
<1>1. i \in 1 .. MaxWidth /\ Depth(p) < MaxDepth BY CallFacts DEF Spawn, MakeDir
<1>2. Append(p, i) \in Paths \ {root} /\ Append(p, i) # p BY <1>1, ChildPath
<1>3. Sets(p, i, "running") /\ Begins(p, i) /\ calls[p][i].task \in Tasks
  BY CallSets DEF Spawn, MakeDir
<1> QED BY <1>1, <1>2, <1>3 DEF Spawn, MakeDir, SubId

\* And what one whose making fails midway leaves.
LEMMA FailsMidway ==
    ASSUME Shape, NEW p \in Paths, NEW i \in DOMAIN calls[p], SpawnFails(p, i)
    PROVE  /\ Append(p, i) \in Paths
           /\ dirs' = [d \in DOMAIN dirs \cup {ToolUseId(p, i)} |->
                           IF d = ToolUseId(p, i) THEN Append(p, i) ELSE dirs[d]]
           /\ collided' = IF \E q \in Paths : Live(q) /\ sid[q] = ToolUseId(p, i)
                          THEN collided \cup {ToolUseId(p, i)} ELSE collided
           /\ halfMade' = halfMade \cup {ToolUseId(p, i)}
           /\ UNCHANGED <<pc, sid, workdir>>
<1>1. i \in 1 .. MaxWidth /\ Depth(p) < MaxDepth BY CallFacts DEF SpawnFails, MakeDir
<1>2. Append(p, i) \in Paths BY <1>1, ChildPath
<1> QED BY <1>2 DEF SpawnFails, MakeDir, SubId, agentVars

\* The first state.
LEMMA ShapeInit ==
    ASSUME Init
    PROVE  Shape
<1>1. MaxSteps \in Nat /\ MaxWidth \in Nat BY PipelineAssumption
<1>2. <<>> \in Seq(SubCall) /\ <<>> \in Seq(Nat) /\ Len(<<>>) = 0 OBVIOUS
<1>3. /\ cancelled \in BOOLEAN /\ cost \in Nat /\ fresh \in Nat /\ late \in Nat
      /\ DOMAIN task = Paths /\ DOMAIN sid = Paths /\ DOMAIN workdir = Paths
      /\ cache = {} /\ DOMAIN dirs = {}
  BY DEF Init
<1>4. pc \in [Paths -> Pcs] /\ \A p \in Paths : pc[p] # "call" BY DEF Init, Pcs
<1>5. calls \in [Paths -> Seq(SubCall)] /\ \A p \in Paths : calls[p] = <<>>
  BY <1>2 DEF Init
<1>6. history \in [Paths -> Seq(Nat)] /\ \A p \in Paths : history[p] = <<>>
  BY <1>2 DEF Init
<1> QED BY <1>1, <1>2, <1>3, <1>4, <1>5, <1>6 DEF Shape

\* Every step of an agent.
LEMMA ShapeAgent ==
    ASSUME Shape, NEW p \in Paths, AgentStep(p)
    PROVE  Shape'
<1>s. /\ pc \in [Paths -> Pcs] /\ history \in [Paths -> Seq(Nat)]
      /\ calls \in [Paths -> Seq(SubCall)] /\ \A q \in Paths : Len(calls[q]) =< MaxWidth
      /\ \A q \in Paths : Len(history[q]) =< MaxSteps
      /\ \A q \in Paths : pc[q] = "call" => Len(history[q]) < MaxSteps
      /\ DOMAIN task = Paths /\ DOMAIN sid = Paths /\ DOMAIN workdir = Paths
      /\ \A d \in DOMAIN dirs : dirs[d] \in Paths
      /\ cancelled \in BOOLEAN /\ cost \in Nat /\ fresh \in Nat /\ late \in Nat
      /\ \A r \in cache : r.id \in Nat /\ r.turn \in Turns
  BY DEF Shape
<1>n. /\ MaxSteps \in Nat /\ MaxWidth \in Nat /\ Cost \in Nat
      /\ <<>> \in Seq(SubCall) /\ <<>> \in Seq(Nat) /\ Len(<<>>) = 0
  BY PipelineAssumption
<1>1. CASE Moves(p)
  <2>1. PICK v \in {"top", "call", "ending"} :
            pc' = [pc EXCEPT ![p] = v] /\ (v = "call" => Len(history[p]) < MaxSteps)
    BY <1>1 DEF Moves
  <2>2. pc' \in [Paths -> Pcs] BY <1>s, <2>1 DEF Pcs
  <2>3. \A q \in Paths : pc'[q] = "call" => Len(history[q]) < MaxSteps BY <1>s, <2>1
  <2>4. UNCHANGED <<jobVars, agentVars, calls, dirVars>> BY <1>1 DEF Moves
  <2> QED BY <1>s, <2>2, <2>3, <2>4 DEF Shape, jobVars, agentVars, dirVars
<1>2. CASE Answers(p)
  <2>1. PICK id \in Nat : history' = [history EXCEPT ![p] = Append(@, id)]
    BY <1>2, AnswerSets
  <2>2. pc[p] = "call" /\ pc' \in [Paths -> Pcs] /\ pc'[p] # "call"
        /\ \A q \in Paths : q # p => pc'[q] = pc[q]
    BY <1>2, AnswerSets
  <2>3. history[p] \in Seq(Nat) /\ Len(history[p]) < MaxSteps BY <1>s, <2>2
  <2>4. Append(history[p], id) \in Seq(Nat) /\ Len(Append(history[p], id)) =< MaxSteps
    BY <2>3, <1>n
  <2>5. history' \in [Paths -> Seq(Nat)] /\ \A q \in Paths : Len(history'[q]) =< MaxSteps
    BY <1>s, <2>1, <2>4
  <2>6. \A q \in Paths : pc'[q] = "call" => Len(history'[q]) < MaxSteps
    BY <1>s, <2>1, <2>2
  <2>7. /\ \A q \in Paths : calls'[q] \in Seq(SubCall) /\ Len(calls'[q]) =< MaxWidth
        /\ DOMAIN calls' = Paths
    BY <1>2, <1>s, AnswerSets
  <2>8. calls' = [q \in Paths |-> calls'[q]]
    BY <1>2, <2>7, <1>s DEF Answers, Answer
  <2>9. calls' \in [Paths -> Seq(SubCall)] BY <2>7, <2>8
  <2>10. late' \in Nat /\ cost' \in Nat /\ fresh' \in Nat
    <3>1. late' = (IF cancelled THEN late + 1 ELSE late) /\ Bills BY <1>2, AnswerSets
    <3> QED BY <1>s, <1>n, <3>1 DEF Bills
  <2>11. /\ UNCHANGED <<cancelled, task, sid, workdir, dirVars>>
         /\ \A r \in cache' : r.id \in Nat /\ r.turn \in Turns
    BY <1>2, AnswerSets
  <2> QED BY <1>s, <2>2, <2>5, <2>6, <2>7, <2>9, <2>10, <2>11 DEF Shape, dirVars
<1>3. ASSUME NEW i \in DOMAIN calls[p], ToolStep(p, i) PROVE Shape'
  <2>1. /\ UNCHANGED <<cancelled, cache, fresh, late, pc, agentVars>>
        /\ cost' \in Nat
    BY <1>3 DEF ToolStep
  <2>3. \A d \in DOMAIN dirs' : dirs'[d] \in Paths
    <3>1. CASE UNCHANGED dirVars BY <1>s, <3>1 DEF dirVars
    <3>2. CASE SpawnFails(p, i)
      <4>1. Append(p, i) \in Paths BY <3>2, FailsMidway
      <4>2. dirs' = [d \in DOMAIN dirs \cup {ToolUseId(p, i)} |->
                        IF d = ToolUseId(p, i) THEN Append(p, i) ELSE dirs[d]]
        BY <3>2, FailsMidway
      <4> QED BY <1>s, <4>1, <4>2
    <3> QED BY <1>3, <3>1, <3>2 DEF ToolStep
  <2>2. /\ calls' \in [Paths -> Seq(SubCall)]
        /\ \A q \in Paths : Len(calls'[q]) =< MaxWidth
    BY <1>3, ShapeOfCalls
  <2> QED BY <1>s, <2>1, <2>2, <2>3 DEF Shape, agentVars
<1>4. ASSUME NEW i \in DOMAIN calls[p], Spawn(p, i) PROVE Shape'
  <2> DEFINE c == Append(p, i)
  <2>1. /\ c \in Paths \ {root} /\ pc' = [pc EXCEPT ![c] = "starting"]
        /\ history' = [history EXCEPT ![c] = <<>>] /\ UNCHANGED jobVars
        /\ DOMAIN task' = Paths /\ DOMAIN sid' = Paths /\ DOMAIN workdir' = Paths
    <3>1. /\ c \in Paths \ {root} /\ pc' = [pc EXCEPT ![c] = "starting"]
          /\ history' = [history EXCEPT ![c] = <<>>] /\ UNCHANGED jobVars
          /\ sid' = [sid EXCEPT ![c] = ToolUseId(p, i)]
          /\ workdir' = [workdir EXCEPT ![c] = ToolUseId(p, i)]
          /\ task' = [task EXCEPT ![c] = calls[p][i].task]
      <4>1. c \in Paths \ {root} BY <1>4, SpawnSets
      <4> QED BY <1>4, <4>1 DEF Spawn, MakeDir, SubId
    <3> QED BY <1>s, <3>1
  <2>2. \A d \in DOMAIN dirs' : dirs'[d] \in Paths
    <3>1. /\ c \in Paths
          /\ dirs' = [d \in DOMAIN dirs \cup {ToolUseId(p, i)} |->
                          IF d = ToolUseId(p, i) THEN c ELSE dirs[d]]
      BY <1>4, SpawnSets
    <3> HIDE DEF c
    <3> QED BY <1>s, <3>1
  <2>3. /\ calls' \in [Paths -> Seq(SubCall)]
        /\ \A q \in Paths : Len(calls'[q]) =< MaxWidth
    BY <1>4, ShapeOfCalls
  <2> HIDE DEF c
  <2>4. pc' \in [Paths -> Pcs] /\ \A q \in Paths : pc'[q] = "call" => q # c /\ pc[q] = "call"
    BY <1>s, <2>1 DEF Pcs
  <2>5. /\ history' \in [Paths -> Seq(Nat)]
        /\ \A q \in Paths : q # c => history'[q] = history[q]
        /\ history'[c] = <<>>
    BY <1>s, <1>n, <2>1
  <2>6. \A q \in Paths : /\ Len(history'[q]) =< MaxSteps
                         /\ pc'[q] = "call" => Len(history'[q]) < MaxSteps
    BY <1>s, <1>n, <2>4, <2>5
  <2> QED BY <1>s, <2>1, <2>2, <2>3, <2>4, <2>5, <2>6 DEF Shape, jobVars
<1>5. CASE End(p)
  <2>1. /\ pc[p] = "ending" /\ pc' = [pc EXCEPT ![p] = IF p = root THEN "ended" ELSE "none"]
        /\ history' = [history EXCEPT ![p] = <<>>] /\ UNCHANGED jobVars
        /\ DOMAIN task' = Paths /\ DOMAIN sid' = Paths /\ DOMAIN workdir' = Paths
        /\ dirs' = [d \in DOMAIN dirs \ {workdir[p]} |-> dirs[d]]
    BY <1>s, <1>5, EndSets
  <2>2. \A d \in DOMAIN dirs' : dirs'[d] \in Paths BY <1>s, <2>1
  <2>3. DOMAIN calls' = Paths /\ calls' = [q \in Paths |-> calls'[q]] BY <1>5 DEF End
  <2>4. ASSUME NEW q \in Paths
        PROVE  calls'[q] \in Seq(SubCall) /\ Len(calls'[q]) =< MaxWidth
    <3>1. CASE q = p
      <4>1. calls'[q] = <<>> BY <1>5, <3>1, EndSets
      <4> QED BY <4>1, <1>n
    <3>2. CASE q # p /\ (p = root \/ q # Parent(p))
      <4>1. calls'[q] = calls[q] BY <1>5, <3>2, EndSets
      <4> QED BY <4>1, <1>s
    <3>3. CASE q # p /\ p # root /\ q = Parent(p)
      <4>1. calls'[q] \in Seq(SubCall) /\ Len(calls'[q]) = Len(calls[q])
        BY <1>5, <3>3, EndSets
      <4> QED BY <4>1, <1>s
    <3> QED BY <3>1, <3>2, <3>3
  <2>5. calls' \in [Paths -> Seq(SubCall)] BY <2>3, <2>4
  <2>6. pc' \in [Paths -> Pcs] /\ \A q \in Paths : pc'[q] = "call" => q # p /\ pc[q] = "call"
    BY <1>s, <2>1 DEF Pcs
  <2>7. /\ history' \in [Paths -> Seq(Nat)]
        /\ \A q \in Paths : q # p => history'[q] = history[q]
        /\ history'[p] = <<>>
    BY <1>s, <1>n, <2>1
  <2>8. \A q \in Paths : /\ Len(history'[q]) =< MaxSteps
                         /\ pc'[q] = "call" => Len(history'[q]) < MaxSteps
    BY <1>s, <1>n, <2>6, <2>7
  <2> QED BY <1>s, <2>1, <2>2, <2>4, <2>5, <2>6, <2>7, <2>8 DEF Shape, jobVars
<1>6. CASE TurnGoesOn(p)
  <2>1. /\ calls' = [calls EXCEPT ![p] = <<>>] /\ pc' = [pc EXCEPT ![p] = "top"]
        /\ UNCHANGED <<jobVars, agentVars, dirVars>>
    BY <1>6 DEF TurnGoesOn
  <2>2. /\ calls' \in [Paths -> Seq(SubCall)]
        /\ \A q \in Paths : Len(calls'[q]) =< MaxWidth
    BY <1>s, <1>n, <2>1
  <2>3. pc' \in [Paths -> Pcs] /\ \A q \in Paths : pc'[q] = "call" => pc[q] = "call"
    BY <1>s, <2>1 DEF Pcs
  <2> QED BY <1>s, <2>1, <2>2, <2>3 DEF Shape, jobVars, agentVars, dirVars
<1> QED BY <1>1, <1>2, <1>3, <1>4, <1>5, <1>6, StepKinds

\* And every step of the pipeline.
LEMMA ShapeNext ==
    ASSUME Shape, [Next \/ Done]_vars
    PROVE  Shape'
<1>1. CASE Cancel
  BY <1>1 DEF Cancel, Shape, agentVars, dirVars
<1>2. CASE UNCHANGED vars BY <1>2 DEF vars, jobVars, agentVars, dirVars, Shape
<1> QED BY <1>1, <1>2, ShapeAgent DEF Next, Done

\* The state is of its type: the loops keep to their steps, and every workdir on
\* disk is some agent's.
THEOREM TypeCorrect == Spec => []TypeOK
<1>1. Shape => TypeOK
  <2> SUFFICES ASSUME Shape PROVE TypeOK OBVIOUS
  <2>1. \A p \in Paths : \A i \in DOMAIN calls[p] : calls[p][i] \in SubCall
    BY CallFacts
  <2> QED BY <2>1 DEF Shape, TypeOK, Pcs, SubCall
<1>2. Init => Shape BY ShapeInit
<1>3. Shape /\ [Next \/ Done]_vars => Shape' BY ShapeNext
<1> QED BY <1>1, <1>2, <1>3, PTL DEF Spec

-----------------------------------------------------------------------------
(* The tree of the live agents.                                            *)

\* The root is above everyone else.
LEMMA RootAbove ==
    ASSUME NEW q \in Paths \ {root}
    PROVE  Above(root, q) /\ Len(root) + 1 = 1
<1>1. Len(root) = 0 /\ Len(q) \in Nat /\ Len(q) > 0 BY RootPath, PathFacts
<1> QED BY <1>1 DEF Above

\* Nobody runs yet for a call that is about to begin.
LEMMA NotLiveYet ==
    ASSUME Shape, Tree, NEW p \in Paths, NEW i \in DOMAIN calls[p],
           Begins(p, i), Depth(p) < MaxDepth, NEW q \in Paths,
           q = Append(p, i) \/ Above(Append(p, i), q)
    PROVE  ~Live(q)
<1>1. i \in 1 .. MaxWidth BY CallFacts
<1>2. /\ Append(p, i) \in Paths /\ Len(Append(p, i)) = Len(p) + 1 /\ Len(p) \in Nat
      /\ Append(p, i)[Len(p) + 1] = i
      /\ \A k \in 1 .. Len(p) : Append(p, i)[k] = p[k]
  BY <1>1, ChildPath, PathFacts
<1>3. Above(p, q) /\ q[Len(p) + 1] = i
  <2>1. CASE q = Append(p, i) BY <1>2, <2>1 DEF Above
  <2>2. CASE Above(Append(p, i), q)
    <3>1. Len(q) \in Nat BY PathFacts
    <3>2. /\ Len(p) + 1 < Len(q)
          /\ \A k \in 1 .. Len(p) + 1 : Append(p, i)[k] = q[k]
      BY <1>2, <2>2 DEF Above
    <3> QED BY <1>2, <3>1, <3>2 DEF Above
  <2> QED BY <2>1, <2>2
<1>4. Live(q) => Runs(p, i) BY <1>3 DEF Tree
<1>5. calls[p][i].st = "waiting" BY DEF Begins
<1> QED BY <1>4, <1>5 DEF Runs

\* The tree holds through every step.
LEMMA TreeStep ==
    ASSUME Shape, Tree, NEW x \in Paths, AgentStep(x)
    PROVE  Tree'
<1>f. ASSUME \A q \in Paths : Live(q)' => Live(q),
             \A a, q \in Paths : /\ Live(q)' /\ Live(q) /\ Above(a, q)
                                 /\ Runs(a, q[Len(a) + 1])
                                 => Runs(a, q[Len(a) + 1])'
      PROVE  Tree'
  <2> SUFFICES ASSUME NEW a \in Paths, NEW q \in Paths, Live(q)', Above(a, q)
               PROVE  Runs(a, q[Len(a) + 1])'
    BY DEF Tree, Above
  <2>1. Live(q) BY <1>f
  <2>2. Runs(a, q[Len(a) + 1]) BY <2>1 DEF Tree
  <2> QED BY <1>f, <2>1, <2>2
<1>s. DOMAIN pc = Paths /\ pc \in [Paths -> Pcs] BY DEF Shape
<1>1. CASE Moves(x)
  <2>1. PICK v \in {"top", "call", "ending"} : pc' = [pc EXCEPT ![x] = v]
    BY <1>1 DEF Moves
  <2>2. Live(x) /\ pc[x] # "dispatch" /\ calls' = calls BY <1>1 DEF Moves
  <2>3. \A q \in Paths : Live(q)' => Live(q) BY <1>s, <2>1, <2>2 DEF Live
  <2>4. \A a \in Paths : \A j : Runs(a, j) => Runs(a, j)'
    BY <1>s, <2>1, <2>2 DEF Runs
  <2> QED BY <1>f, <2>3, <2>4
<1>2. CASE Answers(x)
  <2>1. /\ pc[x] = "call" /\ \A q \in Paths : q # x => pc'[q] = pc[q]
        /\ \A q \in Paths : q # x => calls'[q] = calls[q]
    BY <1>2, AnswerSets
  <2>3. \A q \in Paths : Live(q)' => Live(q) BY <2>1 DEF Live
  <2>4. \A a \in Paths : \A j : Runs(a, j) => Runs(a, j)' BY <2>1 DEF Runs
  <2> QED BY <1>f, <2>3, <2>4
<1>3. ASSUME NEW i \in DOMAIN calls[x], ToolStep(x, i) PROVE Tree'
  <2>1. PICK s \in {"running", "done"} : calls' = [calls EXCEPT ![x][i].st = s]
    BY <1>3 DEF ToolStep
  <2>2. /\ Sets(x, i, s) /\ pc' = pc
        /\ calls[x][i].st = "waiting" \/ calls[x][i].task \in Tools
    BY <1>3, <2>1, CallSets DEF ToolStep, Begins
  <2>3. \A q \in Paths : Live(q)' => Live(q) BY <2>2 DEF Live
  <2>4. \A a \in Paths : \A j : Runs(a, j) => Runs(a, j)'
    <3> SUFFICES ASSUME NEW a \in Paths, NEW j, Runs(a, j) PROVE Runs(a, j)'
      OBVIOUS
    <3>1. a # x => Runs(a, j)' BY <2>2 DEF Runs, Sets
    <3>2. a = x => j # i BY <2>2, PipelineAssumption DEF Runs
    <3>3. a = x => Runs(a, j)' BY <2>2, <3>2 DEF Runs, Sets
    <3> QED BY <3>1, <3>3
  <2> QED BY <1>f, <2>3, <2>4
<1>4. ASSUME NEW i \in DOMAIN calls[x], Spawn(x, i), NEW c, c = Append(x, i)
      PROVE  Tree'
  <2>1. /\ i \in 1 .. MaxWidth /\ Depth(x) < MaxDepth /\ c \in Paths \ {root} /\ c # x
        /\ Sets(x, i, "running") /\ Begins(x, i) /\ calls[x][i].task \in Tasks
        /\ pc' = [pc EXCEPT ![c] = "starting"]
    <3>1. /\ i \in 1 .. MaxWidth /\ Depth(x) < MaxDepth
          /\ Append(x, i) \in Paths \ {root} /\ Append(x, i) # x
          /\ Sets(x, i, "running") /\ Begins(x, i) /\ calls[x][i].task \in Tasks
          /\ pc' = [pc EXCEPT ![Append(x, i)] = "starting"]
      BY <1>4, SpawnSets
    <3> QED BY <1>4, <3>1
  <2>2. pc[x] = "dispatch" /\ calls[x][i].st = "waiting" /\ ~Live(c)
    BY <1>4, <2>1, NotLiveYet DEF Begins
  <2>3. \A a \in Paths : \A j : Runs(a, j) => Runs(a, j)'
    <3> SUFFICES ASSUME NEW a \in Paths, NEW j, Runs(a, j) PROVE Runs(a, j)'
      OBVIOUS
    <3>1. /\ a # c /\ pc[a] = "dispatch" /\ j \in DOMAIN calls[a]
          /\ calls[a][j].st = "running" /\ calls[a][j].task \in Tasks
      BY <2>2 DEF Runs, Live
    <3>2. pc'[a] = "dispatch" BY <1>s, <2>1, <3>1
    <3>3. /\ j \in DOMAIN calls'[a] /\ calls'[a][j].st = "running"
          /\ calls'[a][j].task \in Tasks
      BY <2>1, <3>1 DEF Sets
    <3> QED BY <3>2, <3>3 DEF Runs
  <2>4. Runs(x, i)'
    <3>1. pc'[x] = "dispatch" BY <1>s, <2>1, <2>2
    <3>2. /\ i \in DOMAIN calls'[x] /\ calls'[x][i].st = "running"
          /\ calls'[x][i].task \in Tasks
      BY <2>1 DEF Sets
    <3> QED BY <3>1, <3>2 DEF Runs
  <2> SUFFICES ASSUME NEW a \in Paths, NEW q \in Paths, Live(q)', Above(a, q)
               PROVE  Runs(a, q[Len(a) + 1])'
    BY DEF Tree, Above
  <2>5. CASE q # c
    <3>1. Live(q) BY <1>s, <2>1, <2>5 DEF Live
    <3> QED BY <2>3, <3>1 DEF Tree
  <2>6. CASE q = c
    <3>1. a = x \/ (Above(a, x) /\ c[Len(a) + 1] = x[Len(a) + 1])
      BY <1>4, <2>1, <2>6, AboveParent
    <3>2. CASE a = x
      <4>1. q[Len(a) + 1] = i BY <1>4, <2>1, <2>6, <3>2, ChildPath
      <4> QED BY <2>4, <3>2, <4>1
    <3>3. CASE Above(a, x) /\ c[Len(a) + 1] = x[Len(a) + 1]
      <4>1. Live(x) BY <2>2 DEF Live
      <4>2. Runs(a, x[Len(a) + 1]) BY <3>3, <4>1 DEF Tree
      <4> QED BY <2>3, <2>6, <3>3, <4>2
    <3> QED BY <3>1, <3>2, <3>3
  <2> QED BY <2>5, <2>6
<1>5. CASE End(x)
  <2>1. pc[x] = "ending" /\ pc' = [pc EXCEPT ![x] = IF x = root THEN "ended" ELSE "none"]
    BY <1>5, EndSets
  <2>2. \A q \in Paths : Live(q)' => Live(q) /\ q # x BY <1>s, <2>1 DEF Live
  <2>3. ASSUME NEW a \in Paths, NEW q \in Paths, Live(q)', Live(q), Above(a, q),
               Runs(a, q[Len(a) + 1])
        PROVE  Runs(a, q[Len(a) + 1])'
    <3>1. a # x /\ q # x BY <2>1, <2>2, <2>3 DEF Runs
    <3>2. ~Above(x, q) BY <2>1, <2>3 DEF Tree, Runs
    <3>3. pc'[a] = "dispatch" BY <1>s, <2>1, <2>3, <3>1 DEF Runs
    <3>4. CASE x = root \/ a # Parent(x)
      <4>1. calls'[a] = calls[a] BY ZenonT(40), <1>5, <3>1, <3>4, EndSets
      <4> QED BY <2>3, <3>3, <4>1 DEF Runs
    <3>5. CASE x # root /\ a = Parent(x)
      <4>1. q[Len(a) + 1] # x[Len(x)] BY <2>3, <3>1, <3>2, <3>5, BelowPlace
      <4>2. /\ DOMAIN calls'[a] = DOMAIN calls[a]
            /\ \A k \in DOMAIN calls[a] :
                   /\ calls'[a][k].st = IF k = x[Len(x)] THEN "done" ELSE calls[a][k].st
                   /\ calls'[a][k].task = calls[a][k].task
        BY ZenonT(40), <1>5, <3>5, EndSets
      <4> QED BY <2>3, <3>3, <4>1, <4>2 DEF Runs
    <3> QED BY <3>4, <3>5
  <2> QED BY <1>f, <2>2, <2>3
<1>6. CASE TurnGoesOn(x)
  <2>1. /\ pc[x] = "dispatch" /\ \A i \in DOMAIN calls[x] : calls[x][i].st = "done"
        /\ calls' = [calls EXCEPT ![x] = <<>>] /\ pc' = [pc EXCEPT ![x] = "top"]
    BY <1>6 DEF TurnGoesOn
  <2>2. DOMAIN calls = Paths BY DEF Shape
  <2>3. \A q \in Paths : Live(q)' => Live(q) BY <1>s, <2>1 DEF Live
  <2>4. \A a \in Paths : \A j : Runs(a, j) => Runs(a, j)'
    BY <1>s, <2>1, <2>2 DEF Runs
  <2> QED BY <1>f, <2>3, <2>4
<1> QED BY <1>1, <1>2, <1>3, <1>4, <1>5, <1>6, StepKinds

-----------------------------------------------------------------------------
(* How many run at once.                                                   *)

\* A turn of which nothing but done calls have changed, or that is over or new,
\* runs no call it did not run before; a call that starts was let start.
LEMMA TurnStep ==
    ASSUME Shape, NEW x \in Paths, AgentStep(x), NEW p \in Paths
    PROVE  \/ Active(p)' = {}
           \/ /\ DOMAIN calls'[p] = DOMAIN calls[p] /\ Len(calls'[p]) = Len(calls[p])
              /\ \A k \in DOMAIN calls[p] : \/ calls'[p][k].st = "done"
                                            \/ calls'[p][k].st = calls[p][k].st
           \/ /\ DOMAIN calls'[p] = DOMAIN calls[p] /\ Len(calls'[p]) = Len(calls[p])
              /\ \E i \in DOMAIN calls[p] :
                    /\ Begins(p, i)
                    /\ \A k \in DOMAIN calls[p] :
                          calls'[p][k].st = IF k = i THEN "running" ELSE calls[p][k].st
<1>e. ASSUME calls'[p] = <<>> PROVE Active(p)' = {}
  <2>1. DOMAIN <<>> = {} OBVIOUS
  <2>2. \A k \in Active(p)' : k \in DOMAIN calls'[p] BY DEF Active
  <2>3. DOMAIN calls'[p] = {} BY <1>e, <2>1
  <2> QED BY <2>2, <2>3
<1>u. ASSUME calls'[p] = calls[p]
      PROVE  /\ DOMAIN calls'[p] = DOMAIN calls[p] /\ Len(calls'[p]) = Len(calls[p])
             /\ \A k \in DOMAIN calls[p] : calls'[p][k].st = calls[p][k].st
  BY <1>u
<1>1. CASE Moves(x) BY <1>1, <1>u DEF Moves
<1>2. CASE Answers(x)
  <2>1. CASE p # x BY <1>2, <1>u, <2>1, AnswerSets
  <2>2. CASE p = x
    <3>1. \A k \in DOMAIN calls'[p] : calls'[p][k].st = "waiting" BY <1>2, <2>2, AnswerSets
    <3> QED BY <3>1 DEF Active
  <2> QED BY <2>1, <2>2
<1>3. ASSUME NEW i \in DOMAIN calls[x], ToolStep(x, i)
      PROVE  /\ DOMAIN calls'[p] = DOMAIN calls[p] /\ Len(calls'[p]) = Len(calls[p])
             /\ \/ \A k \in DOMAIN calls[p] : \/ calls'[p][k].st = "done"
                                              \/ calls'[p][k].st = calls[p][k].st
                \/ /\ p = x /\ Begins(p, i)
                   /\ \A k \in DOMAIN calls[p] : calls'[p][k].st =
                          IF k = i THEN "running" ELSE calls[p][k].st
  <2>1. PICK s \in {"running", "done"} : calls' = [calls EXCEPT ![x][i].st = s]
    BY <1>3 DEF ToolStep
  <2>2. Sets(x, i, s) /\ (Begins(x, i) \/ calls[x][i].st = "running")
    BY <1>3, <2>1, CallSets DEF ToolStep
  <2>3. CASE p = x BY <2>2, <2>3 DEF Sets
  <2>4. CASE p # x
    <3>1. calls'[p] = calls[p] BY <2>2, <2>4 DEF Sets
    <3> QED BY <1>u, <3>1
  <2> QED BY <2>3, <2>4
<1>4. ASSUME NEW i \in DOMAIN calls[x], Spawn(x, i)
      PROVE  /\ DOMAIN calls'[p] = DOMAIN calls[p] /\ Len(calls'[p]) = Len(calls[p])
             /\ p # x => \A k \in DOMAIN calls[p] : calls'[p][k].st = calls[p][k].st
             /\ p = x => /\ Begins(p, i)
                         /\ \A k \in DOMAIN calls[p] : calls'[p][k].st =
                                IF k = i THEN "running" ELSE calls[p][k].st
  <2>1. Sets(x, i, "running") /\ Begins(x, i) BY <1>4, SpawnSets
  <2>2. CASE p = x BY <2>1, <2>2 DEF Sets
  <2>3. CASE p # x
    <3>1. calls'[p] = calls[p] BY <2>1, <2>3 DEF Sets
    <3> QED BY <1>u, <2>3, <3>1
  <2> QED BY <2>2, <2>3
<1>5. CASE End(x)
  <2>1. CASE p = x
    <3>1. calls'[p] = <<>> BY <1>5, <2>1, EndSets
    <3> QED BY <1>e, <3>1
  <2>2. CASE p # x /\ (x = root \/ p # Parent(x))
    <3>1. calls'[p] = calls[p] BY <1>5, <2>2, EndSets
    <3> QED BY <1>u, <3>1
  <2>3. CASE p # x /\ x # root /\ p = Parent(x)
    <3>1. /\ DOMAIN calls'[p] = DOMAIN calls[p] /\ Len(calls'[p]) = Len(calls[p])
          /\ \A k \in DOMAIN calls[p] : calls'[p][k].st =
                 IF k = x[Len(x)] THEN "done" ELSE calls[p][k].st
      BY ZenonT(40), <1>5, <2>3, EndSets
    <3> QED BY <3>1
  <2> QED BY <2>1, <2>2, <2>3
<1>6. CASE TurnGoesOn(x)
  <2>1. calls' = [calls EXCEPT ![x] = <<>>] /\ DOMAIN calls = Paths
    BY <1>6 DEF TurnGoesOn, Shape
  <2>2. CASE p = x
    <3>1. calls'[p] = <<>> BY <2>1, <2>2
    <3> QED BY <1>e, <3>1
  <2>3. CASE p # x
    <3>1. calls'[p] = calls[p] BY <2>1, <2>3
    <3> QED BY <1>u, <3>1
  <2> QED BY <2>2, <2>3
<1>7. CASE \E i \in DOMAIN calls[x] : ToolStep(x, i) \/ Spawn(x, i)
  <2>1. CASE \E i \in DOMAIN calls[x] : ToolStep(x, i)
    <3>1. PICK i \in DOMAIN calls[x] : ToolStep(x, i) BY <2>1
    <3> QED BY <1>3, <3>1
  <2>2. CASE \E i \in DOMAIN calls[x] : Spawn(x, i)
    <3>1. PICK i \in DOMAIN calls[x] : Spawn(x, i) BY <2>2
    <3>2. CASE p = x BY <1>4, <3>1, <3>2
    <3>3. CASE p # x BY <1>4, <3>1, <3>3
    <3> QED BY <3>2, <3>3
  <2> QED BY <1>7, <2>1, <2>2
<1> QED BY <1>1, <1>2, <1>5, <1>6, <1>7, StepKinds

\* The calls of a turn that does not fan out stay one after the other.
LEMMA SerialStep ==
    ASSUME Shape, Serial, NEW x \in Paths, AgentStep(x)
    PROVE  Serial'
<1> SUFFICES ASSUME NEW p \in Paths, ~FanOut(p)',
                    NEW i \in Active(p)', NEW k \in 1 .. i - 1
             PROVE  calls'[p][k].st = "done"
  BY DEF Serial
<1>1. i \in DOMAIN calls'[p] /\ calls'[p][i].st = "running" BY DEF Active
<1>2. DOMAIN calls[p] = 1 .. Len(calls[p]) /\ Len(calls[p]) \in Nat BY CallFacts
<1>3. CASE /\ DOMAIN calls'[p] = DOMAIN calls[p] /\ Len(calls'[p]) = Len(calls[p])
           /\ \A j \in DOMAIN calls[p] : \/ calls'[p][j].st = "done"
                                         \/ calls'[p][j].st = calls[p][j].st
  <2>1. i \in Active(p) /\ ~FanOut(p) BY <1>1, <1>3 DEF Active, FanOut
  <2>2. calls[p][k].st = "done" BY <2>1 DEF Serial
  <2>3. k \in DOMAIN calls[p] BY <1>1, <1>2, <1>3
  <2> QED BY <1>3, <2>2, <2>3
<1>4. CASE /\ DOMAIN calls'[p] = DOMAIN calls[p] /\ Len(calls'[p]) = Len(calls[p])
           /\ \E j \in DOMAIN calls[p] :
                  /\ Begins(p, j)
                  /\ \A m \in DOMAIN calls[p] :
                        calls'[p][m].st = IF m = j THEN "running" ELSE calls[p][m].st
  <2>1. PICK j \in DOMAIN calls[p] :
            /\ Begins(p, j)
            /\ \A m \in DOMAIN calls[p] :
                  calls'[p][m].st = IF m = j THEN "running" ELSE calls[p][m].st
    BY <1>4
  <2>2. ~FanOut(p) /\ calls[p][j].st = "waiting" /\ MayBegin(p, j)
    BY <1>4, <2>1 DEF FanOut, Begins
  <2>3. k \in DOMAIN calls[p] /\ i \in Nat /\ k < i BY <1>1, <1>2, <1>4
  <2>4. CASE i = j
    <3>1. calls[p][k].st = "done" BY <2>2, <2>4 DEF MayBegin
    <3> QED BY <2>1, <2>3, <2>4, <3>1
  <2>5. CASE i # j
    <3>1. i \in Active(p) BY <1>1, <1>4, <2>1, <2>5 DEF Active
    <3>2. calls[p][k].st = "done" BY <2>2, <3>1 DEF Serial
    <3>3. k # j BY <2>2, <3>2
    <3> QED BY <2>1, <2>3, <3>2, <3>3
  <2> QED BY <2>4, <2>5
<1> QED BY <1>3, <1>4, TurnStep

\* The calls of a turn are finitely many.
LEMMA ActiveFinite ==
    ASSUME Shape, NEW p \in Paths
    PROVE  IsFiniteSet(Active(p)) /\ Cardinality(Active(p)) \in Nat
<1>1. Len(calls[p]) \in Nat /\ DOMAIN calls[p] = 1 .. Len(calls[p]) BY CallFacts
<1>2. IsFiniteSet(1 .. Len(calls[p]))
  <2>1. ASSUME NEW n \in Nat PROVE IsFiniteSet(1 .. n) BY FS_Interval
  <2> QED BY <1>1, <2>1
<1>3. Active(p) \subseteq 1 .. Len(calls[p]) BY <1>1 DEF Active
<1> QED BY <1>2, <1>3, FS_Subset, FS_CardinalityType

\* The root's turn runs no more calls than it may.
LEMMA WidthStep ==
    ASSUME Shape, Shape', Width, NEW x \in Paths, AgentStep(x)
    PROVE  Width'
<1>1. /\ root \in Paths /\ IsFiniteSet(Active(root))
      /\ ParallelLimit \in Nat /\ 1 =< ParallelLimit
      /\ Cardinality(Active(root)) \in Nat
  BY RootPath, ActiveFinite, PipelineAssumption
<1>s. ASSUME NEW S, S \subseteq Active(root) PROVE Cardinality(S) =< ParallelLimit
  <2>1. Cardinality(S) =< Cardinality(Active(root)) /\ Cardinality(S) \in Nat
    BY <1>1, <1>s, FS_Subset, FS_CardinalityType
  <2> QED BY <1>1, <2>1 DEF Width
<1>2. CASE Active(root)' = {}
  <2>1. Active(root)' \subseteq Active(root) BY <1>2
  <2> QED BY <1>s, <2>1 DEF Width
<1>3. CASE /\ DOMAIN calls'[root] = DOMAIN calls[root]
           /\ \A k \in DOMAIN calls[root] : \/ calls'[root][k].st = "done"
                                            \/ calls'[root][k].st = calls[root][k].st
  <2>1. Active(root)' \subseteq Active(root) BY <1>3 DEF Active
  <2> QED BY <1>s, <2>1 DEF Width
<1>4. CASE /\ DOMAIN calls'[root] = DOMAIN calls[root] /\ Len(calls'[root]) = Len(calls[root])
           /\ \E i \in DOMAIN calls[root] :
                  /\ Begins(root, i)
                  /\ \A k \in DOMAIN calls[root] : calls'[root][k].st =
                         IF k = i THEN "running" ELSE calls[root][k].st
  <2>1. PICK i \in DOMAIN calls[root] :
            /\ Begins(root, i)
            /\ \A k \in DOMAIN calls[root] : calls'[root][k].st =
                   IF k = i THEN "running" ELSE calls[root][k].st
    BY <1>4
  <2>2. Active(root)' \subseteq Active(root) \cup {i} BY <1>4, <2>1 DEF Active
  <2>3. Depth(root) =< ParallelMaxDepth BY RootPath, PipelineAssumption DEF Depth
  <2>4. CASE Len(calls[root]) > 1
    <3>1. FanOut(root) BY <2>3, <2>4 DEF FanOut
    <3>2. Cardinality(Active(root)) < ParallelLimit BY <2>1, <3>1 DEF Begins, MayBegin
    <3>3. /\ IsFiniteSet(Active(root) \cup {i})
          /\ Cardinality(Active(root) \cup {i}) =< Cardinality(Active(root)) + 1
          /\ Cardinality(Active(root) \cup {i}) \in Nat
      <4>1. ASSUME NEW S, IsFiniteSet(S), NEW e
            PROVE  /\ IsFiniteSet(S \cup {e})
                   /\ Cardinality(S \cup {e}) =< Cardinality(S) + 1
                   /\ Cardinality(S \cup {e}) \in Nat
        <5>1. /\ IsFiniteSet(S \cup {e})
              /\ Cardinality(S \cup {e}) = Cardinality(S)
                 \/ Cardinality(S \cup {e}) = Cardinality(S) + 1
          BY <4>1, FS_AddElement
        <5>2. Cardinality(S) \in Nat BY <4>1, FS_CardinalityType
        <5> QED BY <5>1, <5>2
      <4> QED BY <1>1, <4>1
    <3>4. /\ Cardinality(Active(root)') =< Cardinality(Active(root) \cup {i})
          /\ Cardinality(Active(root)') \in Nat
      BY <2>2, <3>3, FS_Subset, FS_CardinalityType
    <3> QED BY <1>1, <3>2, <3>3, <3>4 DEF Width
  <2>5. CASE ~(Len(calls[root]) > 1)
    <3>1. DOMAIN calls[root] = 1 .. Len(calls[root]) /\ Len(calls[root]) \in Nat
      BY <1>1, CallFacts
    <3>2. Active(root)' \subseteq {1} BY <1>4, <2>5, <3>1 DEF Active
    <3>3. IsFiniteSet({1}) /\ Cardinality({1}) = 1 BY FS_Singleton
    <3>4. Cardinality(Active(root)') =< 1 /\ Cardinality(Active(root)') \in Nat
      BY <3>2, <3>3, FS_Subset, FS_CardinalityType
    <3> QED BY <1>1, <3>4 DEF Width
  <2> QED BY <2>4, <2>5
<1> QED BY <1>1, <1>2, <1>3, <1>4, TurnStep

-----------------------------------------------------------------------------
(* The branches.                                                           *)

\* With turns that fan out at the root only (_PARALLEL_TOOL_MAX_DEPTH = 1), the
\* live agents below one of its calls stay one branch.
LEMMA BranchStep ==
    ASSUME ParallelMaxDepth = 1, Shape, Tree, Serial, OneBranch,
           NEW x \in Paths, AgentStep(x)
    PROVE  OneBranch'
<1>s. DOMAIN pc = Paths BY DEF Shape
<1>l. ASSUME \A q \in Paths : Live(q)' => Live(q) PROVE OneBranch'
  BY <1>l DEF OneBranch
<1>1. CASE Moves(x)
  <2>1. \A q \in Paths : Live(q)' => Live(q) BY <1>1, <1>s DEF Moves, Live
  <2> QED BY <1>l, <2>1
<1>2. CASE Answers(x)
  <2>1. \A q \in Paths : Live(q)' => Live(q)
    <3>1. pc[x] = "call" /\ \A q \in Paths : q # x => pc'[q] = pc[q]
      BY <1>2, AnswerSets
    <3> QED BY <3>1 DEF Live
  <2> QED BY <1>l, <2>1
<1>3. ASSUME NEW i \in DOMAIN calls[x], ToolStep(x, i) PROVE OneBranch'
  <2>1. \A q \in Paths : Live(q)' => Live(q) BY <1>3 DEF ToolStep, Live
  <2> QED BY <1>l, <2>1
<1>5. CASE End(x)
  <2>1. \A q \in Paths : Live(q)' => Live(q)
    <3>1. pc' = [pc EXCEPT ![x] = IF x = root THEN "ended" ELSE "none"]
      BY <1>5, EndSets
    <3> QED BY <1>s, <3>1 DEF Live
  <2> QED BY <1>l, <2>1
<1>6. CASE TurnGoesOn(x)
  <2>1. \A q \in Paths : Live(q)' => Live(q) BY <1>6, <1>s DEF TurnGoesOn, Live
  <2> QED BY <1>l, <2>1
<1>4. ASSUME NEW i \in DOMAIN calls[x], Spawn(x, i), NEW c, c = Append(x, i)
      PROVE  OneBranch'
  <2>1. /\ i \in 1 .. MaxWidth /\ Depth(x) < MaxDepth /\ c \in Paths \ {root}
        /\ Begins(x, i) /\ pc' = [pc EXCEPT ![c] = "starting"]
    <3>1. /\ i \in 1 .. MaxWidth /\ Depth(x) < MaxDepth
          /\ Append(x, i) \in Paths \ {root} /\ Begins(x, i)
          /\ pc' = [pc EXCEPT ![Append(x, i)] = "starting"]
      BY <1>4, SpawnSets
    <3> QED BY <1>4, <3>1
  <2>2. /\ Len(c) = Len(x) + 1 /\ Len(x) \in Nat /\ c[Len(x) + 1] = i
        /\ \A k \in 1 .. Len(x) : c[k] = x[k]
    BY <1>4, <2>1, ChildPath, PathFacts
  <2>3. \A q \in Paths : Live(q)' => q = c \/ Live(q) BY <1>s, <2>1 DEF Live
  <2>4. Live(x) /\ calls[x][i].st = "waiting" /\ MayBegin(x, i)
    BY <2>1 DEF Begins, Live
  <2>5. ASSUME NEW q \in Paths \ {root}, Live(q), q[1] = c[1]
        PROVE  /\ \A k \in 1 .. Len(c) : k =< Len(q) => c[k] = q[k]
               /\ \A k \in 1 .. Len(q) : k =< Len(c) => q[k] = c[k]
    <3>1. Len(q) \in Nat /\ Len(q) > 0 BY PathFacts, RootPath
    <3>2. CASE x = root
      <4>1. Len(x) = 0 BY <3>2, RootPath
      <4>2. \A k \in 1 .. Len(c) : k = 1 BY <2>2, <4>1
      <4>3. \A k \in 1 .. Len(q) : k =< Len(c) => k = 1 BY <2>2, <3>1, <4>1
      <4> QED BY <2>5, <4>2, <4>3
    <3>3. CASE x # root
      <4>1. Len(x) > 0 /\ x[1] = q[1] /\ 1 \in 1 .. Len(x)
        BY <2>2, <2>5, <3>3, RootPath
      <4>2. /\ \A k \in 1 .. Len(x) : k =< Len(q) => x[k] = q[k]
        BY <2>4, <2>5, <3>3, <4>1 DEF OneBranch
      <4>3. Len(q) =< Len(x)
        <5> SUFFICES ASSUME Len(q) > Len(x) PROVE FALSE BY <2>2, <3>1
        <5> DEFINE j == q[Len(x) + 1]
        <5>1. Above(x, q) BY <2>2, <3>1, <4>2 DEF Above
        <5>2. Runs(x, j) BY <2>5, <5>1 DEF Tree
        <5>3. ~FanOut(x) BY <2>2, <4>1 DEF FanOut, Depth
        <5>4. j \in Active(x) /\ j \in DOMAIN calls[x] /\ calls[x][j].st = "running"
          BY <5>2 DEF Runs, Active
        <5> HIDE DEF j
        <5>5. \A k \in 1 .. i - 1 : calls[x][k].st = "done"
          BY <2>4, <5>3 DEF MayBegin
        <5>6. \A k \in 1 .. j - 1 : calls[x][k].st = "done"
          BY <5>3, <5>4 DEF Serial
        <5>7. DOMAIN calls[x] = 1 .. Len(calls[x]) /\ Len(calls[x]) \in Nat BY CallFacts
        <5>8. i \in Nat /\ j \in Nat /\ i > 0 /\ j > 0 BY <5>4, <5>7
        <5>9. CASE i < j BY <2>4, <5>6, <5>8, <5>9
        <5>10. CASE j < i BY <5>4, <5>5, <5>8, <5>10
        <5>11. CASE i = j BY <2>4, <5>4, <5>11
        <5> QED BY <5>8, <5>9, <5>10, <5>11
      <4> QED BY <2>2, <3>1, <4>2, <4>3
    <3> QED BY <3>2, <3>3
  <2>6. ASSUME NEW p \in Paths \ {root}, NEW q \in Paths \ {root},
               Live(p)', Live(q)', p[1] = q[1]
        PROVE  \A k \in 1 .. Len(p) : k =< Len(q) => p[k] = q[k]
    <3>1. CASE p = c /\ q = c BY <3>1
    <3>2. CASE p = c /\ q # c BY <2>3, <2>5, <2>6, <3>2
    <3>3. CASE p # c /\ q = c BY <2>3, <2>5, <2>6, <3>3
    <3>4. CASE p # c /\ q # c BY <2>3, <2>6, <3>4 DEF OneBranch
    <3> QED BY <3>1, <3>2, <3>3, <3>4
  <2> QED BY <2>6 DEF OneBranch
<1>7. CASE \E i \in DOMAIN calls[x] : ToolStep(x, i) \/ Spawn(x, i)
  BY <1>3, <1>4, <1>7
<1> QED BY <1>1, <1>2, <1>5, <1>6, <1>7, StepKinds

\* At most as many agents are with the model as the root's turn may run calls:
\* one in each branch, or the root alone.
LEMMA CallingBound ==
    ASSUME Shape, Tree, Width, OneBranch
    PROVE  /\ IsFiniteSet(Calling) /\ Cardinality(Calling) \in Nat
           /\ Cardinality(Calling) =< ParallelLimit
<1>1. /\ root \in Paths /\ IsFiniteSet(Active(root))
      /\ ParallelLimit \in Nat /\ 1 =< ParallelLimit
      /\ Cardinality(Active(root)) \in Nat /\ Cardinality(Active(root)) =< ParallelLimit
  BY RootPath, ActiveFinite, PipelineAssumption DEF Width
<1>2. ASSUME NEW q \in Calling, q # root
      PROVE  q \in Paths \ {root} /\ Live(q) /\ Runs(root, q[1])
  <2>1. q \in Paths \ {root} /\ Live(q) BY <1>2 DEF Calling, Live
  <2>2. Runs(root, q[Len(root) + 1]) BY <1>1, <2>1, RootAbove DEF Tree
  <2> QED BY <2>1, <2>2, RootAbove
<1>3. CASE root \in Calling
  <2>1. pc[root] = "call" BY <1>3 DEF Calling
  <2>2. Calling \subseteq {root} BY <1>2, <2>1 DEF Runs
  <2>3. IsFiniteSet({root}) /\ Cardinality({root}) = 1 BY FS_Singleton
  <2>4. /\ IsFiniteSet(Calling) /\ Cardinality(Calling) \in Nat
        /\ Cardinality(Calling) =< 1
    BY <2>2, <2>3, FS_Subset, FS_CardinalityType
  <2> QED BY <1>1, <2>4
<1>4. CASE root \notin Calling
  <2> DEFINE f == [q \in Calling |-> q[1]]
  <2>1. f \in [Calling -> Active(root)]
    <3>1. ASSUME NEW q \in Calling PROVE q[1] \in Active(root)
      BY <1>2, <1>4 DEF Runs, Active
    <3> QED BY <3>1
  <2>2. ASSUME NEW p \in Calling, NEW q \in Calling, f[p] = f[q] PROVE p = q
    <3>1. p[1] = q[1] BY <2>2
    <3>2. /\ p \in Paths \ {root} /\ q \in Paths \ {root} /\ Live(p) /\ Live(q)
          /\ pc[p] = "call" /\ pc[q] = "call"
      BY <1>2, <1>4 DEF Calling
    <3>3. /\ \A k \in 1 .. Len(p) : k =< Len(q) => p[k] = q[k]
          /\ \A k \in 1 .. Len(q) : k =< Len(p) => q[k] = p[k]
      BY <3>1, <3>2 DEF OneBranch
    <3>4. Len(p) \in Nat /\ Len(q) \in Nat BY <3>2, PathFacts
    <3>5. CASE Len(p) < Len(q)
      <4>1. Above(p, q) BY <3>3, <3>4, <3>5 DEF Above
      <4> QED BY <3>2, <4>1 DEF Tree, Runs
    <3>6. CASE Len(q) < Len(p)
      <4>1. Above(q, p) BY <3>3, <3>4, <3>6 DEF Above
      <4> QED BY <3>2, <4>1 DEF Tree, Runs
    <3>7. CASE Len(p) = Len(q)
      <4>1. \A k \in 1 .. Len(p) : p[k] = q[k] BY <3>3, <3>4, <3>7
      <4> QED BY <3>2, <3>7, <4>1, SamePath
    <3> QED BY <3>4, <3>5, <3>6, <3>7
  <2>3. f \in Injection(Calling, Active(root)) BY <2>1, <2>2 DEF Injection, IsInjective
  <2> HIDE DEF f
  <2>4. IsFiniteSet(Calling) /\ Cardinality(Calling) =< Cardinality(Active(root))
    BY <1>1, <2>3, FS_Injection
  <2>5. Cardinality(Calling) \in Nat BY <2>4, FS_CardinalityType
  <2> QED BY <1>1, <2>4, <2>5
<1> QED BY <1>3, <1>4

\* And so it is in the next state.
LEMMA CallingBoundNext ==
    (Shape /\ Tree /\ Width /\ OneBranch)' =>
        (/\ IsFiniteSet(Calling) /\ Cardinality(Calling) \in Nat
         /\ Cardinality(Calling) =< ParallelLimit)'
<1>1. Shape /\ Tree /\ Width /\ OneBranch
      => /\ IsFiniteSet(Calling) /\ Cardinality(Calling) \in Nat
         /\ Cardinality(Calling) =< ParallelLimit
  BY CallingBound
<1> QED BY <1>1, PTL

-----------------------------------------------------------------------------
(* What the pipeline spends, and how it stops.                             *)

\* Products with the price of a model call.
LEMMA Price ==
    /\ \A m, n \in Nat : m =< n => m * Cost =< n * Cost
    /\ \A n \in Nat : (n + 1) * Cost = n * Cost + Cost /\ n * Cost \in Nat
    /\ 0 * Cost = 0
<1>1. Cost \in Nat BY PipelineAssumption
<1>2. ASSUME NEW m \in Nat, NEW n \in Nat, m =< n PROVE m * Cost =< n * Cost
  <2>1. n - m \in Nat /\ n = m + (n - m) BY <1>2
  <2>2. PICK d \in Nat : n = m + d BY <2>1
  <2>3. n * Cost = m * Cost + d * Cost /\ d * Cost \in Nat /\ m * Cost \in Nat
    BY <1>1, <2>2
  <2> QED BY <1>1, <2>3
<1>3. ASSUME NEW n \in Nat PROVE (n + 1) * Cost = n * Cost + Cost /\ n * Cost \in Nat
  BY <1>1
<1> QED BY <1>1, <1>2, <1>3

\* Who is with the model, and what it costs and delays.
LEMMA CallingStep ==
    ASSUME Shape, NEW x \in Paths, AgentStep(x)
    PROVE  \/ /\ Calling' \subseteq Calling
              /\ UNCHANGED <<cancelled, fresh, late>> /\ cost' \in Nat /\ cost =< cost'
           \/ /\ ~cancelled /\ cost < MaxJobCost
              /\ UNCHANGED <<cancelled, cost, fresh, late>>
           \/ /\ x \in Calling /\ Calling' = Calling \ {x}
              /\ Bills /\ cancelled' = cancelled
              /\ late' = IF cancelled THEN late + 1 ELSE late
<1>s. DOMAIN pc = Paths /\ cost \in Nat BY DEF Shape
<1>j. ASSUME UNCHANGED jobVars
      PROVE  UNCHANGED <<cancelled, fresh, late>> /\ cost' \in Nat /\ cost =< cost'
  BY <1>s, <1>j DEF jobVars
<1>1. CASE Moves(x)
  <2>1. PICK v \in {"top", "call", "ending"} :
            /\ pc' = [pc EXCEPT ![x] = v]
            /\ v = "call" => ~cancelled /\ cost < MaxJobCost
    BY <1>1 DEF Moves
  <2>2. UNCHANGED jobVars /\ UNCHANGED <<cancelled, cost, fresh, late>>
    BY <1>1 DEF Moves, jobVars
  <2>3. v # "call" => Calling' \subseteq Calling BY <1>s, <2>1 DEF Calling
  <2> QED BY <1>j, <2>1, <2>2, <2>3
<1>2. CASE Answers(x)
  <2>1. /\ pc[x] = "call" /\ pc'[x] \in {"ending", "dispatch"}
        /\ \A q \in Paths : q # x => pc'[q] = pc[q]
        /\ Bills /\ cancelled' = cancelled
        /\ late' = IF cancelled THEN late + 1 ELSE late
    BY <1>2, AnswerSets
  <2>2. x \in Calling /\ Calling' = Calling \ {x} BY <2>1 DEF Calling
  <2> QED BY <2>1, <2>2
<1>3. ASSUME NEW i \in DOMAIN calls[x], ToolStep(x, i)
      PROVE  /\ Calling' \subseteq Calling /\ UNCHANGED <<cancelled, fresh, late>>
             /\ cost' \in Nat /\ cost =< cost'
  BY <1>3 DEF ToolStep, Calling
<1>4. ASSUME NEW i \in DOMAIN calls[x], Spawn(x, i)
      PROVE  /\ Calling' \subseteq Calling /\ UNCHANGED <<cancelled, fresh, late>>
             /\ cost' \in Nat /\ cost =< cost'
  <2>1. pc' = [pc EXCEPT ![Append(x, i)] = "starting"] /\ UNCHANGED jobVars
    BY <1>4, SpawnSets
  <2>2. Calling' \subseteq Calling BY <1>s, <2>1 DEF Calling
  <2> QED BY <1>j, <2>1, <2>2
<1>5. CASE End(x)
  <2>1. /\ pc' = [pc EXCEPT ![x] = IF x = root THEN "ended" ELSE "none"]
        /\ UNCHANGED jobVars
    BY <1>5, EndSets
  <2>2. Calling' \subseteq Calling BY <1>s, <2>1 DEF Calling
  <2> QED BY <1>j, <2>1, <2>2
<1>6. CASE TurnGoesOn(x)
  <2>1. pc' = [pc EXCEPT ![x] = "top"] /\ UNCHANGED jobVars BY <1>6 DEF TurnGoesOn
  <2>2. Calling' \subseteq Calling BY <1>s, <2>1 DEF Calling
  <2> QED BY <1>j, <2>1, <2>2
<1>7. CASE \E i \in DOMAIN calls[x] : ToolStep(x, i) \/ Spawn(x, i)
  BY <1>3, <1>4, <1>7
<1> QED BY <1>1, <1>2, <1>5, <1>6, <1>7, StepKinds

\* What has been billed and what may still be stays below the ceiling and one
\* call for each branch; and so do the answers that come late.
LEMMA SpendStep ==
    ASSUME Shape, Tree, Width, OneBranch, SpendInv, StopInv,
           (Shape /\ Tree /\ Width /\ OneBranch)', NEW x \in Paths, AgentStep(x)
    PROVE  SpendInv' /\ StopInv'
<1> DEFINE n == Cardinality(Calling)
           m == Cardinality(Calling')
<1>1. IsFiniteSet(Calling) /\ n \in Nat /\ n =< ParallelLimit BY CallingBound
<1>2. IsFiniteSet(Calling') /\ m \in Nat /\ m =< ParallelLimit
  BY CallingBoundNext
<1>3. /\ cost \in Nat /\ fresh \in Nat /\ late \in Nat /\ Cost \in Nat /\ MaxJobCost \in Nat
      /\ ParallelLimit \in Nat /\ cancelled \in BOOLEAN
  BY PipelineAssumption DEF Shape
<1>4. /\ n * Cost \in Nat /\ m * Cost \in Nat /\ ParallelLimit * Cost \in Nat
      /\ m * Cost =< ParallelLimit * Cost
  BY <1>1, <1>2, <1>3, Price
<1>5. /\ fresh * Cost + n * Cost < MaxJobCost + ParallelLimit * Cost
      /\ fresh * Cost =< cost /\ fresh * Cost \in Nat
      /\ cancelled => late + n =< ParallelLimit
      /\ ~cancelled => late = 0
  BY <1>3, Price DEF SpendInv, StopInv
<1>g. ASSUME fresh' * Cost + m * Cost < MaxJobCost + ParallelLimit * Cost,
             fresh' * Cost =< cost',
             cancelled' => late' + m =< ParallelLimit,
             ~cancelled' => late' = 0
      PROVE  SpendInv' /\ StopInv'
  BY <1>g DEF SpendInv, StopInv
<1>6. CASE /\ Calling' \subseteq Calling
           /\ UNCHANGED <<cancelled, fresh, late>> /\ cost' \in Nat /\ cost =< cost'
  <2>1. m =< n BY <1>1, <1>6, FS_Subset
  <2>2. m * Cost =< n * Cost BY <1>1, <1>2, <2>1, Price
  <2> HIDE DEF n, m
  <2>3. fresh' * Cost + m * Cost < MaxJobCost + ParallelLimit * Cost
    BY <1>3, <1>4, <1>5, <1>6, <2>2
  <2>4. fresh' * Cost =< cost' BY <1>3, <1>5, <1>6
  <2> QED BY <1>1, <1>2, <1>3, <1>5, <1>6, <1>g, <2>1, <2>3, <2>4
<1>7. CASE /\ ~cancelled /\ cost < MaxJobCost
           /\ UNCHANGED <<cancelled, cost, fresh, late>>
  <2> HIDE DEF n, m
  <2>1. fresh' * Cost + m * Cost < MaxJobCost + ParallelLimit * Cost
    BY <1>3, <1>4, <1>5, <1>7
  <2> QED BY <1>5, <1>7, <1>g, <2>1
<1>8. CASE /\ x \in Calling /\ Calling' = Calling \ {x}
           /\ Bills /\ cancelled' = cancelled
           /\ late' = IF cancelled THEN late + 1 ELSE late
  <2>1. m = n - 1 BY <1>1, <1>8, FS_RemoveElement
  <2>2. n = m + 1 BY <1>1, <1>2, <2>1
  <2> HIDE DEF n, m
  <2>3. n * Cost = m * Cost + Cost BY <1>2, <2>2, Price
  <2>f. (fresh + 1) * Cost = fresh * Cost + Cost BY <1>3, Price
  <2>4. /\ fresh' * Cost + m * Cost < MaxJobCost + ParallelLimit * Cost
        /\ fresh' * Cost =< cost'
    <3>1. CASE fresh' = fresh /\ cost' = cost BY <1>3, <1>4, <1>5, <2>3, <3>1
    <3>2. CASE fresh' = fresh + 1 /\ cost' = cost + Cost
      BY <1>3, <1>4, <1>5, <2>3, <2>f, <3>2
    <3> QED BY <1>8, <3>1, <3>2 DEF Bills
  <2>5. /\ cancelled' => late' + m =< ParallelLimit
        /\ ~cancelled' => late' = 0
    BY <1>2, <1>3, <1>5, <1>8, <2>2
  <2> QED BY <1>g, <2>4, <2>5
<1> QED BY <1>6, <1>7, <1>8, CallingStep

-----------------------------------------------------------------------------
(* The whole pipeline.                                                     *)

PipelineInv ==
    Shape /\ Tree /\ Serial /\ Width /\ OneBranch /\ SpendInv /\ StopInv

\* The root runs alone at first.
LEMMA PipelineInit ==
    ASSUME Init
    PROVE  PipelineInv
<1>1. Shape BY ShapeInit
<1>2. \A q \in Paths : Live(q) => q = root BY DEF Init, Live
<1>3. \A p \in Paths : calls[p] = <<>> BY DEF Init
<1>4. \A p \in Paths : Active(p) = {}
  <2>1. DOMAIN <<>> = {} OBVIOUS
  <2> QED BY <1>3, <2>1 DEF Active
<1>5. Tree
  <2> SUFFICES ASSUME NEW p \in Paths, NEW q \in Paths, Live(q), Above(p, q) PROVE FALSE
    BY DEF Tree
  <2>1. q = root BY <1>2
  <2>2. Len(p) \in Nat /\ Len(q) = 0 BY <2>1, RootPath, PathFacts
  <2> QED BY <2>2 DEF Above
<1>6. Serial BY <1>4 DEF Serial
<1>7. Width
  <2>1. Active(root) = {} BY <1>4, RootPath
  <2>2. Cardinality(Active(root)) = 0 BY <2>1, FS_EmptySet
  <2> QED BY <2>2, PipelineAssumption DEF Width
<1>8. OneBranch BY <1>2 DEF OneBranch
<1>9. Calling = {} BY DEF Init, Calling
<1>10. Cardinality(Calling) = 0 BY <1>9, FS_EmptySet
<1>11. SpendInv
  <2>1. /\ MaxJobCost \in Nat /\ MaxJobCost > 0 /\ ParallelLimit \in Nat
        /\ cost = 0 /\ fresh = 0
    BY PipelineAssumption DEF Init
  <2>2. /\ ParallelLimit * Cost \in Nat /\ Cardinality(Calling) * Cost = 0
        /\ fresh * Cost = 0
    BY <2>1, <1>10, Price
  <2> QED BY <2>1, <2>2 DEF SpendInv
<1>12. StopInv BY DEF Init, StopInv
<1> QED BY <1>1, <1>5, <1>6, <1>7, <1>8, <1>11, <1>12 DEF PipelineInv

\* It keeps to one branch under each call of the root's turn.
LEMMA PipelineStep ==
    ASSUME ParallelMaxDepth = 1, PipelineInv, [Next \/ Done]_vars
    PROVE  PipelineInv'
<1>0. Shape /\ Tree /\ Serial /\ Width /\ OneBranch /\ SpendInv /\ StopInv
  BY DEF PipelineInv
<1>1. ASSUME NEW x \in Paths, AgentStep(x) PROVE PipelineInv'
  <2>1. Shape' BY <1>0, <1>1, ShapeAgent
  <2>2. Tree' BY <1>0, <1>1, TreeStep
  <2>3. Serial' BY <1>0, <1>1, SerialStep
  <2>4. Width' BY <1>0, <1>1, <2>1, WidthStep
  <2>5. OneBranch' BY <1>0, <1>1, BranchStep
  <2>6. SpendInv' /\ StopInv' BY <1>0, <1>1, <2>1, <2>2, <2>4, <2>5, SpendStep
  <2> QED BY <2>1, <2>2, <2>3, <2>4, <2>5, <2>6 DEF PipelineInv
<1>2. CASE Cancel
  <2>1. Shape' BY <1>0, <1>2, ShapeNext DEF Next
  <2>2. UNCHANGED <<cost, fresh, late, pc, calls>> /\ ~cancelled /\ cancelled' = TRUE
    BY <1>2 DEF Cancel
  <2>3. Tree' /\ Serial' /\ Width' /\ OneBranch'
    <3>1. Tree' BY <1>0, <2>2 DEF Tree, Live, Runs, Above
    <3>2. Serial' BY <1>0, <2>2 DEF Serial, FanOut, Active
    <3>3. Width' BY <1>0, <2>2 DEF Width, Active
    <3>4. OneBranch' BY <1>0, <2>2 DEF OneBranch, Live
    <3> QED BY <3>1, <3>2, <3>3, <3>4
  <2>4. Calling' = Calling BY <2>2 DEF Calling
  <2>5. SpendInv' BY <1>0, <2>2, <2>4 DEF SpendInv
  <2>6. StopInv'
    <3>1. Cardinality(Calling) \in Nat /\ Cardinality(Calling) =< ParallelLimit
      BY <1>0, CallingBound
    <3>2. late = 0 BY <1>0, <2>2 DEF StopInv
    <3> QED BY <2>2, <2>4, <3>1, <3>2 DEF StopInv
  <2> QED BY <2>1, <2>3, <2>5, <2>6 DEF PipelineInv
<1>3. CASE UNCHANGED vars
  <2>1. Shape' BY <1>0, <1>3, ShapeNext
  <2>2. UNCHANGED <<cancelled, cost, fresh, late, pc, calls>> BY <1>3 DEF vars, jobVars
  <2>3. Tree' BY <1>0, <2>2 DEF Tree, Live, Runs, Above
  <2>4. Serial' BY <1>0, <2>2 DEF Serial, FanOut, Active
  <2>5. Width' BY <1>0, <2>2 DEF Width, Active
  <2>6. OneBranch' BY <1>0, <2>2 DEF OneBranch, Live
  <2>7. Calling' = Calling BY <2>2 DEF Calling
  <2>8. SpendInv' /\ StopInv' BY <1>0, <2>2, <2>7 DEF SpendInv, StopInv
  <2> QED BY <2>1, <2>3, <2>4, <2>5, <2>6, <2>8 DEF PipelineInv
<1> QED BY <1>1, <1>2, <1>3 DEF Next, Done

\* With turns that fan out at the root only (_PARALLEL_TOOL_MAX_DEPTH = 1, its
\* default): the ceiling and a cancel stop the whole pipeline, in which no more model
\* calls are billed or answered after them than the root's turn may run calls,
\* for every depth, width, number of steps, price, cache content, order in which the
\* agents move, and whatever their other tools bill meanwhile.
THEOREM PipelineStopsOnTime ==
    ASSUME ParallelMaxDepth = 1
    PROVE  Spec => []PipelineStopsInTime
<1>1. Init => PipelineInv BY PipelineInit
<1>2. PipelineInv /\ [Next \/ Done]_vars => PipelineInv' BY PipelineStep
<1>3. PipelineInv => PipelineStopsInTime
  <2> SUFFICES ASSUME PipelineInv PROVE PipelineStopsInTime OBVIOUS
  <2> DEFINE n == Cardinality(Calling)
  <2>1. n \in Nat /\ n =< ParallelLimit BY CallingBound DEF PipelineInv
  <2>2. /\ fresh \in Nat /\ late \in Nat /\ MaxJobCost \in Nat /\ ParallelLimit \in Nat
    BY PipelineAssumption DEF PipelineInv, Shape
  <2>3. n * Cost \in Nat /\ ParallelLimit * Cost \in Nat /\ fresh * Cost \in Nat
    BY <2>1, <2>2, Price
  <2>4. /\ fresh * Cost + n * Cost < MaxJobCost + ParallelLimit * Cost
        /\ cancelled => late + n =< ParallelLimit
        /\ ~cancelled => late = 0
    BY DEF PipelineInv, SpendInv, StopInv
  <2> HIDE DEF n
  <2>5. fresh * Cost < MaxJobCost + ParallelLimit * Cost BY <2>2, <2>3, <2>4
  <2>6. late =< ParallelLimit BY <2>1, <2>2, <2>4
  <2> QED BY <2>5, <2>6 DEF PipelineStopsInTime, PipelineSpendBounded, PipelineStops
<1> QED BY <1>1, <1>2, <1>3, PTL DEF Spec

\* And under the same setting the sessions that a job's tool calls hold stay within
\* what the pool is sized for, however the subagents nest.
THEOREM SessionsAreBounded ==
    ASSUME ParallelMaxDepth = 1
    PROVE  Spec => []PoolFloor
<1>1. Init => PipelineInv BY PipelineInit
<1>2. PipelineInv /\ [Next \/ Done]_vars => PipelineInv' BY PipelineStep
<1>3. PipelineInv => PoolFloor
  <2> SUFFICES ASSUME PipelineInv PROVE PoolFloor OBVIOUS
  <2>0. Shape /\ Tree /\ Width BY DEF PipelineInv
  <2> DEFINE H == {h \in Paths \X (1 .. MaxWidth) : FanOut(h[1]) /\ h[2] \in Active(h[1])}
             f == [h \in H |-> h[2]]
  <2>1. ASSUME NEW h \in H
        PROVE  h = <<root, h[2]>> /\ h[2] \in Active(root)
    <3>1. h[1] \in Paths /\ h = <<h[1], h[2]>> /\ FanOut(h[1]) /\ h[2] \in Active(h[1])
      BY <2>1
    <3>2. Len(h[1]) + 1 =< 1 /\ Len(h[1]) \in Nat BY <3>1, PathFacts DEF FanOut, Depth
    <3>3. ~(Len(h[1]) > 0) BY <3>2
    <3>4. h[1] = root BY <3>1, <3>3, RootPath
    <3> QED BY <3>1, <3>4
  <2>2. f \in [H -> Active(root)] BY <2>1
  <2>3. ASSUME NEW g \in H, NEW h \in H, f[g] = f[h] PROVE g = h
    <3>1. g[2] = h[2] BY <2>3
    <3> QED BY <2>1, <3>1
  <2>4. f \in Injection(H, Active(root)) BY <2>2, <2>3 DEF Injection, IsInjective
  <2>5. IsFiniteSet(Active(root)) /\ Cardinality(Active(root)) \in Nat
    BY <2>0, RootPath, ActiveFinite
  <2> HIDE DEF H, f
  <2>6. IsFiniteSet(H) /\ Cardinality(H) =< Cardinality(Active(root)) /\ Cardinality(H) \in Nat
    BY <2>4, <2>5, FS_Injection, FS_CardinalityType
  <2>7. Cardinality(H) =< ParallelLimit
    BY <2>0, <2>5, <2>6, PipelineAssumption DEF Width
  <2>8. H = {call \in Paths \X (1 .. MaxWidth) :
               FanOut(call[1]) /\ call[2] \in Active(call[1])}
    BY DEF H
  <2> QED BY <2>7, <2>8 DEF PoolFloor
<1> QED BY <1>1, <1>2, <1>3, PTL DEF Spec

-----------------------------------------------------------------------------
(* Workdirs.                                                               *)

\* Each agent's workdir is named after its own id, and removed by it alone.
LEMMA DirsStep ==
    ASSUME Shape, Tree, DirsInv, NEW x \in Paths, AgentStep(x)
    PROVE  DirsInv'
<1>s. DOMAIN pc = Paths /\ DOMAIN sid = Paths /\ DOMAIN workdir = Paths BY DEF Shape
<1>d. /\ \A p \in Paths \ {root} : Live(p) => workdir[p] = sid[p]
      /\ \A p, q \in Paths \ {root} :
             Live(p) /\ Live(q) /\ p # q /\ sid[p] = sid[q] => sid[p] \in collided
      /\ \A d \in DOMAIN dirs \ halfMade :
             \E p \in Paths \ {root} : Live(p) /\ workdir[p] = d
      /\ \A p \in Paths \ {root} : Live(p) /\ sid[p] \notin collided => Owns(p)
  BY DEF DirsInv
<1>l. ASSUME \A q \in Paths : Live(q)' <=> Live(q), UNCHANGED <<sid, workdir, dirs, collided, halfMade>>
      PROVE  DirsInv'
  BY <1>d, <1>l DEF DirsInv, Owns
<1>1. CASE Moves(x)
  <2>1. UNCHANGED <<sid, workdir, dirs, collided, halfMade>> BY <1>1 DEF Moves, agentVars, dirVars
  <2>2. \A q \in Paths : Live(q)' <=> Live(q) BY <1>1, <1>s DEF Moves, Live
  <2> QED BY <1>l, <2>1, <2>2
<1>2. CASE Answers(x)
  <2>1. /\ pc[x] = "call" /\ pc'[x] \in {"ending", "dispatch"}
        /\ \A q \in Paths : q # x => pc'[q] = pc[q]
        /\ UNCHANGED <<sid, workdir, dirs, collided, halfMade>>
    BY <1>2, AnswerSets DEF dirVars
  <2>2. \A q \in Paths : Live(q)' <=> Live(q) BY <2>1 DEF Live
  <2> QED BY <1>l, <2>1, <2>2
<1>3. ASSUME NEW i \in DOMAIN calls[x], ToolStep(x, i), NEW id, id = ToolUseId(x, i)
      PROVE  DirsInv'
  <2>1. UNCHANGED <<sid, workdir, pc>> BY <1>3 DEF ToolStep, agentVars
  <2>2. \A q \in Paths : Live(q)' <=> Live(q) BY <2>1 DEF Live
  <2>3. CASE UNCHANGED dirVars BY <1>l, <2>1, <2>2, <2>3 DEF dirVars
  <2>4. CASE SpawnFails(x, i)
    <3> DEFINE c == Append(x, i)
    <3>1. /\ dirs' = [d \in DOMAIN dirs \cup {id} |-> IF d = id THEN c ELSE dirs[d]]
          /\ collided \subseteq collided' /\ halfMade' = halfMade \cup {id}
          /\ \A q \in Paths : Live(q) /\ sid[q] = id => id \in collided'
      BY <1>3, <2>4, FailsMidway
    <3> HIDE DEF c
    <3>2. /\ \A p \in Paths \ {root} : Live(p)' => workdir'[p] = sid'[p]
          /\ \A p, q \in Paths \ {root} :
                 Live(p)' /\ Live(q)' /\ p # q /\ sid'[p] = sid'[q]
                 => sid'[p] \in collided'
      BY <1>d, <2>1, <2>2, <3>1
    <3>3. ASSUME NEW d \in DOMAIN dirs' \ halfMade'
          PROVE  \E p \in Paths \ {root} : Live(p)' /\ workdir'[p] = d
      BY <1>d, <2>1, <2>2, <3>1
    <3>4. ASSUME NEW p \in Paths \ {root}, Live(p)', sid'[p] \notin collided'
          PROVE  workdir'[p] \in DOMAIN dirs' /\ dirs'[workdir'[p]] = p
      <4>1. Live(p) /\ sid[p] \notin collided /\ sid[p] # id BY <2>1, <2>2, <3>1, <3>4
      <4>2. workdir[p] # id /\ workdir[p] \in DOMAIN dirs /\ dirs[workdir[p]] = p
        BY <1>d, <4>1 DEF Owns
      <4> QED BY <2>1, <3>1, <4>2
    <3> QED BY <3>2, <3>3, <3>4 DEF DirsInv, Owns
  <2> QED BY <1>3, <2>3, <2>4 DEF ToolStep
<1>6. CASE TurnGoesOn(x)
  <2>1. /\ pc[x] = "dispatch" /\ pc' = [pc EXCEPT ![x] = "top"]
        /\ UNCHANGED <<sid, workdir, dirs, collided, halfMade>>
    BY <1>6 DEF TurnGoesOn, agentVars, dirVars
  <2>2. \A q \in Paths : Live(q)' <=> Live(q) BY <1>s, <2>1 DEF Live
  <2> QED BY <1>l, <2>1, <2>2
<1>4. ASSUME NEW i \in DOMAIN calls[x], Spawn(x, i), NEW c, c = Append(x, i),
             NEW id, id = ToolUseId(x, i)
      PROVE  DirsInv'
  <2>1. /\ c \in Paths \ {root} /\ Begins(x, i) /\ Depth(x) < MaxDepth
        /\ pc' = [pc EXCEPT ![c] = "starting"]
        /\ sid' = [sid EXCEPT ![c] = id] /\ workdir' = [workdir EXCEPT ![c] = id]
        /\ dirs' = [d \in DOMAIN dirs \cup {id} |-> IF d = id THEN c ELSE dirs[d]]
        /\ collided' = IF \E q \in Paths : Live(q) /\ sid[q] = id
                       THEN collided \cup {id} ELSE collided
        /\ halfMade' = halfMade
    <3>1. Append(x, i) \in Paths \ {root} /\ Begins(x, i) BY <1>4, SpawnSets
    <3> QED BY <1>4, <3>1 DEF Spawn, MakeDir, SubId
  <2>2. ~Live(c) BY <1>4, <2>1, NotLiveYet
  <2>3. /\ \A q \in Paths : q # c => /\ Live(q)' <=> Live(q)
                                     /\ sid'[q] = sid[q] /\ workdir'[q] = workdir[q]
        /\ Live(c)' /\ sid'[c] = id /\ workdir'[c] = id
    BY <1>s, <2>1 DEF Live
  <2>4. /\ collided \subseteq collided'
        /\ \A q \in Paths : Live(q) /\ sid[q] = id => id \in collided'
    BY <2>1
  <2>5. \A p \in Paths \ {root} : Live(p)' => workdir'[p] = sid'[p]
    BY <1>d, <2>3
  <2>6. ASSUME NEW p \in Paths \ {root}, NEW q \in Paths \ {root},
               Live(p)', Live(q)', p # q, sid'[p] = sid'[q]
        PROVE  sid'[p] \in collided'
    <3>1. CASE p = c BY <2>3, <2>4, <2>6, <3>1
    <3>2. CASE q = c BY <2>3, <2>4, <2>6, <3>2
    <3>3. CASE p # c /\ q # c BY <1>d, <2>3, <2>4, <2>6, <3>3
    <3> QED BY <3>1, <3>2, <3>3
  <2>7. ASSUME NEW d \in DOMAIN dirs' \ halfMade'
        PROVE  \E p \in Paths \ {root} : Live(p)' /\ workdir'[p] = d
    <3>1. CASE d = id BY <2>1, <2>3, <3>1
    <3>2. CASE d # id
      <4>1. d \in DOMAIN dirs \ halfMade BY <2>1, <2>7, <3>2
      <4>2. PICK p \in Paths \ {root} : Live(p) /\ workdir[p] = d BY <1>d, <4>1
      <4> QED BY <2>2, <2>3, <4>2
    <3> QED BY <3>1, <3>2
  <2>8. ASSUME NEW p \in Paths \ {root}, Live(p)', sid'[p] \notin collided'
        PROVE  workdir'[p] \in DOMAIN dirs' /\ dirs'[workdir'[p]] = p
    <3>1. CASE p = c BY <2>1, <2>3, <3>1
    <3>2. CASE p # c
      <4>1. Live(p) /\ sid[p] \notin collided /\ sid[p] # id BY <2>3, <2>4, <2>8, <3>2
      <4>2. workdir[p] # id /\ workdir[p] \in DOMAIN dirs /\ dirs[workdir[p]] = p
        BY <1>d, <4>1 DEF Owns
      <4> QED BY <2>1, <2>3, <3>2, <4>2
    <3> QED BY <3>1, <3>2
  <2> QED BY <2>5, <2>6, <2>7, <2>8 DEF DirsInv, Owns
<1>5. CASE End(x)
  <2>1. /\ pc[x] = "ending" /\ pc' = [pc EXCEPT ![x] = IF x = root THEN "ended" ELSE "none"]
        /\ dirs' = [d \in DOMAIN dirs \ {workdir[x]} |-> dirs[d]]
        /\ sid' = [sid EXCEPT ![x] = NoSid] /\ workdir' = [workdir EXCEPT ![x] = NoSid]
        /\ collided' = collided /\ halfMade' = halfMade
    BY <1>5, EndSets
  <2>2. /\ Live(x) /\ ~Live(x)'
        /\ \A q \in Paths : q # x => /\ Live(q)' <=> Live(q)
                                     /\ sid'[q] = sid[q] /\ workdir'[q] = workdir[q]
    BY <1>s, <2>1 DEF Live
  <2>3. ASSUME NEW q \in Paths \ {root}, Live(q) PROVE x # root
    <3>1. Runs(root, q[Len(root) + 1]) BY <2>3, RootPath, RootAbove DEF Tree
    <3> QED BY <2>1, <3>1 DEF Runs
  <2>4. \A p \in Paths \ {root} : Live(p)' => workdir'[p] = sid'[p] BY <1>d, <2>2
  <2>5. \A p, q \in Paths \ {root} :
            Live(p)' /\ Live(q)' /\ p # q /\ sid'[p] = sid'[q] => sid'[p] \in collided'
    BY <1>d, <2>1, <2>2
  <2>6. ASSUME NEW d \in DOMAIN dirs' \ halfMade'
        PROVE  \E p \in Paths \ {root} : Live(p)' /\ workdir'[p] = d
    <3>1. d \in DOMAIN dirs \ halfMade /\ d # workdir[x] BY <2>1, <2>6
    <3>2. PICK p \in Paths \ {root} : Live(p) /\ workdir[p] = d BY <1>d, <3>1
    <3> QED BY <2>2, <3>1, <3>2
  <2>7. ASSUME NEW p \in Paths \ {root}, Live(p)', sid'[p] \notin collided'
        PROVE  workdir'[p] \in DOMAIN dirs' /\ dirs'[workdir'[p]] = p
    <3>1. p # x /\ Live(p) /\ sid[p] \notin collided /\ workdir'[p] = workdir[p]
      BY <2>1, <2>2, <2>7
    <3>2. workdir[p] \in DOMAIN dirs /\ dirs[workdir[p]] = p BY <1>d, <3>1 DEF Owns
    <3>3. x # root BY <2>3, <3>1
    <3>4. workdir[p] # workdir[x] BY <1>d, <2>2, <3>1, <3>3
    <3> QED BY <2>1, <3>1, <3>2, <3>4
  <2> QED BY <2>4, <2>5, <2>6, <2>7 DEF DirsInv, Owns
<1>7. CASE \E i \in DOMAIN calls[x] : ToolStep(x, i) \/ Spawn(x, i)
  BY <1>3, <1>4, <1>7
<1> QED BY <1>1, <1>2, <1>5, <1>6, <1>7, StepKinds

\* At every depth and however turns fan out: a subagent whose tool_use id no other
\* live one has keeps its own workdir until it ends, and a job that has ended
\* leaves none behind but one whose making failed, whatever is replayed from the cache and however agents fail.
THEOREM WorkdirsAreOwn == Spec => []OwnWorkdir
<1> DEFINE Inv == Shape /\ Tree /\ DirsInv
<1>1. Init => Inv
  <2> SUFFICES ASSUME Init PROVE Inv OBVIOUS
  <2>1. Shape /\ Tree BY PipelineInit DEF PipelineInv
  <2>2. \A q \in Paths \ {root} : ~Live(q) BY DEF Init, Live
  <2>3. DOMAIN dirs = {} BY DEF Init
  <2> QED BY <2>1, <2>2, <2>3 DEF DirsInv
<1>2. Inv /\ [Next \/ Done]_vars => Inv'
  <2> SUFFICES ASSUME Inv, [Next \/ Done]_vars PROVE Inv' OBVIOUS
  <2>1. Shape' BY ShapeNext
  <2>2. ASSUME NEW x \in Paths, AgentStep(x) PROVE Tree' /\ DirsInv'
    BY <2>2, TreeStep, DirsStep
  <2>3. ASSUME UNCHANGED <<pc, sid, workdir, calls, dirs, collided, halfMade>> PROVE Tree' /\ DirsInv'
    <3>1. Tree' BY <2>3 DEF Tree, Live, Runs, Above
    <3>2. DirsInv' BY <2>3 DEF DirsInv, Live, Owns
    <3> QED BY <3>1, <3>2
  <2>4. CASE Cancel
    <3>1. UNCHANGED <<pc, sid, workdir, calls, dirs, collided, halfMade>>
      BY <2>4 DEF Cancel, agentVars, dirVars
    <3> QED BY <2>1, <2>3, <3>1
  <2>5. CASE UNCHANGED vars
    <3>1. UNCHANGED <<pc, sid, workdir, calls, dirs, collided, halfMade>>
      BY <2>5 DEF vars, agentVars, dirVars
    <3> QED BY <2>1, <2>3, <3>1
  <2> QED BY <2>1, <2>2, <2>4, <2>5 DEF Next, Done
<1>3. Inv => OwnWorkdir
  <2> SUFFICES ASSUME Inv PROVE OwnWorkdir OBVIOUS
  <2>1. ASSUME pc[root] = "ended", NEW d \in DOMAIN dirs \ halfMade PROVE FALSE
    <3>1. PICK p \in Paths \ {root} : Live(p) /\ workdir[p] = d BY DEF DirsInv
    <3>2. Runs(root, p[Len(root) + 1]) BY <3>1, RootPath, RootAbove DEF Tree
    <3> QED BY <2>1, <3>2 DEF Runs
  <2> QED BY <2>1 DEF DirsInv, OwnWorkdir, NoLeftovers
<1> QED BY <1>1, <1>2, <1>3, PTL DEF Spec

=============================================================================
