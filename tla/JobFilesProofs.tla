---------------------------- MODULE JobFilesProofs ----------------------------
(***************************************************************************)
(* For every number of runs, machines, files and faults: no two runs of    *)
(* one machine ever hold one folder (OwnFolder).                           *)
(*                                                                         *)
(* A run that holds a folder has made it, so a later test sees it; and the *)
(* test always finds a free one, since fewer runs than there are names to  *)
(* try have made any.                                                      *)
(*                                                                         *)
(* And for every finite number of runs: a run that works has its uploaded  *)
(* inputs on its disk, with something in them, unless its preflight could  *)
(* not pull one or another run of the machine has touched it               *)
(* (InputsThere).  A file leaves its place only when a run files it, and   *)
(* that run has it in its deliverable: InputsInv follows the inputs from   *)
(* the preflight on, and the values of a result until they are filed.      *)
(*                                                                         *)
(* And what a run hands over is served as it was (EveryOutputServed).      *)
(* Follows says, from the moment a skill records its output, where the     *)
(* content of each value is: on the disk at its source until it is filed,  *)
(* on the disk at its place until it is pushed, in the bucket from then    *)
(* on.  It holds of one run through the steps of all of them because of    *)
(* what World says they share: a file nobody has written has one content   *)
(* wherever it is, and a machine that alone handles a file has pushed what *)
(* it remembers pushing.  A step changes, of what another run follows,     *)
(* only files that EveryOutputServed excuses (OthersFollow), and a place   *)
(* is taken only when it is free (DestIsFree).                             *)
(***************************************************************************)
EXTENDS JobFiles, FiniteSetTheorems, WellFoundedInduction, TLAPS

IsRun(x) ==
    x = [pc |-> x.pc, out |-> x.out, wrote |-> x.wrote,
         count |-> x.count, deliverable |-> x.deliverable, meant |-> x.meant,
         result |-> x.result, i |-> x.i, moved |-> x.moved, used |-> x.used,
         dst |-> x.dst, failed |-> x.failed, manifest |-> x.manifest]

Early == {"inputs", "preflight", "reserve"}
Looked == {q \in Runs : run[q].pc \notin Early}

Shapes ==
    /\ run \in [Runs -> {run[r] : r \in Runs}] /\ \A r \in Runs : IsRun(run[r])
    /\ folders \in [Machines -> SUBSET {run[q].out : q \in Looked}]

\* A run past the reservation of its folder holds one that exists.
FolderOf(r) ==
    /\ run[r].pc \in Early => run[r].out = None
    /\ run[r].out # None => run[r].out \in folders[Machine[r]]

FoldersInv == Shapes /\ (\A r \in Runs : FolderOf(r)) /\ OwnFolder

\* A set of naturals that is not empty has a least element.
LEMMA Least ==
    ASSUME NEW S \in SUBSET Nat, S # {}
    PROVE  \E k \in S : \A j \in S : ~ (j < k)
<1> DEFINE Segments == {0 .. k : k \in S}
<1>1. Segments \subseteq FiniteSubsetsOf(Nat) /\ Segments # {}
  <2>1. ASSUME NEW k \in S PROVE 0 .. k \in FiniteSubsetsOf(Nat)
    <3>1. k \in Nat OBVIOUS
    <3>2. IsFiniteSet(0 .. k) BY <3>1, FS_Interval
    <3> QED BY <3>1, <3>2 DEF FiniteSubsetsOf
  <2> QED BY <2>1
<1>2. PICK x \in Segments :
          \A y \in Segments : <<y, x>> \notin StrictSubsetOrdering(Nat)
  <2> HIDE DEF Segments
  <2> QED BY <1>1, FS_StrictSubsetOrderingWellFounded, WFMin
<1>3. PICK k \in S : x = 0 .. k BY <1>2
<1>4. ASSUME NEW j \in S, j < k PROVE FALSE
  <2>1. 0 .. j \in Segments OBVIOUS
  <2>2. 0 .. j \subseteq 0 .. k /\ k \notin 0 .. j /\ k \in 0 .. k BY <1>4
  <2>3. ASSUME NEW A \in SUBSET Nat, NEW B \in SUBSET Nat, NEW e \in B,
               A \subseteq B, e \notin A
        PROVE  <<A, B>> \in StrictSubsetOrdering(Nat)
    BY <2>3 DEF StrictSubsetOrdering
  <2>4. 0 .. j \in SUBSET Nat /\ 0 .. k \in SUBSET Nat BY <1>4
  <2>5. <<0 .. j, 0 .. k>> \in StrictSubsetOrdering(Nat) BY <2>2, <2>3, <2>4
  <2> QED BY <1>2, <1>3, <2>1, <2>5
<1> QED BY <1>4

\* The test of a run that looks for a folder finds one that is free.
LEMMA FreeIsFree ==
    ASSUME FoldersInv, NEW r \in Runs, run[r].pc = "reserve", IsFiniteSet(Runs)
    PROVE  /\ <<Base[r], Free(Machine[r], Base[r])>> \notin folders[Machine[r]]
           /\ Free(Machine[r], Base[r]) \in 0 .. Cardinality(Runs)
<1> DEFINE m == Machine[r]
           N == Cardinality(Runs)
           Name(k) == <<Base[r], k>>
           Unused == {k \in 0 .. N : Name(k) \notin folders[m]}
<1>0. m \in Machines BY DEF Machines
<1>1. N \in Nat /\ IsFiniteSet(Looked) /\ Cardinality(Looked) \in Nat
      /\ Cardinality(Looked) =< N
  BY FS_Subset, FS_CardinalityType DEF Looked
<1>2. IsFiniteSet(0 .. N) /\ Cardinality(0 .. N) = N + 1 BY <1>1, FS_Interval
<1>3. Unused # {}
  <2> SUFFICES ASSUME Unused = {} PROVE FALSE OBVIOUS
  <2>1. \A k \in 0 .. N : \E q \in Looked : run[q].out = Name(k)
    BY <1>0 DEF FoldersInv, Shapes
  <2> DEFINE f == [k \in 0 .. N |-> CHOOSE q \in Looked : run[q].out = Name(k)]
  <2>2. f \in [0 .. N -> Looked] /\ \A k \in 0 .. N : run[f[k]].out = Name(k)
    BY <2>1
  <2>3. PICK j, k \in 0 .. N : j # k /\ f[j] = f[k]
    <3> HIDE DEF f
    <3> QED BY SMTT(30), <1>1, <1>2, <2>2, FS_PigeonHole
  <2>4. Name(j) = Name(k)
    <3> HIDE DEF f, Name
    <3> QED BY <2>2, <2>3
  <2> QED BY <2>3, <2>4
<1>4. PICK k \in Unused : \A j \in Unused : ~ (j < k)
  <2>1. Unused \in SUBSET Nat BY <1>1
  <2> QED BY <1>3, <2>1, Least
<1>5. /\ k \in 0 .. N /\ Name(k) \notin folders[m]
      /\ \A j \in 0 .. (k - 1) : Name(j) \in folders[m]
  BY <1>1, <1>4
<1> QED BY <1>5 DEF Free

\* A step that makes no folder and looks for none.
LEMMA Quiet ==
    ASSUME FoldersInv, NEW r \in Runs, run' = [run EXCEPT ![r] = run'[r]],
           IsRun(run'[r]), UNCHANGED folders,
           run'[r].out = run[r].out,
           run'[r].pc \in Early => run[r].pc \in Early
    PROVE  FoldersInv'
<1>1. \A q \in Runs \ {r} : run'[q] = run[q]
  BY DEF FoldersInv, Shapes
<1>2. Shapes'
  <2>1. run' \in [Runs -> {run[q] : q \in Runs}'] /\ \A q \in Runs : IsRun(run[q])'
    BY <1>1 DEF FoldersInv, Shapes, IsRun
  <2>2. {run[q].out : q \in Looked} \subseteq {run[q].out : q \in Looked}'
    BY <1>1 DEF Looked
  <2> QED BY <2>1, <2>2 DEF FoldersInv, Shapes
<1>3. \A q \in Runs : FolderOf(q)'
  BY <1>1 DEF FoldersInv, FolderOf
<1>4. OwnFolder' BY <1>1 DEF FoldersInv, OwnFolder
<1> QED BY <1>2, <1>3, <1>4 DEF FoldersInv

\* A tool that writes a file makes no folder.
LEMMA QuietWrite ==
    ASSUME FoldersInv, NEW r \in Runs, NEW p, NEW files, run[r].pc = "work",
           Wrote(r, p, files), UNCHANGED folders
    PROVE  FoldersInv'
<1> DEFINE w == run[r].wrote \cup {p}
           n == run[r].count + 1
<1>1. IsRun(run[r]) /\ DOMAIN run = Runs BY DEF FoldersInv, Shapes
<1>2. run' = [run EXCEPT ![r].wrote = w, ![r].count = n] BY DEF Wrote
<1> HIDE DEF w, n
<1>3. run' = [run EXCEPT ![r] = [run[r] EXCEPT !.wrote = w, !.count = n]]
  BY <1>1, <1>2
<1>4. run'[r] = [run[r] EXCEPT !.wrote = w, !.count = n] BY <1>1, <1>3
<1>5. run' = [run EXCEPT ![r] = run'[r]] BY <1>3, <1>4
<1>6. IsRun(run'[r]) /\ run'[r].pc = run[r].pc /\ run'[r].out = run[r].out
  BY <1>1, <1>4 DEF IsRun
<1> QED BY <1>5, <1>6, Quiet DEF Early

\* No run has looked for a folder yet.
LEMMA InitFolders == Init => FoldersInv
<1> SUFFICES ASSUME Init PROVE FoldersInv OBVIOUS
<1>1. \A r \in Runs : IsRun(run[r]) /\ run[r].pc = "inputs" /\ run[r].out = None
  BY DEF Init, IsRun
<1>2. Shapes BY <1>1 DEF Init, Shapes
<1>3. \A r \in Runs : FolderOf(r) BY <1>1 DEF FolderOf
<1>4. OwnFolder BY <1>1 DEF OwnFolder
<1> QED BY <1>2, <1>3, <1>4 DEF FoldersInv

\* One action per step.
LEMMA StepFolders ==
    ASSUME IsFiniteSet(Runs), FoldersInv, [Next]_vars
    PROVE  FoldersInv'
<1>0. ASSUME NEW r \in Runs
      PROVE  /\ IsRun(run[r]) /\ FolderOf(r) /\ Machine[r] \in Machines
             /\ DOMAIN run = Runs
  BY DEF FoldersInv, Shapes, Machines
<1>1. CASE UNCHANGED vars
  <2>1. UNCHANGED <<folders, run>> BY <1>1 DEF vars
  <2>2. Shapes' BY <2>1 DEF FoldersInv, Shapes, IsRun, Looked
  <2>3. \A q \in Runs : FolderOf(q)' BY <2>1 DEF FoldersInv, FolderOf
  <2>4. OwnFolder' BY <2>1 DEF FoldersInv, OwnFolder
  <2> QED BY <2>2, <2>3, <2>4 DEF FoldersInv
<1>2. ASSUME NEW r \in Runs, EnsureInputs(r) PROVE FoldersInv'
  <2>1. run' = [run EXCEPT ![r].pc = "preflight"] /\ run[r].pc = "inputs"
        /\ UNCHANGED folders
    BY <1>2 DEF EnsureInputs
  <2>2. run'[r] = [run[r] EXCEPT !.pc = "preflight"] BY <1>0, <2>1
  <2>3. IsRun(run'[r]) BY <1>0, <2>2 DEF IsRun
  <2>4. run'[r].pc = "preflight" /\ run'[r].out = run[r].out BY <1>0, <2>2 DEF IsRun
  <2> QED BY <2>1, <2>2, <2>3, <2>4, Quiet DEF Early
<1>3. ASSUME NEW r \in Runs, Preflight(r) PROVE FoldersInv'
  <2>0. PICK lost, place : /\ run' = [run EXCEPT ![r].failed = lost, ![r].pc = place]
                           /\ place \in {"failed", "reserve"}
    BY <1>3 DEF Preflight
  <2>1. run' = [run EXCEPT ![r] = [run[r] EXCEPT !.failed = lost, !.pc = place]]
    BY <1>0, <2>0
  <2>2. run'[r] = [run[r] EXCEPT !.failed = lost, !.pc = place] BY <1>0, <2>1
  <2>3. IsRun(run'[r]) BY <1>0, <2>2 DEF IsRun
  <2>4. run'[r].pc = place /\ run'[r].out = run[r].out BY <1>0, <2>2 DEF IsRun
  <2> QED BY <1>3, <2>0, <2>1, <2>2, <2>3, <2>4, Quiet DEF Preflight, Early
<1>4. ASSUME NEW r \in Runs, Stage(r) PROVE FoldersInv'
  <2>0. PICK place \in {"failed", "work"} : run' = [run EXCEPT ![r].pc = place]
    BY <1>4 DEF Stage
  <2>2. run'[r] = [run[r] EXCEPT !.pc = place] BY <1>0, <2>0
  <2>3. IsRun(run'[r]) BY <1>0, <2>2 DEF IsRun
  <2>4. run'[r].pc = place /\ run'[r].out = run[r].out BY <1>0, <2>2 DEF IsRun
  <2> QED BY <1>4, <2>0, <2>2, <2>3, <2>4, Quiet DEF Stage, Early
<1>5. ASSUME NEW r \in Runs, WriteFile(r) PROVE FoldersInv'
  <2>1. PICK p, files : Wrote(r, p, files) BY <1>5 DEF WriteFile
  <2> QED BY <1>5, <2>1, QuietWrite DEF WriteFile
<1>6. ASSUME NEW r \in Runs, RunCode(r) PROVE FoldersInv'
  <2>1. PICK p, files : Wrote(r, p, files) BY <1>6 DEF RunCode
  <2> QED BY <1>6, <2>1, QuietWrite DEF RunCode
<1>7. ASSUME NEW r \in Runs, Generate(r) PROVE FoldersInv'
  <2>1. PICK p, files : Wrote(r, p, files) BY <1>7 DEF Generate
  <2> QED BY <1>7, <2>1, QuietWrite DEF Generate
<1>8. ASSUME NEW r \in Runs, EditFile(r) PROVE FoldersInv'
  <2>1. PICK p, files : Wrote(r, p, files) BY <1>8 DEF EditFile
  <2> QED BY <1>8, <2>1, QuietWrite DEF EditFile
<1>9. ASSUME NEW r \in Runs, SetOutput(r) PROVE FoldersInv'
  <2>0. PICK d \in Deliverables(r) :
            run' = [run EXCEPT ![r].pc = "aim", ![r].deliverable = d, ![r].result = d,
                               ![r].meant = [j \in DOMAIN d |-> Holds(r, d[j].path)]]
    BY <1>9 DEF SetOutput
  <2>1. run' = [run EXCEPT ![r] = [run[r] EXCEPT !.pc = "aim", !.deliverable = d, !.result = d,
                              !.meant = [j \in DOMAIN d |-> Holds(r, d[j].path)]]]
    BY <1>0, <2>0
  <2>2. run'[r] = [run[r] EXCEPT !.pc = "aim", !.deliverable = d, !.result = d,
                              !.meant = [j \in DOMAIN d |-> Holds(r, d[j].path)]] BY <1>0, <2>1
  <2>3. IsRun(run'[r]) BY <1>0, <2>2 DEF IsRun
  <2>4. run'[r].pc = "aim" /\ run'[r].out = run[r].out BY <1>0, <2>2 DEF IsRun
  <2> QED BY <1>9, <2>1, <2>2, <2>3, <2>4, Quiet DEF SetOutput, Early
<1>10. ASSUME NEW r \in Runs, Aim(r) PROVE FoldersInv'
  <2> DEFINE passed == [run EXCEPT ![r].i = @ + 1]
  <2>1. /\ passed = [run EXCEPT ![r] = passed[r]] /\ IsRun(passed[r])
        /\ passed[r].pc = run[r].pc /\ passed[r].out = run[r].out
    <3>1. passed[r] = [run[r] EXCEPT !.i = @ + 1] BY <1>0
    <3>2. passed = [run EXCEPT ![r] = passed[r]] BY <1>0, <3>1
    <3> HIDE DEF passed
    <3> QED BY <1>0, <3>1, <3>2 DEF IsRun
  <2>2. ASSUME NEW res, run' = [passed EXCEPT ![r].result = res]
        PROVE  /\ run' = [run EXCEPT ![r] = run'[r]] /\ IsRun(run'[r])
               /\ run'[r].pc = run[r].pc /\ run'[r].out = run[r].out
    <3> HIDE DEF passed
    <3>1. DOMAIN passed = Runs BY <1>0, <2>1
    <3>2. run'[r] = [passed[r] EXCEPT !.result = res] BY <2>2, <3>1
    <3>3. run' = [run EXCEPT ![r] = run'[r]] BY <1>0, <2>1, <2>2
    <3> QED BY <2>1, <3>2, <3>3 DEF IsRun
  <2>3. ASSUME NEW us, NEW dst,
               run' = [run EXCEPT ![r].used = us, ![r].dst = dst, ![r].pc = "move"]
        PROVE  /\ run' = [run EXCEPT ![r] = run'[r]] /\ IsRun(run'[r])
               /\ run'[r].pc = "move" /\ run'[r].out = run[r].out
    <3>1. run' = [run EXCEPT ![r] = [run[r] EXCEPT !.used = us, !.dst = dst, !.pc = "move"]]
      BY <1>0, <2>3
    <3>2. run'[r] = [run[r] EXCEPT !.used = us, !.dst = dst, !.pc = "move"] BY <1>0, <3>1
    <3>3. run' = [run EXCEPT ![r] = run'[r]] BY <3>1, <3>2
    <3> QED BY <1>0, <3>2, <3>3 DEF IsRun
  <2>4. \/ run' = passed
        \/ \E res : run' = [passed EXCEPT ![r].result = res]
        \/ \E us, dst : run' = [run EXCEPT ![r].used = us, ![r].dst = dst, ![r].pc = "move"]
    <3>1. CASE Known(r, ValueAt(r))
      <4> DEFINE res == [passed[r].result EXCEPT ![run[r].i].path = run[r].moved[ValueAt(r).path]]
      <4>1. run' = [passed EXCEPT ![r].result[run[r].i].path = run[r].moved[ValueAt(r).path]]
        BY <1>10, <3>1 DEF Aim
      <4>2. run' = [passed EXCEPT ![r].result = res] BY <1>0, <2>1, <4>1
      <4> QED BY <4>2
    <3>2. CASE ~Known(r, ValueAt(r)) BY <1>10, <3>2 DEF Aim
    <3> QED BY <3>1, <3>2
  <2>5. /\ run' = [run EXCEPT ![r] = run'[r]] /\ IsRun(run'[r])
        /\ run'[r].pc \in {run[r].pc, "move"} /\ run'[r].out = run[r].out
    <3>1. CASE run' = passed
      <4> HIDE DEF passed
      <4> QED BY <2>1, <3>1
    <3>2. CASE \E res : run' = [passed EXCEPT ![r].result = res]
      <4> HIDE DEF passed
      <4> QED BY <2>2, <3>2
    <3>3. CASE \E us, dst : run' = [run EXCEPT ![r].used = us, ![r].dst = dst,
                                              ![r].pc = "move"]
      <4>1. PICK us, dst : run' = [run EXCEPT ![r].used = us, ![r].dst = dst,
                                              ![r].pc = "move"]
        BY <3>3
      <4> HIDE DEF passed
      <4>2. run' = [run EXCEPT ![r] = run'[r]] /\ IsRun(run'[r])
            /\ run'[r].pc = "move" /\ run'[r].out = run[r].out
        BY <2>3, <4>1
      <4> QED BY <4>2
    <3> HIDE DEF passed
    <3> QED BY <2>4, <3>1, <3>2, <3>3
  <2> QED BY <1>10, <2>5, Quiet DEF Aim, Early
<1>11. ASSUME NEW r \in Runs, Move(r) PROVE FoldersInv'
  <2> DEFINE next == [run EXCEPT ![r].pc = "aim", ![r].i = @ + 1, ![r].dst = None]
  <2>1. /\ next = [run EXCEPT ![r] = next[r]] /\ IsRun(next[r])
        /\ next[r].pc = "aim" /\ next[r].out = run[r].out
    <3>1. next = [run EXCEPT ![r] = [run[r] EXCEPT !.pc = "aim", !.i = @ + 1, !.dst = None]]
      BY <1>0
    <3>2. next[r] = [run[r] EXCEPT !.pc = "aim", !.i = @ + 1, !.dst = None] BY <1>0, <3>1
    <3>3. next = [run EXCEPT ![r] = next[r]] BY <3>1, <3>2
    <3> HIDE DEF next
    <3> QED BY <1>0, <3>2, <3>3 DEF IsRun
  <2>2. ASSUME NEW lost, run' = [next EXCEPT ![r].failed = lost]
        PROVE  /\ run' = [run EXCEPT ![r] = run'[r]] /\ IsRun(run'[r])
               /\ run'[r].pc = "aim" /\ run'[r].out = run[r].out
    <3> HIDE DEF next
    <3>1. DOMAIN next = Runs BY <1>0, <2>1
    <3>2. run'[r] = [next[r] EXCEPT !.failed = lost] BY <2>2, <3>1
    <3>3. run' = [run EXCEPT ![r] = run'[r]] BY <1>0, <2>1, <2>2
    <3> QED BY <2>1, <3>2, <3>3 DEF IsRun
  <2>3. ASSUME NEW mv, NEW res, run' = [next EXCEPT ![r] = [@ EXCEPT !.moved = mv, !.result = res]]
        PROVE  /\ run' = [run EXCEPT ![r] = run'[r]] /\ IsRun(run'[r])
               /\ run'[r].pc = "aim" /\ run'[r].out = run[r].out
    <3> HIDE DEF next
    <3>1. DOMAIN next = Runs BY <1>0, <2>1
    <3>2. run'[r] = [next[r] EXCEPT !.moved = mv, !.result = res] BY <2>3, <3>1
    <3>3. run' = [run EXCEPT ![r] = run'[r]] BY <1>0, <2>1, <2>3
    <3> QED BY <2>1, <3>2, <3>3 DEF IsRun
  <2>4. \/ run' = next
        \/ \E lost : run' = [next EXCEPT ![r].failed = lost]
        \/ \E mv, res : run' = [next EXCEPT ![r] = [@ EXCEPT !.moved = mv, !.result = res]]
    <3> DEFINE mv == Put(next[r].moved, ValueAt(r).path, run[r].dst)
               res == [next[r].result EXCEPT ![run[r].i].path = run[r].dst]
               far == [next EXCEPT ![r].moved = Put(@, ValueAt(r).path, run[r].dst),
                                   ![r].result[run[r].i].path = run[r].dst]
    <3>1. \/ run' = next
          \/ run' = [next EXCEPT ![r].failed = @ \cup {ValueAt(r).path}]
          \/ run' = far
      BY <1>11 DEF Move
    <3>2. far = [next EXCEPT ![r] = [@ EXCEPT !.moved = mv, !.result = res]]
      <4> HIDE DEF next
      <4> QED BY <1>0, <2>1 DEF IsRun
    <3>3. [next EXCEPT ![r].failed = @ \cup {ValueAt(r).path}]
              = [next EXCEPT ![r].failed = next[r].failed \cup {ValueAt(r).path}]
      <4> HIDE DEF next
      <4> QED BY <1>0, <2>1 DEF IsRun
    <3> HIDE DEF next, far, mv, res
    <3> QED BY <3>1, <3>2, <3>3
  <2>5. /\ run' = [run EXCEPT ![r] = run'[r]] /\ IsRun(run'[r])
        /\ run'[r].pc = "aim" /\ run'[r].out = run[r].out
    <3> HIDE DEF next
    <3> QED BY <2>1, <2>2, <2>3, <2>4
  <2> QED BY <1>11, <2>5, Quiet DEF Move, Early
<1>12. ASSUME NEW r \in Runs, StartSync(r) PROVE FoldersInv'
  <2>1. run' = [run EXCEPT ![r] = [run[r] EXCEPT !.pc = "sync", !.i = 1]]
    BY <1>0, <1>12 DEF StartSync
  <2>2. run'[r] = [run[r] EXCEPT !.pc = "sync", !.i = 1] BY <1>0, <2>1
  <2>3. IsRun(run'[r]) BY <1>0, <2>2 DEF IsRun
  <2>4. run'[r].pc = "sync" /\ run'[r].out = run[r].out BY <1>0, <2>2 DEF IsRun
  <2> QED BY <1>12, <2>1, <2>2, <2>3, <2>4, Quiet DEF StartSync, Early
<1>13. ASSUME NEW r \in Runs, SyncOne(r) PROVE FoldersInv'
  <2>0. PICK lost : run' = [run EXCEPT ![r].i = @ + 1, ![r].failed = lost]
    BY <1>13 DEF SyncOne
  <2>1. run' = [run EXCEPT ![r] = [run[r] EXCEPT !.i = @ + 1, !.failed = lost]]
    BY <1>0, <2>0
  <2>2. run'[r] = [run[r] EXCEPT !.i = @ + 1, !.failed = lost] BY <1>0, <2>1
  <2>3. IsRun(run'[r]) BY <1>0, <2>2 DEF IsRun
  <2>4. run'[r].pc = run[r].pc /\ run'[r].out = run[r].out BY <1>0, <2>2 DEF IsRun
  <2> QED BY <1>13, <2>1, <2>2, <2>3, <2>4, Quiet DEF SyncOne, Early
<1>14. ASSUME NEW r \in Runs, List(r) PROVE FoldersInv'
  <2>0. PICK shown, lost :
            run' = [run EXCEPT ![r].pc = "done", ![r].i = 1, ![r].moved = <<>>,
                               ![r].used = {}, ![r].manifest = shown, ![r].failed = lost]
    BY <1>14 DEF List
  <2>1. run' = [run EXCEPT ![r] = [run[r] EXCEPT !.pc = "done", !.i = 1, !.moved = <<>>,
                               !.used = {}, !.manifest = shown, !.failed = lost]]
    BY <1>0, <2>0
  <2>2. run'[r] = [run[r] EXCEPT !.pc = "done", !.i = 1, !.moved = <<>>,
                               !.used = {}, !.manifest = shown, !.failed = lost] BY <1>0, <2>1
  <2>3. IsRun(run'[r]) BY <1>0, <2>2 DEF IsRun
  <2>4. run'[r].pc = "done" /\ run'[r].out = run[r].out BY <1>0, <2>2 DEF IsRun
  <2> QED BY <1>14, <2>1, <2>2, <2>3, <2>4, Quiet DEF List, Early
<1>15. ASSUME NEW r \in Runs, HandOver(r) PROVE FoldersInv'
  BY <1>15 DEF HandOver, FoldersInv, Shapes, FolderOf, OwnFolder, IsRun, Looked
<1>16. ASSUME NEW r \in Runs, Reserve(r) PROVE FoldersInv'
  <2> DEFINE dir == <<Base[r], Free(Machine[r], Base[r])>>
  <2>1. run[r].pc = "reserve" BY <1>16 DEF Reserve
  <2>2. dir \notin folders[Machine[r]] /\ dir # None
    <3>1. dir \in RunFolders BY <2>1, FreeIsFree DEF RunFolders
    <3> QED BY <2>1, <3>1, FreeIsFree, PathConstants
  <2>3. PICK place \in {"stage", "work"} :
            /\ run' = [run EXCEPT ![r] = [run[r] EXCEPT !.out = dir, !.pc = place]]
            /\ folders' = [folders EXCEPT ![Machine[r]] = @ \cup {dir}]
    BY <1>0, <1>16 DEF Reserve
  <2> HIDE DEF dir
  <2>4. run'[r] = [run[r] EXCEPT !.out = dir, !.pc = place]
        /\ \A q \in Runs \ {r} : run'[q] = run[q]
    BY <1>0, <2>3
  <2>5. IsRun(run'[r]) /\ run'[r].pc = place /\ run'[r].out = dir
    BY <1>0, <2>4 DEF IsRun
  <2>6. /\ \A q \in Runs : folders[Machine[q]] \subseteq folders'[Machine[q]]
        /\ dir \in folders'[Machine[r]]
    BY <1>0, <2>3 DEF FoldersInv, Shapes
  <2>7. Shapes'
    <3>1. run' \in [Runs -> {run[q] : q \in Runs}'] /\ \A q \in Runs : IsRun(run[q])'
      BY ZenonT(40), <2>3, <2>4, <2>5 DEF FoldersInv, Shapes, IsRun
    <3>2. /\ {run[q].out : q \in Looked} \subseteq {run[q].out : q \in Looked}'
          /\ dir \in {run[q].out : q \in Looked}'
      <4>1. Looked' = Looked \cup {r} /\ r \notin Looked
        BY <2>1, <2>4, <2>5 DEF Looked, Early
      <4>2. \A q \in Looked : run'[q].out = run[q].out BY <2>4, <4>1 DEF Looked
      <4>3. r \in Looked' /\ run'[r].out = dir BY <2>5, <4>1
      <4>4. \A q \in Looked : q \in Looked' BY <4>1
      <4> HIDE DEF Looked
      <4>5. dir \in {run[q].out : q \in Looked}' BY <4>3
      <4>6. ASSUME NEW q \in Looked PROVE run[q].out \in {run[x].out : x \in Looked}'
        BY <4>2, <4>4
      <4> QED BY <4>5, <4>6
    <3> DEFINE Made == {run[q].out : q \in Looked}
    <3>3. folders \in [Machines -> SUBSET Made] BY DEF FoldersInv, Shapes
    <3>4. Made \subseteq Made' /\ dir \in Made' BY <3>2
    <3>5. folders' \in [Machines -> SUBSET Made']
      <4> HIDE DEF Made
      <4> QED BY <1>0, <2>3, <3>3, <3>4
    <3> HIDE DEF Made
    <3>6. folders' \in [Machines -> SUBSET {run[q].out : q \in Looked}'] BY <3>5 DEF Made
    <3> QED BY Zenon, <3>1, <3>6 DEF Shapes
  <2>8. \A q \in Runs : FolderOf(q)'
    BY <2>4, <2>5, <2>6 DEF FoldersInv, FolderOf, Early
  <2>9. OwnFolder'
    <3>1. ASSUME NEW q \in Runs \ {r}, Machine[q] = Machine[r] PROVE run'[q].out # dir
      BY <2>2, <2>4, <3>1 DEF FoldersInv, FolderOf
    <3>2. run'[r].out = dir BY <2>5
    <3>3. ASSUME NEW p \in Runs, NEW q \in Runs, p # q, Machine[p] = Machine[q],
                 run'[p].out # None
          PROVE  run'[p].out # run'[q].out
      <4>1. CASE p = r BY <3>1, <3>2, <3>3, <4>1
      <4>2. CASE q = r BY <3>1, <3>2, <3>3, <4>2
      <4>3. CASE p # r /\ q # r BY <2>4, <3>3, <4>3 DEF FoldersInv, OwnFolder
      <4> QED BY <4>1, <4>2, <4>3
    <3> QED BY <3>3 DEF OwnFolder
  <2> QED BY <2>7, <2>8, <2>9 DEF FoldersInv
<1> QED
  BY <1>1, <1>2, <1>3, <1>4, <1>5, <1>6, <1>7, <1>8, <1>9, <1>10, <1>11, <1>12,
     <1>13, <1>14, <1>15, <1>16 DEF Next

\* No two runs of a machine ever hold one folder: no later run and no retry files
\* into the folder of an earlier one (resolve_output_dir).
THEOREM FoldersAreOwn ==
    ASSUME IsFiniteSet(Runs)
    PROVE  Spec => []OwnFolder
<1>1. FoldersInv => OwnFolder BY DEF FoldersInv
<1> QED BY InitFolders, StepFolders, <1>1, PTL DEF Spec

-----------------------------------------------------------------------------
(* The inputs of a run.                                                    *)

Starting == {"inputs", "preflight", "reserve", "stage", "work", "failed"}
Filing == {"aim", "move"}
Checked == {"reserve", "stage", "work"}    \* the preflight is over

IsValue(v) == v = [path |-> v.path, form |-> v.form]

\* A result is the deliverable, as far as its values have not been filed yet.
ResultOf(q) ==
    /\ run[q].i \in Nat \ {0}
    /\ \A v \in ToSet(run[q].result) : IsValue(v)
    /\ run[q].pc \in Starting => run[q].deliverable = <<>> /\ run[q].result = <<>>
    /\ run[q].pc \in Filing =>
          /\ run[q].result \in Seq(ToSet(run[q].result))
          /\ run[q].pc = "move" => run[q].i =< Len(run[q].result)
          /\ \A j \in DOMAIN run[q].result :
                j >= run[q].i => /\ j \in DOMAIN run[q].deliverable
                                 /\ run[q].deliverable[j] = run[q].result[j]

TouchedByOther(r, p) ==
    \E q \in Runs \ {r} : Machine[q] = Machine[r] /\ p \in Touched(q)

\* An input is on the disk with something in it, or could not be pulled by the
\* preflight, or is in the hands of another run of the machine.
Has(r, p) ==
    \/ TouchedByOther(r, p)
    \/ p \in DOMAIN disk[Machine[r]] /\ disk[Machine[r]][p] # EmptyFile
    \/ /\ p \in run[r].failed
       /\ run[r].pc = "work" /\ r \in Stages => p \in DOMAIN disk[Machine[r]]

HasInputs(r) ==
    run[r].pc \in Checked => \A p \in Paths(Inputs[r]) \cap Uploads : Has(r, p)

InputsInv ==
    /\ DOMAIN disk = Machines
    /\ Uploads \subseteq DOMAIN bucket
    /\ \A q \in Runs : ResultOf(q)
    /\ \A r \in Runs : HasInputs(r)

\* A function on 1 .. n is a sequence.
LEMMA FunctionsAreSequences ==
    ASSUME NEW S, NEW n \in Nat, NEW f \in [1 .. n -> S]
    PROVE  f \in Seq(S) /\ Len(f) = n
OBVIOUS

\* One element of a sequence changes.
LEMMA ChangedElement ==
    ASSUME NEW S, NEW s \in Seq(S), NEW i \in 1 .. Len(s), NEW e
    PROVE  /\ [s EXCEPT ![i] = e] \in Seq(ToSet([s EXCEPT ![i] = e]))
           /\ Len([s EXCEPT ![i] = e]) = Len(s)
           /\ DOMAIN [s EXCEPT ![i] = e] = DOMAIN s
           /\ [s EXCEPT ![i] = e][i] = e
           /\ \A j \in DOMAIN s \ {i} : [s EXCEPT ![i] = e][j] = s[j]
<1> DEFINE t == [s EXCEPT ![i] = e]
<1>1. Len(s) \in Nat /\ DOMAIN s = 1 .. Len(s) OBVIOUS
<1>2. DOMAIN t = 1 .. Len(s) BY <1>1
<1>3. t[i] = e /\ \A j \in DOMAIN s \ {i} : t[j] = s[j] BY <1>1
<1>4. t \in [1 .. Len(s) -> ToSet(t)] BY <1>2 DEF ToSet
<1> HIDE DEF t
<1>5. t \in Seq(ToSet(t)) /\ Len(t) = Len(s)
  <2> DEFINE n == Len(s)
             T == ToSet(t)
  <2>1. n \in Nat /\ t \in [1 .. n -> T] BY <1>1, <1>4
  <2> HIDE DEF n, T
  <2>2. t \in Seq(T) /\ Len(t) = n BY <2>1, FunctionsAreSequences
  <2> QED BY <2>2 DEF n, T
<1>6. /\ t \in Seq(ToSet(t)) /\ Len(t) = Len(s) /\ DOMAIN t = DOMAIN s
      /\ t[i] = e /\ \A j \in DOMAIN s \ {i} : t[j] = s[j]
  BY <1>1, <1>2, <1>3, <1>5
<1> QED BY <1>6 DEF t

\* A pull changes nothing that is there, and brings what the bucket has.
LEMMA Pulls ==
    ASSUME NEW m, NEW ps
    PROVE  /\ DOMAIN disk[m] \subseteq DOMAIN PulledFrom(m, ps)
           /\ \A p \in DOMAIN disk[m] : PulledFrom(m, ps)[p] = disk[m][p]
           /\ ps \cap DOMAIN bucket \subseteq DOMAIN PulledFrom(m, ps)
BY DEF PulledFrom

\* A push takes nothing out of the bucket.
LEMMA Pushes ==
    ASSUME NEW r, NEW files, NEW ps, NEW p, Pushed(Machine[r], files, ps) \/ Push(r, files, p)
    PROVE  DOMAIN bucket \subseteq DOMAIN bucket'
<1>1. ASSUME NEW xs, Pushed(Machine[r], files, xs) PROVE DOMAIN bucket \subseteq DOMAIN bucket'
  BY <1>1 DEF Pushed
<1> QED BY <1>1 DEF Push

\* No file of a machine is lost or emptied.
DiskKept ==
    /\ DOMAIN disk' = Machines
    /\ \A m \in Machines : \A p \in DOMAIN disk[m] :
          /\ p \in DOMAIN disk'[m]
          /\ disk'[m][p] = disk[m][p] \/ disk'[m][p] # EmptyFile

\* What run r does to the other runs' inputs: it keeps the files, or has touched
\* what it takes away.
LEMMA OthersKeep ==
    ASSUME InputsInv, NEW r \in Runs, \A q \in Runs \ {r} : run'[q] = run[q],
           DOMAIN disk' = Machines, Uploads \subseteq DOMAIN bucket',
           \A m \in Machines : \A p \in DOMAIN disk[m] :
              \/ m = Machine[r] /\ p \in Touched(r)'
              \/ /\ p \in DOMAIN disk'[m]
                 /\ disk'[m][p] = disk[m][p] \/ disk'[m][p] # EmptyFile,
           Touched(r) \subseteq Touched(r)', ResultOf(r)', HasInputs(r)'
    PROVE  InputsInv'
<1>1. ASSUME NEW q \in Runs, q # r PROVE ResultOf(q)' BY <1>1 DEF InputsInv, ResultOf
<1>2. ASSUME NEW q \in Runs, NEW p, p \in Touched(q) PROVE p \in Touched(q)'
  BY <1>2 DEF Touched
<1>3. ASSUME NEW q \in Runs, q # r PROVE HasInputs(q)'
  <2> SUFFICES ASSUME run[q].pc \in Checked, NEW p \in Paths(Inputs[q]) \cap Uploads
               PROVE  Has(q, p)'
    BY <1>3 DEF HasInputs
  <2>1. Has(q, p) BY <1>3 DEF InputsInv, HasInputs
  <2>2. Machine[q] \in Machines BY DEF Machines
  <2>3. CASE TouchedByOther(q, p)
    BY <1>2, <2>3 DEF Has, TouchedByOther
  <2>4. CASE Machine[q] = Machine[r] /\ p \in Touched(r)'
    BY <1>3, <2>4 DEF Has, TouchedByOther
  <2>5. CASE ~ (Machine[q] = Machine[r] /\ p \in Touched(r)') /\ ~ TouchedByOther(q, p)
    BY <1>3, <2>1, <2>2, <2>5 DEF Has
  <2> QED BY <2>3, <2>4, <2>5
<1> QED BY <1>1, <1>3 DEF InputsInv

\* A step that keeps the files and does not end a check of r's own inputs.
LEMMA InputsKept ==
    ASSUME InputsInv, NEW r \in Runs, \A q \in Runs \ {r} : run'[q] = run[q],
           DiskKept, Uploads \subseteq DOMAIN bucket',
           Touched(r) \subseteq Touched(r)', ResultOf(r)',
           run'[r].pc \in Checked =>
              /\ run[r].pc \in Checked /\ run'[r].failed = run[r].failed
              /\ run'[r].pc = "work" /\ r \in Stages => run[r].pc = "work"
    PROVE  InputsInv'
<1>1. HasInputs(r)'
  <2> SUFFICES ASSUME run'[r].pc \in Checked, NEW p \in Paths(Inputs[r]) \cap Uploads
               PROVE  Has(r, p)'
    BY DEF HasInputs
  <2>1. Has(r, p) BY DEF InputsInv, HasInputs
  <2>2. Machine[r] \in Machines BY DEF Machines
  <2>3. CASE TouchedByOther(r, p)
    <3>1. PICK q \in Runs \ {r} : Machine[q] = Machine[r] /\ p \in Touched(q)
      BY <2>3 DEF TouchedByOther
    <3>2. p \in Touched(q)' BY <3>1 DEF Touched
    <3> QED BY <3>1, <3>2 DEF Has, TouchedByOther
  <2>4. CASE ~ TouchedByOther(r, p)
    BY <2>1, <2>2, <2>4 DEF Has, DiskKept
  <2> QED BY <2>3, <2>4
<1> QED BY <1>1, OthersKeep DEF DiskKept

\* A pull leaves every file.
LEMMA PullKeeps ==
    ASSUME DOMAIN disk = Machines, NEW m \in Machines, NEW ps,
           disk' = [disk EXCEPT ![m] = PulledFrom(m, ps)]
    PROVE  DiskKept
BY Pulls DEF DiskKept

\* A write leaves every file but the one it writes, which is not empty.
LEMMA WriteKeeps ==
    ASSUME DOMAIN disk = Machines, NEW r \in Runs, NEW p, NEW files, Wrote(r, p, files),
           DOMAIN disk[Machine[r]] \subseteq DOMAIN files,
           \A x \in DOMAIN disk[Machine[r]] : files[x] = disk[Machine[r]][x]
    PROVE  DiskKept
<1>1. Machine[r] \in Machines BY DEF Machines
<1>2. disk' = [disk EXCEPT ![Machine[r]] = Put(files, p, Content(r, run[r].count + 1))]
  BY DEF Wrote
<1>3. Content(r, run[r].count + 1) # EmptyFile
  BY FileConstants DEF Content, EmptyFile
<1> HIDE DEF Content, EmptyFile
<1>4. disk'[Machine[r]] = Put(files, p, Content(r, run[r].count + 1))
      /\ \A m \in Machines \ {Machine[r]} : disk'[m] = disk[m]
  BY <1>1, <1>2
<1> QED BY <1>1, <1>2, <1>3, <1>4 DEF DiskKept, Put

\* A run that writes is still working.
LEMMA WriteRun ==
    ASSUME FoldersInv, InputsInv, NEW r \in Runs, run[r].pc = "work",
           NEW p, NEW files, Wrote(r, p, files)
    PROVE  /\ \A q \in Runs \ {r} : run'[q] = run[q]
           /\ Touched(r) \subseteq Touched(r)' /\ ResultOf(r)'
           /\ run'[r].pc = "work" /\ run'[r].failed = run[r].failed
<1>0. IsRun(run[r]) /\ DOMAIN run = Runs BY DEF FoldersInv, Shapes
<1>1. run' = [run EXCEPT ![r] = [run[r] EXCEPT !.wrote = @ \cup {p}, !.count = @ + 1]]
  BY <1>0 DEF Wrote
<1>2. /\ run'[r] = [run[r] EXCEPT !.wrote = @ \cup {p}, !.count = @ + 1]
      /\ \A q \in Runs \ {r} : run'[q] = run[q]
  BY <1>0, <1>1
<1>3. /\ run'[r].pc = run[r].pc /\ run'[r].failed = run[r].failed
      /\ run'[r].wrote = run[r].wrote \cup {p} /\ run'[r].i = run[r].i
      /\ run'[r].deliverable = run[r].deliverable /\ run'[r].result = run[r].result
  BY <1>0, <1>2 DEF IsRun
<1>4. Touched(r) \subseteq Touched(r)' BY <1>3 DEF Touched
<1>5. ResultOf(r)' BY <1>3 DEF InputsInv, ResultOf
<1> QED BY <1>2, <1>3, <1>4, <1>5

\* A step that leaves a run's results alone.
LEMMA SameResults ==
    ASSUME InputsInv, NEW r \in Runs,
           run'[r].deliverable = run[r].deliverable, run'[r].result = run[r].result,
           run'[r].wrote = run[r].wrote, run'[r].i = run[r].i,
           run'[r].pc \in Starting => run[r].pc \in Starting, run'[r].pc \notin Filing
    PROVE  Touched(r) \subseteq Touched(r)' /\ ResultOf(r)'
BY DEF InputsInv, ResultOf, Touched

\* There are values.
LEMMA AnyValue == \E e : IsValue(e)
<1>1. IsValue([path |-> None, form |-> None]) BY DEF IsValue
<1> QED BY <1>1

\* A value of the result is filed, or passed by.
LEMMA ResultFiled ==
    ASSUME InputsInv, NEW r \in Runs, run[r].pc \in Filing, run[r].i =< Len(run[r].result),
           run'[r].deliverable = run[r].deliverable, run'[r].wrote = run[r].wrote,
           run'[r].pc = "aim", run'[r].i = run[r].i + 1, NEW e, IsValue(e),
           \/ run'[r].result = run[r].result
           \/ run'[r].result = [run[r].result EXCEPT ![run[r].i] = e]
    PROVE  /\ Touched(r) \subseteq Touched(r)' /\ ResultOf(r)'
           /\ run[r].result[run[r].i].path \in Touched(r)'
           /\ run'[r].result = [run[r].result EXCEPT ![run[r].i] = e] => e.path \in Touched(r)'
<1> DEFINE s == run[r].result
           t == run'[r].result
           i == run[r].i
           d == run[r].deliverable
<1>1. /\ i \in Nat \ {0} /\ s \in Seq(ToSet(s)) /\ i \in 1 .. Len(s)
      /\ \A j \in DOMAIN s : j >= i => j \in DOMAIN d /\ d[j] = s[j]
  BY DEF InputsInv, ResultOf, Filing
<1>a. t = s \/ t = [s EXCEPT ![i] = e] OBVIOUS
<1>b. /\ Touched(r) = run[r].wrote \cup Paths(ToSet(d) \cup ToSet(s))
      /\ Touched(r)' = run[r].wrote \cup Paths(ToSet(d) \cup ToSet(t))
  BY DEF Touched
<1> HIDE DEF t, s, i, d
<1>2. i \in DOMAIN s /\ DOMAIN s = 1 .. Len(s) /\ Len(s) \in Nat BY <1>1
<1>3. /\ t \in Seq(ToSet(t)) /\ Len(t) = Len(s) /\ DOMAIN t = DOMAIN s
      /\ \A j \in DOMAIN s \ {i} : t[j] = s[j]
      /\ t = [s EXCEPT ![i] = e] => t[i] = e
  <2>1. CASE t # [s EXCEPT ![i] = e]
    <3>1. t = s BY <1>a, <2>1
    <3> QED BY <1>1, <2>1, <3>1
  <2>2. CASE t = [s EXCEPT ![i] = e]
    <3> DEFINE S == ToSet(s)
    <3>1. s \in Seq(S) /\ i \in 1 .. Len(s) BY <1>1
    <3> HIDE DEF S
    <3>2. /\ [s EXCEPT ![i] = e] \in Seq(ToSet([s EXCEPT ![i] = e]))
          /\ Len([s EXCEPT ![i] = e]) = Len(s)
          /\ DOMAIN [s EXCEPT ![i] = e] = DOMAIN s
          /\ [s EXCEPT ![i] = e][i] = e
          /\ \A j \in DOMAIN s \ {i} : [s EXCEPT ![i] = e][j] = s[j]
      BY <3>1, ChangedElement
    <3> QED BY <2>2, <3>2
  <2> QED BY <1>a, <2>1, <2>2
<1>4. s[i] \in ToSet(d) /\ d[i] = s[i] BY <1>1, <1>2 DEF ToSet
<1>5. ToSet(s) \subseteq ToSet(d) \cup ToSet(t)
  <2>1. ASSUME NEW j \in DOMAIN s PROVE s[j] \in ToSet(d) \cup ToSet(t)
    BY <1>3, <1>4, <2>1 DEF ToSet
  <2> QED BY <2>1 DEF ToSet
<1>6. Touched(r) \subseteq Touched(r)' BY <1>b, <1>5 DEF Paths
<1>7. run[r].result[run[r].i].path \in Touched(r)'
  <2>1. s[i].path \in Touched(r)' BY <1>b, <1>4 DEF Paths
  <2> QED BY <2>1 DEF s, i
<1>8. t = [s EXCEPT ![i] = e] => e.path \in Touched(r)'
  <2>1. t = [s EXCEPT ![i] = e] => e \in ToSet(t) BY <1>2, <1>3 DEF ToSet
  <2> QED BY <1>b, <2>1 DEF Paths
<1>9. ResultOf(r)'
  <2>1. run'[r].i \in Nat \ {0} BY <1>1 DEF i
  <2>2. ASSUME NEW j \in DOMAIN t, j >= i + 1 PROVE j \in DOMAIN d /\ d[j] = t[j]
    BY <1>1, <1>2, <1>3, <2>2
  <2>3. run'[r].result \in Seq(ToSet(run'[r].result)) BY <1>3 DEF t
  <2>4. \A j \in DOMAIN run'[r].result : j >= run'[r].i =>
            /\ j \in DOMAIN run'[r].deliverable
            /\ run'[r].deliverable[j] = run'[r].result[j]
    BY <2>2 DEF t, d, i
  <2>5. ASSUME NEW v \in ToSet(t) PROVE IsValue(v)
    <3>1. \A x \in ToSet(s) : IsValue(x) BY DEF InputsInv, ResultOf, s
    <3>2. PICK j \in DOMAIN t : v = t[j] BY <2>5 DEF ToSet
    <3>3. CASE j = i
      <4>1. v \in {s[i], e} BY <1>a, <1>3, <3>2, <3>3
      <4>2. s[i] \in ToSet(s) BY <1>2 DEF ToSet
      <4> QED BY <3>1, <4>1, <4>2
    <3>4. CASE j # i
      <4>1. v \in ToSet(s) BY <1>3, <3>2, <3>4 DEF ToSet
      <4> QED BY <3>1, <4>1
    <3> QED BY <3>3, <3>4
  <2> QED BY <2>1, <2>3, <2>4, <2>5 DEF ResultOf, Starting, Filing, t
<1> QED BY <1>6, <1>7, <1>8, <1>9 DEF s, i, t

\* The run of Aim: a value is left, renamed, or given a place.
LEMMA AimRun ==
    ASSUME FoldersInv, InputsInv, NEW r \in Runs, Aim(r)
    PROVE  /\ \A q \in Runs \ {r} : run'[q] = run[q]
           /\ run'[r].wrote = run[r].wrote /\ run'[r].deliverable = run[r].deliverable
           /\ \/ /\ run'[r].pc = "move" /\ run'[r].i = run[r].i
                 /\ run'[r].result = run[r].result
              \/ /\ run'[r].pc = "aim" /\ run'[r].i = run[r].i + 1
                 /\ \/ run'[r].result = run[r].result
                    \/ \E e : /\ IsValue(e)
                              /\ run'[r].result = [run[r].result EXCEPT ![run[r].i] = e]
<1> DEFINE passed == [run EXCEPT ![r].i = @ + 1]
<1>0. IsRun(run[r]) /\ DOMAIN run = Runs BY DEF FoldersInv, Shapes
<1>a. run[r].pc = "aim" BY Zenon DEF Aim
<1>b. run[r].i =< Len(run[r].result) BY Zenon DEF Aim
<1>1. /\ passed[r] = [run[r] EXCEPT !.i = @ + 1] /\ DOMAIN passed = Runs
      /\ \A q \in Runs \ {r} : passed[q] = run[q]
  BY <1>0
<1>2. /\ IsRun(passed[r]) /\ passed[r].pc = "aim" /\ passed[r].i = run[r].i + 1
      /\ passed[r].wrote = run[r].wrote /\ passed[r].deliverable = run[r].deliverable
      /\ passed[r].result = run[r].result
  <2> HIDE DEF passed
  <2> QED BY <1>0, <1>a, <1>1 DEF IsRun
<1>3. \/ run' = passed
      \/ \E e : /\ IsValue(e)
                /\ run' = [passed EXCEPT ![r].result = [run[r].result EXCEPT ![run[r].i] = e]]
      \/ \E us, to : run' = [run EXCEPT ![r].used = us, ![r].dst = to, ![r].pc = "move"]
  <2>1. CASE Known(r, ValueAt(r))
    <3> DEFINE np == run[r].moved[ValueAt(r).path]
               res == [passed[r].result EXCEPT ![run[r].i].path = np]
               e == [run[r].result[run[r].i] EXCEPT !.path = np]
    <3>1. run' = [passed EXCEPT ![r].result[run[r].i].path = np] BY <2>1 DEF Aim
    <3>2. run' = [passed EXCEPT ![r].result = res] BY <1>0, <1>1, <3>1
    <3>3. res = [run[r].result EXCEPT ![run[r].i] = e]
      <4> HIDE DEF passed, np
      <4> QED BY <1>2
    <3>4. IsValue(run[r].result[run[r].i])
      <4>1. /\ run[r].i \in Nat \ {0} /\ run[r].i =< Len(run[r].result)
            /\ run[r].result \in Seq(ToSet(run[r].result))
        BY <1>a, <1>b DEF InputsInv, ResultOf, Filing
      <4>2. run[r].result[run[r].i] \in ToSet(run[r].result) BY <4>1
      <4> QED BY <4>2 DEF InputsInv, ResultOf
    <3>5. IsValue(e)
      <4> HIDE DEF np
      <4> QED BY <3>4 DEF IsValue
    <3> HIDE DEF passed, np, res, e
    <3> QED BY <3>2, <3>3, <3>5
  <2>2. CASE ~ Known(r, ValueAt(r)) BY <2>2 DEF Aim
  <2> QED BY <2>1, <2>2
<1> HIDE DEF passed
<1>4. ASSUME NEW e, IsValue(e),
             run' = [passed EXCEPT ![r].result = [run[r].result EXCEPT ![run[r].i] = e]]
      PROVE  /\ \A q \in Runs \ {r} : run'[q] = run[q]
             /\ run'[r].wrote = run[r].wrote /\ run'[r].deliverable = run[r].deliverable
             /\ run'[r].pc = "aim" /\ run'[r].i = run[r].i + 1
             /\ run'[r].result = [run[r].result EXCEPT ![run[r].i] = e] /\ IsValue(e)
  <2> DEFINE t == [run[r].result EXCEPT ![run[r].i] = e]
  <2> HIDE DEF t
  <2>0. run' = [passed EXCEPT ![r].result = t] BY <1>4 DEF t
  <2>1. run'[r] = [passed[r] EXCEPT !.result = t] /\ \A q \in Runs \ {r} : run'[q] = run[q]
    BY <1>1, <2>0
  <2>2. /\ run'[r].pc = passed[r].pc /\ run'[r].i = passed[r].i
        /\ run'[r].wrote = passed[r].wrote /\ run'[r].deliverable = passed[r].deliverable
        /\ run'[r].result = t
    BY <1>2, <2>1 DEF IsRun
  <2> QED BY <1>2, <1>4, <2>1, <2>2 DEF t
<1>5. ASSUME NEW us, NEW to,
             run' = [run EXCEPT ![r].used = us, ![r].dst = to, ![r].pc = "move"]
      PROVE  /\ \A q \in Runs \ {r} : run'[q] = run[q]
             /\ run'[r].wrote = run[r].wrote /\ run'[r].deliverable = run[r].deliverable
             /\ run'[r].pc = "move" /\ run'[r].i = run[r].i /\ run'[r].result = run[r].result
  <2>1. run' = [run EXCEPT ![r] = [run[r] EXCEPT !.used = us, !.dst = to, !.pc = "move"]]
    BY <1>0, <1>5
  <2>2. run'[r] = [run[r] EXCEPT !.used = us, !.dst = to, !.pc = "move"]
        /\ \A q \in Runs \ {r} : run'[q] = run[q]
    BY <1>0, <2>1
  <2> QED BY <1>0, <2>2 DEF IsRun
<1>6. CASE run' = passed BY <1>1, <1>2, <1>6
<1>7. CASE \E e : /\ IsValue(e)
                   /\ run' = [passed EXCEPT ![r].result = [run[r].result EXCEPT ![run[r].i] = e]]
  BY <1>4, <1>7
<1>8. CASE \E us, to : run' = [run EXCEPT ![r].used = us, ![r].dst = to, ![r].pc = "move"]
  BY <1>5, <1>8
<1> QED BY <1>3, <1>6, <1>7, <1>8

\* The run of Move: the value is passed, with its new path if its file was moved.
LEMMA MoveRun ==
    ASSUME FoldersInv, InputsInv, NEW r \in Runs, Move(r)
    PROVE  /\ \A q \in Runs \ {r} : run'[q] = run[q]
           /\ run'[r].wrote = run[r].wrote /\ run'[r].deliverable = run[r].deliverable
           /\ run'[r].pc = "aim" /\ run'[r].i = run[r].i + 1
           /\ \/ /\ UNCHANGED disk /\ run'[r].result = run[r].result
              \/ /\ disk' = [disk EXCEPT ![Machine[r]] =
                                Put(Drop(disk[Machine[r]], ValueAt(r).path), run[r].dst,
                                    disk[Machine[r]][ValueAt(r).path])]
                 /\ \E e : /\ IsValue(e) /\ e.path = run[r].dst
                           /\ run'[r].result = [run[r].result EXCEPT ![run[r].i] = e]
<1> DEFINE next == [run EXCEPT ![r].pc = "aim", ![r].i = @ + 1, ![r].dst = None]
           i == run[r].i
           s == run[r].result
           dst == run[r].dst
           from == ValueAt(r).path
           lost == next[r].failed \cup {from}
           mv == Put(next[r].moved, from, dst)
<1>0. IsRun(run[r]) /\ DOMAIN run = Runs BY DEF FoldersInv, Shapes
<1>1. /\ next[r] = [run[r] EXCEPT !.pc = "aim", !.i = @ + 1, !.dst = None]
      /\ DOMAIN next = Runs /\ \A q \in Runs \ {r} : next[q] = run[q]
  <2>1. next = [run EXCEPT ![r] = [run[r] EXCEPT !.pc = "aim", !.i = @ + 1, !.dst = None]]
    BY <1>0
  <2> QED BY <1>0, <2>1
<1>a. \/ run' = next /\ UNCHANGED disk
      \/ run' = [next EXCEPT ![r].failed = @ \cup {from}] /\ UNCHANGED disk
      \/ /\ run' = [next EXCEPT ![r].moved = Put(@, from, dst),
                                ![r].result[run[r].i].path = dst]
         /\ disk' = [disk EXCEPT ![Machine[r]] =
                        Put(Drop(disk[Machine[r]], from), dst, disk[Machine[r]][from])]
  BY DEF Move
<1> HIDE DEF next
<1>2. /\ IsRun(next[r]) /\ next[r].pc = "aim" /\ next[r].i = i + 1
      /\ next[r].wrote = run[r].wrote /\ next[r].deliverable = run[r].deliverable
      /\ next[r].result = s
  BY <1>0, <1>1 DEF IsRun
<1>3. CASE run' = next /\ UNCHANGED disk BY <1>1, <1>2, <1>3
<1>4. CASE run' = [next EXCEPT ![r].failed = @ \cup {from}] /\ UNCHANGED disk
  <2> HIDE DEF from, s, i
  <2>1. run'[r] = [next[r] EXCEPT !.failed = lost] /\ \A q \in Runs \ {r} : run'[q] = next[q]
    BY <1>1, <1>4
  <2> HIDE DEF lost
  <2>2. /\ run'[r].pc = next[r].pc /\ run'[r].i = next[r].i
        /\ run'[r].wrote = next[r].wrote /\ run'[r].deliverable = next[r].deliverable
        /\ run'[r].result = next[r].result
    BY <1>2, <2>1 DEF IsRun
  <2> QED BY <1>1, <1>2, <1>4, <2>1, <2>2 DEF s, i
<1>5. CASE /\ run' = [next EXCEPT ![r].moved = Put(@, from, dst),
                                  ![r].result[run[r].i].path = dst]
           /\ disk' = [disk EXCEPT ![Machine[r]] =
                          Put(Drop(disk[Machine[r]], from), dst, disk[Machine[r]][from])]
  <2> DEFINE e == [s[i] EXCEPT !.path = dst]
             t == [s EXCEPT ![i] = e]
  <2> HIDE DEF from, s, i, dst
  <2>1. run'[r] = [next[r] EXCEPT !.moved = mv, !.result = [@ EXCEPT ![i].path = dst]]
        /\ \A q \in Runs \ {r} : run'[q] = next[q]
    BY <1>1, <1>2, <1>5 DEF i, IsRun
  <2>2. run'[r] = [next[r] EXCEPT !.moved = mv, !.result = [s EXCEPT ![i].path = dst]]
    BY <1>2, <2>1 DEF IsRun
  <2>3. [s EXCEPT ![i].path = dst] = t OBVIOUS
  <2> HIDE DEF t, mv
  <2>4. run'[r] = [next[r] EXCEPT !.moved = mv, !.result = t] BY <2>2, <2>3
  <2>5. /\ run'[r].pc = next[r].pc /\ run'[r].i = next[r].i
        /\ run'[r].wrote = next[r].wrote /\ run'[r].deliverable = next[r].deliverable
        /\ run'[r].result = t
    BY <1>2, <2>4 DEF IsRun
  <2>6. IsValue(s[i])
    <3>1. run[r].pc = "move" BY DEF Move
    <3>2. /\ run[r].i \in Nat \ {0} /\ run[r].i =< Len(run[r].result)
          /\ run[r].result \in Seq(ToSet(run[r].result))
      BY <3>1 DEF InputsInv, ResultOf, Filing
    <3>3. run[r].result[run[r].i] \in ToSet(run[r].result) BY <3>2
    <3> QED BY <3>3 DEF InputsInv, ResultOf, s, i
  <2>7. IsValue(e) /\ e.path = dst BY <2>6 DEF IsValue
  <2> HIDE DEF e
  <2>8. \E f : /\ IsValue(f) /\ f.path = run[r].dst
               /\ run'[r].result = [run[r].result EXCEPT ![run[r].i] = f]
    BY <2>5, <2>7 DEF t, s, i, dst
  <2> QED BY <1>1, <1>2, <1>5, <2>1, <2>5, <2>8 DEF i, dst, from
<1> QED BY <1>a, <1>3, <1>4, <1>5

\* A step that changes only where a run is and what it knows of its folder.
LEMMA OnlyPlace ==
    ASSUME FoldersInv, InputsInv, NEW r \in Runs, run[r].pc \in Starting,
           NEW place \in Starting, NEW out,
           run' = [run EXCEPT ![r] = [run[r] EXCEPT !.pc = place, !.out = out]]
    PROVE  /\ \A q \in Runs \ {r} : run'[q] = run[q]
           /\ Touched(r) \subseteq Touched(r)' /\ ResultOf(r)'
           /\ run'[r].pc = place /\ run'[r].failed = run[r].failed
<1>0. IsRun(run[r]) /\ DOMAIN run = Runs BY DEF FoldersInv, Shapes
<1>1. /\ run'[r] = [run[r] EXCEPT !.pc = place, !.out = out]
      /\ \A q \in Runs \ {r} : run'[q] = run[q]
  BY <1>0
<1>2. /\ run'[r].pc = place /\ run'[r].failed = run[r].failed
      /\ run'[r].wrote = run[r].wrote /\ run'[r].i = run[r].i
      /\ run'[r].deliverable = run[r].deliverable /\ run'[r].result = run[r].result
  BY <1>0, <1>1 DEF IsRun
<1>3. Touched(r) \subseteq Touched(r)' /\ ResultOf(r)'
  BY <1>2, SameResults DEF Starting, Filing
<1> QED BY <1>1, <1>2, <1>3

\* What a run finds, or does not find, before it works.
LEMMA StartInputs ==
    ASSUME FoldersInv, InputsInv, NEW r \in Runs,
           EnsureInputs(r) \/ Reserve(r)
    PROVE  InputsInv'
<1>0. /\ IsRun(run[r]) /\ DOMAIN run = Runs /\ Machine[r] \in Machines
      /\ DOMAIN disk = Machines /\ Uploads \subseteq DOMAIN bucket
  BY DEF FoldersInv, Shapes, InputsInv, Machines
<1>1. CASE EnsureInputs(r)
  <2>1. /\ run[r].pc = "inputs" /\ UNCHANGED bucket
        /\ run' = [run EXCEPT ![r].pc = "preflight"]
        /\ \E ps : disk' = [disk EXCEPT ![Machine[r]] = PulledFrom(Machine[r], ps)]
    BY <1>1 DEF EnsureInputs
  <2>2. DiskKept BY <1>0, <2>1, PullKeeps
  <2>3. PICK out : run' = [run EXCEPT ![r] = [run[r] EXCEPT !.pc = "preflight", !.out = out]]
    <3>1. run' = [run EXCEPT ![r] = [run[r] EXCEPT !.pc = "preflight", !.out = run[r].out]]
      BY <1>0, <2>1 DEF IsRun
    <3> QED BY <3>1
  <2>4. /\ \A q \in Runs \ {r} : run'[q] = run[q]
        /\ Touched(r) \subseteq Touched(r)' /\ ResultOf(r)' /\ run'[r].pc = "preflight"
    <3>1. run[r].pc \in Starting /\ "preflight" \in Starting BY <2>1 DEF Starting
    <3> QED BY <2>3, <3>1, OnlyPlace
  <2> QED BY <1>0, <2>1, <2>2, <2>4, InputsKept DEF Checked
<1>2. CASE Reserve(r)
  <2>1. run[r].pc = "reserve" /\ UNCHANGED <<disk, bucket>>
    BY <1>2 DEF Reserve
  <2>2. DiskKept BY <1>0, <2>1 DEF DiskKept
  <2>3. PICK place \in {"stage", "work"} :
            /\ \E out : run' = [run EXCEPT ![r].out = out, ![r].pc = place]
            /\ r \in Stages => place = "stage"
    BY <1>2 DEF Reserve
  <2>p. PICK out : run' = [run EXCEPT ![r].out = out, ![r].pc = place] BY <2>3
  <2>4. run' = [run EXCEPT ![r] = [run[r] EXCEPT !.pc = place, !.out = out]]
    BY <1>0, <2>p DEF IsRun
  <2>5. /\ \A q \in Runs \ {r} : run'[q] = run[q]
        /\ Touched(r) \subseteq Touched(r)' /\ ResultOf(r)'
        /\ run'[r].pc = place /\ run'[r].failed = run[r].failed
    <3>1. run[r].pc \in Starting /\ place \in Starting BY <2>1, <2>3 DEF Starting
    <3> QED BY <2>4, <3>1, OnlyPlace
  <2> QED BY <1>0, <2>1, <2>2, <2>3, <2>5, InputsKept DEF Checked
<1> QED BY <1>1, <1>2

\* The preflight passes only a run whose inputs are there and not empty, apart from
\* those it could not pull.
LEMMA PreflightInputs ==
    ASSUME FoldersInv, InputsInv, NEW r \in Runs, Preflight(r)
    PROVE  InputsInv'
<1> DEFINE m == Machine[r]
           named == Paths(Inputs[r])
           pulled(lost) == PulledFrom(m, named \ lost)
<1>0. /\ IsRun(run[r]) /\ DOMAIN run = Runs /\ m \in Machines
      /\ DOMAIN disk = Machines /\ Uploads \subseteq DOMAIN bucket
  BY DEF FoldersInv, Shapes, InputsInv, Machines
<1>1. PICK lost \in SUBSET (named \ DOMAIN disk[m]), place \in {"failed", "reserve"} :
          /\ disk' = [disk EXCEPT ![m] = pulled(lost)]
          /\ run' = [run EXCEPT ![r].failed = lost, ![r].pc = place]
          /\ place = "reserve" => \A p \in named : At(pulled(lost), p) # EmptyFile
  BY DEF Preflight, ReadablePaths
<1>2. run[r].pc = "preflight" /\ UNCHANGED bucket BY DEF Preflight
<1>3. DiskKept BY <1>0, <1>1, PullKeeps
<1>4. run' = [run EXCEPT ![r] = [run[r] EXCEPT !.failed = lost, !.pc = place]]
  BY <1>0, <1>1
<1>5. /\ run'[r] = [run[r] EXCEPT !.failed = lost, !.pc = place]
      /\ \A q \in Runs \ {r} : run'[q] = run[q]
  BY <1>0, <1>4
<1>6. /\ run'[r].pc = place /\ run'[r].failed = lost
      /\ run'[r].wrote = run[r].wrote /\ run'[r].i = run[r].i
      /\ run'[r].deliverable = run[r].deliverable /\ run'[r].result = run[r].result
  BY <1>0, <1>5 DEF IsRun
<1>7. Touched(r) \subseteq Touched(r)' /\ ResultOf(r)'
  BY <1>1, <1>2, <1>6, SameResults DEF Starting, Filing
<1>8. HasInputs(r)'
  <2> SUFFICES ASSUME place = "reserve", NEW p \in named \cap Uploads PROVE Has(r, p)'
    BY <1>1, <1>6 DEF HasInputs, Checked
  <2>1. CASE p \in lost BY <1>6, <2>1 DEF Has
  <2>2. CASE p \notin lost
    <3>1. disk'[m] = pulled(lost) BY <1>0, <1>1
    <3>2. p \in DOMAIN pulled(lost)
      <4>1. p \in (named \ lost) \cap DOMAIN bucket BY <1>0, <2>2
      <4> QED BY <4>1, Pulls
    <3>3. pulled(lost)[p] # EmptyFile
      <4>1. At(pulled(lost), p) # EmptyFile BY <1>1
      <4> QED BY <3>2, <4>1 DEF At
    <3> QED BY <3>1, <3>2, <3>3 DEF Has
  <2> QED BY <2>1, <2>2
<1>9. Uploads \subseteq DOMAIN bucket' BY <1>0, <1>2
<1> QED BY <1>3, <1>5, <1>7, <1>8, <1>9, OthersKeep DEF DiskKept

\* An agent that begins has all its inputs on the disk.
LEMMA StageInputs ==
    ASSUME FoldersInv, InputsInv, NEW r \in Runs, Stage(r)
    PROVE  InputsInv'
<1> DEFINE m == Machine[r]
           named == Paths(Inputs[r])
           files == PulledFrom(m, named)
<1>0. /\ IsRun(run[r]) /\ DOMAIN run = Runs /\ m \in Machines
      /\ DOMAIN disk = Machines /\ Uploads \subseteq DOMAIN bucket
  BY DEF FoldersInv, Shapes, InputsInv, Machines
<1>1. /\ run[r].pc = "stage"
      /\ \/ /\ named \subseteq DOMAIN files /\ disk' = [disk EXCEPT ![m] = files]
            /\ Pushed(m, files, named) /\ run' = [run EXCEPT ![r].pc = "work"]
         \/ /\ \E some, ps : disk' = [disk EXCEPT ![m] = PulledFrom(m, some)]
                              /\ Pushed(m, PulledFrom(m, some), ps)
            /\ run' = [run EXCEPT ![r].pc = "failed"]
  BY DEF Stage
<1> HIDE DEF files
<1>2. PICK place \in {"work", "failed"} :
          /\ run' = [run EXCEPT ![r].pc = place]
          /\ place = "work" => named \subseteq DOMAIN files /\ disk' = [disk EXCEPT ![m] = files]
  BY <1>1
<1>3. DiskKept
  <2>1. \E some : disk' = [disk EXCEPT ![m] = PulledFrom(m, some)] BY <1>1 DEF files
  <2> QED BY <1>0, <2>1, PullKeeps
<1>4. Uploads \subseteq DOMAIN bucket' BY <1>0, <1>1, Pushes
<1>5. PICK out : run' = [run EXCEPT ![r] = [run[r] EXCEPT !.pc = place, !.out = out]]
  <2>1. run' = [run EXCEPT ![r] = [run[r] EXCEPT !.pc = place, !.out = run[r].out]]
    BY <1>0, <1>2 DEF IsRun
  <2> QED BY <2>1
<1>6. /\ \A q \in Runs \ {r} : run'[q] = run[q]
      /\ Touched(r) \subseteq Touched(r)' /\ ResultOf(r)'
      /\ run'[r].pc = place /\ run'[r].failed = run[r].failed
  <2>1. run[r].pc \in Starting /\ place \in Starting BY <1>1, <1>2 DEF Starting
  <2> QED BY <1>5, <2>1, OnlyPlace
<1>7. HasInputs(r)'
  <2> SUFFICES ASSUME place = "work", NEW p \in named \cap Uploads PROVE Has(r, p)'
    BY <1>2, <1>6 DEF HasInputs, Checked
  <2>1. Has(r, p) BY <1>1 DEF InputsInv, HasInputs, Checked
  <2>2. p \in DOMAIN disk'[m] BY <1>0, <1>2
  <2>3. CASE TouchedByOther(r, p)
    <3>1. PICK q \in Runs \ {r} : Machine[q] = Machine[r] /\ p \in Touched(q)
      BY <2>3 DEF TouchedByOther
    <3>2. p \in Touched(q)' BY <1>6, <3>1 DEF Touched
    <3> QED BY <3>1, <3>2 DEF Has, TouchedByOther
  <2>4. CASE p \in DOMAIN disk[m] /\ disk[m][p] # EmptyFile
    BY <1>0, <1>3, <2>4 DEF Has, DiskKept
  <2>5. CASE p \in run[r].failed BY <1>6, <2>2, <2>5 DEF Has
  <2> QED BY <2>1, <2>3, <2>4, <2>5 DEF Has
<1> QED BY <1>3, <1>4, <1>6, <1>7, OthersKeep DEF DiskKept

\* A run at work only adds to the files, and to those it has touched.
LEMMA WorkInputs ==
    ASSUME FoldersInv, InputsInv, NEW r \in Runs,
           \/ WriteFile(r) \/ RunCode(r) \/ Generate(r) \/ EditFile(r) \/ HandOver(r)
    PROVE  InputsInv'
<1> DEFINE m == Machine[r]
<1>0. /\ m \in Machines /\ DOMAIN disk = Machines /\ Uploads \subseteq DOMAIN bucket
  BY DEF InputsInv, Machines
<1>1. run[r].pc = "work" BY DEF WriteFile, RunCode, Generate, EditFile, HandOver
<1>2. Uploads \subseteq DOMAIN bucket'
  BY <1>0, Pushes DEF WriteFile, RunCode, Generate, EditFile, HandOver
<1>3. ASSUME NEW p, NEW files, Wrote(r, p, files), DOMAIN disk[m] \subseteq DOMAIN files,
             \A x \in DOMAIN disk[m] : files[x] = disk[m][x]
      PROVE  InputsInv'
  <2>1. DiskKept BY <1>0, <1>3, WriteKeeps
  <2>2. /\ \A q \in Runs \ {r} : run'[q] = run[q]
        /\ Touched(r) \subseteq Touched(r)' /\ ResultOf(r)'
        /\ run'[r].pc = "work" /\ run'[r].failed = run[r].failed
    BY <1>1, <1>3, WriteRun
  <2> QED BY <1>1, <1>2, <2>1, <2>2, InputsKept DEF Checked
<1>4. CASE WriteFile(r) \/ RunCode(r) \/ Generate(r)
  <2>1. PICK p : Wrote(r, p, disk[m]) BY <1>4 DEF WriteFile, RunCode, Generate
  <2> QED BY <1>3, <2>1
<1>5. CASE EditFile(r)
  <2>1. PICK p : Wrote(r, p, PulledFrom(m, {p})) BY <1>5 DEF EditFile
  <2> QED BY <1>3, <2>1, Pulls
<1>6. CASE HandOver(r)
  <2>1. PICK p : disk' = [disk EXCEPT ![m] = PulledFrom(m, {p})] BY <1>6 DEF HandOver
  <2>2. DiskKept BY <1>0, <2>1, PullKeeps
  <2>3. UNCHANGED run BY <1>6 DEF HandOver
  <2>4. Touched(r) \subseteq Touched(r)' /\ ResultOf(r)'
    BY <2>3 DEF InputsInv, ResultOf, Touched
  <2> QED BY <1>1, <1>2, <2>2, <2>3, <2>4, InputsKept
<1> QED BY <1>4, <1>5, <1>6

\* The filing of a result: a file leaves its place only after the run has touched
\* it, and the value keeps what it was in the deliverable.
LEMMA FilingInputs ==
    ASSUME FoldersInv, InputsInv, NEW r \in Runs, Aim(r) \/ Move(r)
    PROVE  InputsInv'
<1> DEFINE m == Machine[r]
           from == ValueAt(r).path
<1>0. /\ m \in Machines /\ DOMAIN disk = Machines /\ Uploads \subseteq DOMAIN bucket
      /\ ResultOf(r)
  BY DEF InputsInv, Machines
<1>1. UNCHANGED bucket BY DEF Aim, Move
<1>2. CASE Aim(r)
  <2>0. run[r].pc = "aim" /\ run[r].i =< Len(run[r].result) BY <1>2, Zenon DEF Aim
  <2>1. DiskKept
    <3>1. CASE UNCHANGED disk BY <1>0, <3>1 DEF DiskKept
    <3>2. CASE \E ps : disk' = [disk EXCEPT ![m] = PulledFrom(m, ps)]
      BY <1>0, <3>2, PullKeeps
    <3>3. UNCHANGED disk \/ \E ps : disk' = [disk EXCEPT ![m] = PulledFrom(m, ps)]
      BY <1>2, Zenon DEF Aim
    <3> QED BY <3>1, <3>2, <3>3
  <2>2. /\ \A q \in Runs \ {r} : run'[q] = run[q]
        /\ run'[r].wrote = run[r].wrote /\ run'[r].deliverable = run[r].deliverable
        /\ \/ /\ run'[r].pc = "move" /\ run'[r].i = run[r].i
              /\ run'[r].result = run[r].result
           \/ /\ run'[r].pc = "aim" /\ run'[r].i = run[r].i + 1
              /\ \/ run'[r].result = run[r].result
                 \/ \E e : /\ IsValue(e)
                           /\ run'[r].result = [run[r].result EXCEPT ![run[r].i] = e]
    BY <1>2, AimRun
  <2>3. Touched(r) \subseteq Touched(r)' /\ ResultOf(r)'
    <3>1. CASE run'[r].pc = "move"
      BY <1>0, <2>0, <2>2, <3>1 DEF ResultOf, Touched, Filing, Starting
    <3>2. CASE run'[r].pc # "move"
      <4>1. PICK e : /\ IsValue(e)
                     /\ \/ run'[r].result = run[r].result
                        \/ run'[r].result = [run[r].result EXCEPT ![run[r].i] = e]
        BY <2>2, <3>2, AnyValue
      <4>2. run'[r].pc = "aim" /\ run'[r].i = run[r].i + 1 BY <2>2, <3>2
      <4> QED BY <2>0, <2>2, <4>1, <4>2, ResultFiled DEF Filing
    <3> QED BY <3>1, <3>2
  <2>4. run'[r].pc \notin Checked BY <2>2 DEF Checked
  <2> QED BY <1>0, <1>1, <2>1, <2>2, <2>3, <2>4, InputsKept
<1>3. CASE Move(r)
  <2>0. run[r].pc = "move" BY <1>3 DEF Move
  <2>1. /\ \A q \in Runs \ {r} : run'[q] = run[q]
        /\ run'[r].wrote = run[r].wrote /\ run'[r].deliverable = run[r].deliverable
        /\ run'[r].pc = "aim" /\ run'[r].i = run[r].i + 1
        /\ \/ /\ UNCHANGED disk /\ run'[r].result = run[r].result
           \/ /\ disk' = [disk EXCEPT ![m] =
                             Put(Drop(disk[m], from), run[r].dst, disk[m][from])]
              /\ \E e : /\ IsValue(e) /\ e.path = run[r].dst
                        /\ run'[r].result = [run[r].result EXCEPT ![run[r].i] = e]
    BY <1>3, MoveRun
  <2>2. run[r].i =< Len(run[r].result) /\ run[r].pc \in Filing
    BY <1>0, <2>0 DEF ResultOf, Filing
  <2>3. run'[r].pc \notin Checked BY <2>1 DEF Checked
  <2>4. CASE UNCHANGED disk /\ run'[r].result = run[r].result
    <3>1. DiskKept BY <1>0, <2>4 DEF DiskKept
    <3>2. Touched(r) \subseteq Touched(r)' /\ ResultOf(r)'
      <4>1. PICK e : IsValue(e) BY AnyValue
      <4> QED BY <2>1, <2>2, <2>4, <4>1, ResultFiled
    <3> QED BY <1>0, <1>1, <2>1, <2>3, <3>1, <3>2, InputsKept
  <2>5. CASE /\ disk' = [disk EXCEPT ![m] =
                            Put(Drop(disk[m], from), run[r].dst, disk[m][from])]
             /\ \E e : /\ IsValue(e) /\ e.path = run[r].dst
                       /\ run'[r].result = [run[r].result EXCEPT ![run[r].i] = e]
    <3>1. PICK e : /\ IsValue(e) /\ e.path = run[r].dst
                   /\ run'[r].result = [run[r].result EXCEPT ![run[r].i] = e]
      BY <2>5
    <3>2. /\ Touched(r) \subseteq Touched(r)' /\ ResultOf(r)'
          /\ run[r].result[run[r].i].path \in Touched(r)' /\ e.path \in Touched(r)'
      BY <2>1, <2>2, <3>1, ResultFiled
    <3>3. from \in Touched(r)' /\ run[r].dst \in Touched(r)' BY <3>1, <3>2 DEF ValueAt
    <3> HIDE DEF from
    <3>4. ASSUME NEW k \in Machines, NEW p \in DOMAIN disk[k]
          PROVE  \/ k = m /\ p \in Touched(r)'
                 \/ /\ p \in DOMAIN disk'[k]
                    /\ disk'[k][p] = disk[k][p] \/ disk'[k][p] # EmptyFile
      BY <1>0, <2>5, <3>2, <3>3 DEF Put, Drop
    <3>5. HasInputs(r)' BY <2>3 DEF HasInputs
    <3>6. DOMAIN disk' = Machines BY <1>0, <2>5
    <3> QED BY <1>0, <1>1, <2>1, <3>2, <3>4, <3>5, <3>6, OthersKeep
  <2> QED BY <2>1, <2>4, <2>5
<1> QED BY <1>2, <1>3

\* The rest of a run's end, and the record of its output.
LEMMA EndInputs ==
    ASSUME FoldersInv, InputsInv, NEW r \in Runs,
           SetOutput(r) \/ StartSync(r) \/ SyncOne(r) \/ List(r)
    PROVE  InputsInv'
<1> DEFINE m == Machine[r]
<1>0. /\ IsRun(run[r]) /\ DOMAIN run = Runs /\ m \in Machines
      /\ DOMAIN disk = Machines /\ Uploads \subseteq DOMAIN bucket /\ ResultOf(r)
  BY DEF FoldersInv, Shapes, InputsInv, Machines
<1>1. CASE SetOutput(r)
  <2>0. PICK d \in Deliverables(r) : \E meant :
            run' = [run EXCEPT ![r].pc = "aim", ![r].deliverable = d, ![r].result = d,
                               ![r].meant = meant]
    BY <1>1 DEF SetOutput
  <2>1. PICK meant :
            run' = [run EXCEPT ![r].pc = "aim", ![r].deliverable = d, ![r].result = d,
                               ![r].meant = meant]
    BY <2>0
  <2>2. run' = [run EXCEPT ![r] = [run[r] EXCEPT !.pc = "aim", !.deliverable = d,
                                                 !.result = d, !.meant = meant]]
    BY <1>0, <2>1
  <2>3. /\ run'[r] = [run[r] EXCEPT !.pc = "aim", !.deliverable = d, !.result = d,
                                    !.meant = meant]
        /\ \A q \in Runs \ {r} : run'[q] = run[q]
    BY <1>0, <2>2
  <2>4. /\ run'[r].pc = "aim" /\ run'[r].deliverable = d /\ run'[r].result = d
        /\ run'[r].wrote = run[r].wrote /\ run'[r].i = run[r].i
    BY <1>0, <2>3 DEF IsRun
  <2>5. run[r].pc = "work" /\ UNCHANGED <<disk, bucket>> BY <1>1 DEF SetOutput
  <2>6. d \in Seq(ToSet(d))
    <3> DEFINE S == [path : run[r].wrote \cup Paths(Inputs[r]), form : Spells[r]] \cup Results
    <3>1. PICK n \in 0 .. Values[r] : d \in [1 .. n -> S] BY DEF Deliverables, SeqOf
    <3> HIDE DEF S
    <3>2. n \in Nat BY FileConstants
    <3>3. DOMAIN d = 1 .. n /\ d \in [1 .. n -> ToSet(d)] BY <3>1 DEF ToSet
    <3> QED BY <3>2, <3>3, FunctionsAreSequences
  <2>a. \A v \in ToSet(d) : IsValue(v)
    <3> DEFINE S == [path : run[r].wrote \cup Paths(Inputs[r]), form : Spells[r]]
    <3>1. ASSUME NEW v \in S \cup Results PROVE IsValue(v)
      <4>1. CASE v \in S BY <4>1 DEF IsValue
      <4>2. CASE v \in Results BY <4>2 DEF Results, InputsInv, ResultOf
      <4> QED BY <4>1, <4>2
    <3> HIDE DEF S
    <3>2. PICK n \in 0 .. Values[r] : d \in [1 .. n -> S \cup Results]
      BY DEF Deliverables, SeqOf, S
    <3> QED BY <3>1, <3>2 DEF ToSet
  <2>7. ResultOf(r)' BY <1>0, <2>4, <2>6, <2>a DEF ResultOf, Starting, Filing
  <2>8. Touched(r) \subseteq Touched(r)'
    <3>1. run[r].deliverable = <<>> /\ run[r].result = <<>>
      BY <1>0, <2>5 DEF ResultOf, Starting
    <3> QED BY <2>4, <3>1 DEF Touched, ToSet, Paths
  <2>9. DiskKept BY <1>0, <2>5 DEF DiskKept
  <2> QED BY <1>0, <2>3, <2>4, <2>5, <2>7, <2>8, <2>9, InputsKept DEF Checked
<1>2. CASE StartSync(r)
  <2>1. run' = [run EXCEPT ![r] = [run[r] EXCEPT !.pc = "sync", !.i = 1]]
        /\ UNCHANGED <<disk, bucket>>
    BY <1>0, <1>2 DEF StartSync
  <2>2. run'[r] = [run[r] EXCEPT !.pc = "sync", !.i = 1]
        /\ \A q \in Runs \ {r} : run'[q] = run[q]
    BY <1>0, <2>1
  <2>3. /\ run'[r].pc = "sync" /\ run'[r].deliverable = run[r].deliverable
        /\ run'[r].result = run[r].result /\ run'[r].wrote = run[r].wrote /\ run'[r].i = 1
    BY <1>0, <2>2 DEF IsRun
  <2>4. ResultOf(r)' /\ Touched(r) \subseteq Touched(r)'
    BY <1>0, <2>3 DEF ResultOf, Starting, Filing, Touched
  <2>5. DiskKept BY <1>0, <2>1 DEF DiskKept
  <2> QED BY <1>0, <2>1, <2>2, <2>3, <2>4, <2>5, InputsKept DEF Checked
<1>3. CASE SyncOne(r)
  <2>0. PICK lost : run' = [run EXCEPT ![r].i = @ + 1, ![r].failed = lost]
    BY <1>3 DEF SyncOne
  <2>1. run' = [run EXCEPT ![r] = [run[r] EXCEPT !.i = @ + 1, !.failed = lost]]
    BY <1>0, <2>0
  <2>2. run'[r] = [run[r] EXCEPT !.i = @ + 1, !.failed = lost]
        /\ \A q \in Runs \ {r} : run'[q] = run[q]
    BY <1>0, <2>1
  <2>3. /\ run'[r].pc = run[r].pc /\ run'[r].deliverable = run[r].deliverable
        /\ run'[r].result = run[r].result /\ run'[r].wrote = run[r].wrote
        /\ run'[r].i = run[r].i + 1
    BY <1>0, <2>2 DEF IsRun
  <2>4. run[r].pc = "sync" /\ UNCHANGED disk BY <1>3 DEF SyncOne
  <2>5. ResultOf(r)' /\ Touched(r) \subseteq Touched(r)'
    BY <1>0, <2>3, <2>4 DEF ResultOf, Starting, Filing, Touched
  <2>6. DiskKept BY <1>0, <2>4 DEF DiskKept
  <2>7. Uploads \subseteq DOMAIN bucket'
    <3>1. UNCHANGED bucket \/ Push(r, disk[m], ValueAt(r).path) BY <1>3 DEF SyncOne
    <3> QED BY <1>0, <3>1, Pushes
  <2> QED BY <2>2, <2>3, <2>4, <2>5, <2>6, <2>7, InputsKept DEF Checked
<1>4. CASE List(r)
  <2>0. PICK shown, lost :
            run' = [run EXCEPT ![r].pc = "done", ![r].i = 1, ![r].moved = <<>>,
                               ![r].used = {}, ![r].manifest = shown, ![r].failed = lost]
    BY <1>4 DEF List
  <2>1. run' = [run EXCEPT ![r] = [run[r] EXCEPT !.pc = "done", !.i = 1, !.moved = <<>>,
                               !.used = {}, !.manifest = shown, !.failed = lost]]
    BY <1>0, <2>0
  <2>2. run'[r] = [run[r] EXCEPT !.pc = "done", !.i = 1, !.moved = <<>>,
                               !.used = {}, !.manifest = shown, !.failed = lost]
        /\ \A q \in Runs \ {r} : run'[q] = run[q]
    BY <1>0, <2>1
  <2>3. /\ run'[r].pc = "done" /\ run'[r].deliverable = run[r].deliverable
        /\ run'[r].result = run[r].result /\ run'[r].wrote = run[r].wrote /\ run'[r].i = 1
    BY <1>0, <2>2 DEF IsRun
  <2>4. ResultOf(r)' /\ Touched(r) \subseteq Touched(r)'
    BY <1>0, <2>3 DEF ResultOf, Starting, Filing, Touched
  <2>5. PICK ps : disk' = [disk EXCEPT ![m] = PulledFrom(m, ps)]
    BY <1>4 DEF List
  <2>6. DiskKept BY <1>0, <2>5, PullKeeps
  <2>7. UNCHANGED bucket BY <1>4 DEF List
  <2> QED BY <1>0, <2>2, <2>3, <2>4, <2>6, <2>7, InputsKept DEF Checked
<1> QED BY <1>1, <1>2, <1>3, <1>4

\* No run has begun.
LEMMA InitInputs == Init => InputsInv
<1> SUFFICES ASSUME Init PROVE InputsInv OBVIOUS
<1>1. DOMAIN disk = Machines /\ Uploads \subseteq DOMAIN bucket BY DEF Init
<1>2. ASSUME NEW r \in Runs
      PROVE  /\ run[r].pc = "inputs" /\ run[r].i = 1
             /\ run[r].deliverable = <<>> /\ run[r].result = <<>>
  BY DEF Init
<1>3. \A r \in Runs : ResultOf(r) /\ HasInputs(r)
  BY <1>2 DEF ResultOf, HasInputs, Starting, Filing, Checked, ToSet
<1> QED BY <1>1, <1>3 DEF InputsInv

LEMMA StepInputs == FoldersInv /\ InputsInv /\ [Next]_vars => InputsInv'
<1> SUFFICES ASSUME FoldersInv, InputsInv, [Next]_vars PROVE InputsInv' OBVIOUS
<1>1. CASE UNCHANGED vars
  BY <1>1 DEF vars, InputsInv, ResultOf, HasInputs, Has, TouchedByOther, Touched
<1>2. CASE Next
  BY <1>2, StartInputs, PreflightInputs, StageInputs, WorkInputs, FilingInputs,
     EndInputs DEF Next
<1> QED BY <1>1, <1>2

\* For every finite set of runs, machines and inputs, and whatever transfers and
\* moves fail: a run that works has the inputs it declares, and none is empty, apart
\* from those another run of its machine delivers and those its preflight could not
\* pull (validate_input_files, _stage_file_inputs).
THEOREM InputsAreThere ==
    ASSUME IsFiniteSet(Runs)
    PROVE  Spec => []InputsThere
<1>1. InputsInv => InputsThere
  <2> SUFFICES ASSUME InputsInv, NEW r \in Runs, run[r].pc = "work",
                      NEW p \in Paths(Inputs[r]) \cap Uploads, ~ TouchedByOther(r, p)
               PROVE  /\ \/ p \in DOMAIN disk[Machine[r]]
                         \/ p \in run[r].failed /\ r \notin Stages
                      /\ At(disk[Machine[r]], p) # EmptyFile \/ p \in run[r].failed
    BY DEF InputsThere, TouchedByOther
  <2>1. Has(r, p) BY DEF InputsInv, HasInputs, Checked
  <2> QED BY <2>1 DEF Has, At
<1>2. FoldersInv /\ [Next]_vars => FoldersInv' BY StepFolders
<1> QED BY <1>1, <1>2, InitFolders, InitInputs, StepInputs, PTL DEF Spec

-----------------------------------------------------------------------------
(* What a run hands over.                                                  *)

Ending == {"aim", "move", "sync", "done"}
Place(q, j) == run[q].result[j].path
Source(q, j) == run[q].deliverable[j].path

\* The files a run may pull or push; a file it made, by writing or by filing.
Near(q) == Touched(q) \cup Paths(Inputs[q])
MadeBy(q, p) ==
    \/ p \in run[q].wrote
    \/ \E j \in DOMAIN run[q].result : p = Place(q, j) /\ p # Source(q, j)

Settled(q) == run[q].out # None

\* Another run has touched p; another run that is given p as an input may put an
\* old copy of it, or one of its own, over what r left there.
Elsewhere(r, p) == \E q \in Runs \ {r} : p \in Touched(q)
Busy(r, p) == \E q \in Runs \ {r} : p \in Paths(Inputs[q]) \cap (run[r].wrote \cup Touched(q))

\* What a run knows of its own folder, files and values.
Begun(q) ==
    /\ run[q].count \in Nat /\ IsFiniteSet(run[q].wrote)
    /\ run[q].out \in RunFolders \cup {None}
    /\ run[q].pc \notin Early \cup {"failed"} => run[q].out \in RunFolders
    /\ \A p \in run[q].wrote :
          IsPath(p) /\ (p.dir \in Work \cup {run[q].out} \/ p \in Paths(Inputs[q]))
    /\ run[q].wrote # {} => run[q].pc \in Ending \cup {"work"}
    /\ run[q].pc \in Starting \cup Ending
    /\ run[q].pc \in Starting =>
          /\ run[q].deliverable = <<>> /\ run[q].result = <<>>
          /\ run[q].moved = <<>> /\ run[q].used = {} /\ run[q].i = 1

ValueOf(q, j) ==
    /\ IsValue(run[q].result[j]) /\ IsValue(run[q].deliverable[j])
    /\ IsPath(Place(q, j)) /\ IsPath(Source(q, j))
    /\ run[q].result[j].form = run[q].deliverable[j].form
    /\ \/ Place(q, j) = Source(q, j)
       \/ /\ run[q].result[j].form = "string"
          /\ Place(q, j).dir = run[q].out /\ Source(q, j).dir # run[q].out

Ended(q) ==
    run[q].pc \in Ending =>
       /\ run[q].i \in Nat \ {0} /\ run[q].result \in Seq(ToSet(run[q].result))
       /\ DOMAIN run[q].deliverable = DOMAIN run[q].result
       /\ DOMAIN run[q].meant = DOMAIN run[q].result
       /\ \A j \in DOMAIN run[q].result : ValueOf(q, j)

\* While a run files its result, what it has promised is in used.
Promises(q) ==
    run[q].pc \in Filing =>
       /\ IsFiniteSet(run[q].used)
       /\ \A j \in DOMAIN run[q].result :
             /\ j >= run[q].i => run[q].result[j] = run[q].deliverable[j]
             /\ Place(q, j) # Source(q, j) =>
                   /\ Place(q, j) \in run[q].used
                   /\ run[q].pc = "move" => Place(q, j) # run[q].dst
       /\ \A s \in DOMAIN run[q].moved :
             /\ s.dir # run[q].out /\ IsPath(run[q].moved[s])
             /\ run[q].moved[s].dir = run[q].out /\ run[q].moved[s] \in run[q].used
             /\ run[q].pc = "move" => run[q].moved[s] # run[q].dst

Aimed(q) ==
    run[q].pc = "move" =>
       /\ run[q].i \in DOMAIN run[q].result
       /\ IsPath(run[q].dst) /\ run[q].dst.dir = run[q].out /\ run[q].dst \in run[q].used
       /\ ~ LeftAlone(q, ValueAt(q)) /\ ~ Known(q, ValueAt(q))

RunShape(q) == Begun(q) /\ Ended(q) /\ Promises(q) /\ Aimed(q)

\* A file of a run folder that a run touches is its input, in its own folder, or
\* in the result of a run that had it so and is done.
Origin(q, p) ==
    \/ p \in Paths(Inputs[q]) \/ p.dir = run[q].out
    \/ \E y \in Runs : /\ run[y].pc = "done" /\ p \in Paths(ToSet(run[y].result))
                       /\ p \in Paths(Inputs[y]) \/ p.dir = run[y].out

Origins(q) ==
    \A j \in DOMAIN run[q].deliverable :
        Source(q, j).dir \in RunFolders => Origin(q, Source(q, j))

\* What a run has written stays on the disk until it files it.
Written(r) ==
    \A p \in run[r].wrote :
        run[r].pc = "work" \/ (run[r].pc \in Filing /\ p.dir = run[r].out)
            => p \in DOMAIN disk[Machine[r]] \/ Elsewhere(r, p)

\* The files of the machines and of the bucket: which there are ...
Stock ==
    /\ DOMAIN memo = Machines
    /\ \A m \in Machines :
          /\ \A p \in DOMAIN disk[m] : disk[m][p] # None
          /\ DOMAIN memo[m] \subseteq DOMAIN bucket
          /\ \A p \in DOMAIN disk[m] \cup DOMAIN memo[m] :
                \E q \in Runs : Machine[q] = m /\ p \in Near(q)
          /\ \A p \in DOMAIN disk[m] : p \in Uploads \/ \E q \in Runs : MadeBy(q, p)
    /\ \A p \in DOMAIN bucket :
          bucket[p] # None /\ (p \in Uploads \/ \E q \in Runs : MadeBy(q, p))

\* ... and which are one: the copies of a file nobody has written, if its folder is
\* one run's, and what a machine that alone handles a file has pushed of it.
Pristine(p) ==
    /\ \A q \in Runs : p \notin run[q].wrote
    /\ \A q \in Runs : Settled(q) /\ run[q].out = p.dir => ~ SharesFolder(q)

Copies(p, c) ==
    /\ p \in DOMAIN bucket => bucket[p] = c
    /\ \A m \in Machines : /\ p \in DOMAIN disk[m] => disk[m][p] = c
                           /\ p \in DOMAIN memo[m] => memo[m][p] = c

OneCopy == \A p : Pristine(p) => \E c : Copies(p, c)

PushedHere ==
    \A m \in Machines : \A p \in DOMAIN memo[m] :
        (\A q \in Runs : Machine[q] # m => p \notin Near(q)) => bucket[p] = memo[m][p]

World ==
    /\ \A q \in Runs : RunShape(q) /\ Origins(q) /\ Written(q)
    /\ Stock /\ OneCopy /\ PushedHere

\* Two runs in one folder share it.
LEMMA SameFolder ==
    ASSUME FoldersInv, NEW r \in Runs, NEW q \in Runs, r # q,
           Settled(r), Settled(q), run[r].out = run[q].out
    PROVE  SharesFolder(r)
BY DEF FoldersInv, OwnFolder, Settled, SharesFolder

\* A run that has touched a file, or files, is in a folder.
LEMMA TouchesSettled ==
    ASSUME NEW q \in Runs, Begun(q), Touched(q) # {} \/ run[q].pc \in Ending \cup {"work"}
    PROVE  /\ run[q].pc \in Ending \cup {"work"} /\ run[q].out \in RunFolders /\ Settled(q)
<1>1. run[q].pc \in Ending \cup {"work"}
  BY DEF Begun, Touched, Paths, ToSet, Starting
<1> QED BY <1>1, PathConstants DEF Begun, Settled, Ending, Early

\* Where a file of a run folder comes from.
LEMMA TouchedOrigin ==
    ASSUME World, NEW q \in Runs, NEW p \in Touched(q), p.dir \in RunFolders
    PROVE  Origin(q, p)
<1>0. RunShape(q) /\ Origins(q) BY DEF World
<1>1. CASE p \in run[q].wrote
  BY <1>0, <1>1, PathConstants DEF RunShape, Begun, Origin
<1>2. CASE p \notin run[q].wrote
  <2>1. run[q].pc \in Ending BY <1>0, <1>2, TouchesSettled DEF RunShape, Touched, Begun, Starting, Paths, ToSet
  <2>2. PICK v \in ToSet(run[q].deliverable) \cup ToSet(run[q].result) : p = v.path
    BY <1>2 DEF Touched, Paths
  <2>3. PICK j \in DOMAIN run[q].result : p \in {Source(q, j), Place(q, j)}
    BY <1>0, <2>1, <2>2 DEF RunShape, Ended, ToSet, Source, Place
  <2>4. ValueOf(q, j) /\ j \in DOMAIN run[q].deliverable
    BY <1>0, <2>1 DEF RunShape, Ended
  <2> QED BY <1>0, <2>3, <2>4 DEF ValueOf, Origins, Origin
<1> QED BY <1>1, <1>2

\* No other run comes into a folder that is not shared, but for its own input and
\* for a result that is done.
LEMMA FolderTouched ==
    ASSUME FoldersInv, World, NEW r \in Runs, run[r].pc \in Ending \cup {"work"},
           run[r].pc # "done", NEW p, p.dir = run[r].out, Elsewhere(r, p)
    PROVE  SharesFolder(r) \/ Busy(r, p)
<1>0. PICK q \in Runs \ {r} : p \in Touched(q) BY DEF Elsewhere
<1>1. \A x \in Runs : Begun(x) BY DEF World, RunShape
<1>2. Settled(r) /\ Settled(q) /\ p.dir \in RunFolders BY <1>0, <1>1, TouchesSettled
<1>3. Origin(q, p) BY <1>0, <1>2, TouchedOrigin
<1>4. CASE p \in Paths(Inputs[q]) BY <1>0, <1>4 DEF Busy
<1>5. CASE p.dir = run[q].out BY <1>0, <1>2, <1>5, SameFolder
<1>6. CASE \E y \in Runs : /\ run[y].pc = "done" /\ p \in Paths(ToSet(run[y].result))
                           /\ p \in Paths(Inputs[y]) \/ p.dir = run[y].out
  <2>1. PICK y \in Runs : /\ run[y].pc = "done" /\ p \in Paths(ToSet(run[y].result))
                          /\ p \in Paths(Inputs[y]) \/ p.dir = run[y].out
    BY <1>6
  <2>2. y # r /\ p \in Touched(y) BY <2>1 DEF Touched, Paths
  <2>3. Settled(y) BY <1>1, <2>2, TouchesSettled
  <2> QED BY <1>2, <2>1, <2>2, <2>3, SameFolder DEF Busy
<1> QED BY <1>3, <1>4, <1>5, <1>6 DEF Origin

FoldersTouched ==
    \A r \in Runs : \A p :
        /\ run[r].pc \in Ending \cup {"work"} /\ run[r].pc # "done"
        /\ p.dir = run[r].out /\ Elsewhere(r, p)
        => SharesFolder(r) \/ Busy(r, p)

LEMMA FoldersAreTouched == FoldersInv /\ World => FoldersTouched
BY FolderTouched DEF FoldersTouched

LEMMA FolderWritten ==
    ASSUME FoldersInv, World, NEW r \in Runs, run[r].pc \in Ending \cup {"work"},
           NEW p, p.dir = run[r].out, NEW q \in Runs \ {r}, p \in run[q].wrote
    PROVE  SharesFolder(r) \/ Busy(r, p)
<1>1. \A x \in Runs : Begun(x) BY DEF World, RunShape
<1>2. p \in Touched(q) BY DEF Touched
<1>3. Settled(r) /\ Settled(q) /\ p.dir \in RunFolders BY <1>1, <1>2, TouchesSettled
<1>4. p.dir = run[q].out \/ p \in Paths(Inputs[q])
  BY <1>1, <1>3, PathConstants DEF Begun
<1> QED BY <1>2, <1>3, <1>4, SameFolder DEF Busy

-----------------------------------------------------------------------------
(* What one step of a run a does to the files.                             *)

Same(f, g, p) == /\ p \in DOMAIN g <=> p \in DOMAIN f
                 /\ p \in DOMAIN f => g[p] = f[p]

\* A file stays, is pulled, is written, is taken away, or lands where it is filed.
DiskAt(a, p) ==
    LET f == disk[Machine[a]]
        g == disk'[Machine[a]]
    IN  \/ Same(f, g, p)
        \/ /\ p \in Near(a)' /\ p \notin DOMAIN f /\ p \in DOMAIN bucket
           /\ p \in DOMAIN g /\ g[p] = bucket[p]
        \/ p \in run'[a].wrote /\ p \in DOMAIN g /\ g[p] # None
        \/ p \in Touched(a)' /\ p \notin DOMAIN g
        \/ /\ run[a].pc = "move" /\ p = run[a].dst /\ MadeBy(a, p)'
           /\ p \in DOMAIN g /\ g[p] # None

DiskStep(a) ==
    /\ DOMAIN disk' = Machines
    /\ \A m \in Machines \ {Machine[a]} : disk'[m] = disk[m]
    /\ \A p : DiskAt(a, p)

\* A file of the bucket stays, or is pushed.
BucketAt(a, p) ==
    \/ Same(bucket, bucket', p) /\ Same(memo[Machine[a]], memo'[Machine[a]], p)
    \/ /\ p \in Near(a)' /\ p \in DOMAIN disk'[Machine[a]]
       /\ p \in DOMAIN bucket' /\ bucket'[p] = disk'[Machine[a]][p]
       /\ p \in DOMAIN memo'[Machine[a]] /\ memo'[Machine[a]][p] = disk'[Machine[a]][p]

BucketStep(a) ==
    /\ DOMAIN memo' = Machines
    /\ \A m \in Machines \ {Machine[a]} : memo'[m] = memo[m]
    /\ \A p : BucketAt(a, p)

\* What the run keeps, and what only grows.
RunStep(a) ==
    /\ \A q \in Runs \ {a} : run'[q] = run[q]
    /\ run[a].pc # "done"
    /\ run[a].wrote \subseteq run'[a].wrote /\ Touched(a) \subseteq Touched(a)'
    /\ \A p : MadeBy(a, p) => MadeBy(a, p)'
    /\ run[a].out # None => run'[a].out = run[a].out
    /\ Settled(a) => Settled(a)'
    /\ RunShape(a)' /\ Origins(a)' /\ Written(a)'

Step(a) == DiskStep(a) /\ BucketStep(a) /\ RunStep(a)

LEMMA DiskStays ==
    ASSUME DOMAIN disk = Machines, NEW a \in Runs, UNCHANGED disk
    PROVE  DiskStep(a)
BY DEF DiskStep, DiskAt, Same

LEMMA PullStep ==
    ASSUME DOMAIN disk = Machines, NEW a \in Runs, NEW ps, ps \subseteq Near(a)',
           disk' = [disk EXCEPT ![Machine[a]] = PulledFrom(Machine[a], ps)]
    PROVE  DiskStep(a)
<1> DEFINE m == Machine[a]
           f == disk[m]
           g == disk'[m]
<1>1. m \in Machines BY DEF Machines
<1>2. g = PulledFrom(m, ps) /\ \A k \in Machines \ {m} : disk'[k] = disk[k] BY <1>1
<1>3. ASSUME NEW p PROVE DiskAt(a, p)
  <2>1. \/ Same(f, g, p)
        \/ p \in ps /\ p \notin DOMAIN f /\ p \in DOMAIN bucket
           /\ p \in DOMAIN g /\ g[p] = bucket[p]
    BY <1>2 DEF PulledFrom, Same
  <2> QED BY <2>1 DEF DiskAt
<1> QED BY <1>1, <1>2, <1>3 DEF DiskStep

\* A tool writes p, on what is there or on what it has pulled.
LEMMA WriteStep ==
    ASSUME DOMAIN disk = Machines, NEW a \in Runs, NEW p, NEW files, NEW ps,
           Wrote(a, p, files), ps \subseteq Near(a)',
           files = disk[Machine[a]] \/ files = PulledFrom(Machine[a], ps),
           p \in run'[a].wrote, Content(a, run[a].count + 1) # None
    PROVE  DiskStep(a)
<1> DEFINE m == Machine[a]
           f == disk[m]
           g == disk'[m]
           c == Content(a, run[a].count + 1)
<1>1. m \in Machines BY DEF Machines
<1>2. g = Put(files, p, c) /\ \A k \in Machines \ {m} : disk'[k] = disk[k]
  BY <1>1 DEF Wrote
<1>3. ASSUME NEW x PROVE DiskAt(a, x)
  <2>1. \/ Same(f, files, x)
        \/ x \in ps /\ x \notin DOMAIN f /\ x \in DOMAIN bucket
           /\ x \in DOMAIN files /\ files[x] = bucket[x]
    BY DEF PulledFrom, Same
  <2>2. CASE x = p
    <3>1. x \in DOMAIN g /\ g[x] = c BY <1>2, <2>2 DEF Put
    <3> QED BY <2>2, <3>1 DEF DiskAt
  <2>3. CASE x # p
    <3>1. Same(files, g, x) BY <1>2, <2>3 DEF Put, Same
    <3> QED BY <2>1, <3>1 DEF DiskAt, Same
  <2> QED BY <2>2, <2>3
<1>4. DOMAIN disk' = Machines BY DEF Wrote
<1> QED BY <1>2, <1>3, <1>4 DEF DiskStep

LEMMA BucketStays ==
    ASSUME DOMAIN memo = Machines, NEW a \in Runs, UNCHANGED <<bucket, memo>>
    PROVE  BucketStep(a)
BY DEF BucketStep, BucketAt, Same

LEMMA PushesStep ==
    ASSUME DOMAIN memo = Machines, NEW a \in Runs, NEW ps, ps \subseteq Near(a)',
           Pushed(Machine[a], disk'[Machine[a]], ps)
    PROVE  BucketStep(a)
<1> DEFINE m == Machine[a]
           g == disk'[m]
           new == {x \in ps : NeedsPush(m, g, x)}
           With(f) == [q \in DOMAIN f \cup new |-> IF q \in new THEN g[q] ELSE f[q]]
<1>1. m \in Machines BY DEF Machines
<1>2. bucket' = With(bucket) /\ memo' = [memo EXCEPT ![m] = With(memo[m])]
  BY <1>1 DEF Pushed
<1>3. /\ memo'[m] = With(memo[m]) /\ DOMAIN memo' = Machines
      /\ \A k \in Machines \ {m} : memo'[k] = memo[k]
  BY <1>1, <1>2
<1>4. \A x \in new : x \in Near(a)' /\ x \in DOMAIN g BY DEF NeedsPush
<1>5. ASSUME NEW x PROVE BucketAt(a, x)
  <2> HIDE DEF new
  <2>1. CASE x \in new BY <1>2, <1>3, <1>4, <2>1 DEF BucketAt
  <2>2. CASE x \notin new BY <1>2, <1>3, <2>2 DEF BucketAt, Same
  <2> QED BY <2>1, <2>2
<1> QED BY <1>3, <1>5 DEF BucketStep

LEMMA OnePushStep ==
    ASSUME DOMAIN memo = Machines, NEW a \in Runs, NEW p \in Near(a)',
           Push(a, disk'[Machine[a]], p)
    PROVE  BucketStep(a)
<1>1. CASE UNCHANGED <<bucket, memo>> BY <1>1, BucketStays
<1>2. CASE Pushed(Machine[a], disk'[Machine[a]], {p})
  <2>1. {p} \subseteq Near(a)' OBVIOUS
  <2> QED BY <1>2, <2>1, PushesStep
<1> QED BY <1>1, <1>2 DEF Push

-----------------------------------------------------------------------------
(* A step keeps the files in order.                                        *)

\* What grows, and what follows.
LEMMA Grows ==
    ASSUME NEW a \in Runs, RunStep(a), NEW q \in Runs, NEW p
    PROVE  /\ p \in run[q].wrote => p \in run'[q].wrote
           /\ p \in Touched(q) => p \in Touched(q)'
           /\ p \in Near(q) => p \in Near(q)'
           /\ MadeBy(q, p) => MadeBy(q, p)'
           /\ Settled(q) => Settled(q)' /\ run'[q].out = run[q].out
<1>1. CASE q = a BY <1>1 DEF RunStep, Near, Settled
<1>2. CASE q # a
  <2>1. run'[q] = run[q] BY <1>2 DEF RunStep
  <2> QED BY <2>1 DEF Touched, Near, MadeBy, Settled, Place, Source
<1> QED BY <1>1, <1>2

LEMMA SharesGrows ==
    ASSUME NEW a \in Runs, RunStep(a), NEW r \in Runs, Settled(r), SharesFolder(r)
    PROVE  SharesFolder(r)'
<1>1. run'[r].out = run[r].out /\ run[r].out # None BY Grows DEF Settled
<1>2. PICK q \in Runs : Machine[q] # Machine[r] /\ run[q].out = run[r].out
  BY DEF SharesFolder
<1>3. run'[q].out = run[q].out BY <1>1, <1>2 DEF RunStep
<1> QED BY <1>1, <1>2, <1>3 DEF SharesFolder

LEMMA OthersGrow ==
    ASSUME NEW a \in Runs, RunStep(a), NEW r \in Runs, NEW p
    PROVE  /\ Elsewhere(r, p) => Elsewhere(r, p)'
           /\ Busy(r, p) => Busy(r, p)'
           /\ a # r /\ p \in Touched(a)' => Elsewhere(r, p)'
           /\ Pristine(p)' => Pristine(p)
<1>1. Elsewhere(r, p) => Elsewhere(r, p)'
  BY Grows DEF Elsewhere
<1>2. Busy(r, p) => Busy(r, p)'
  BY Grows DEF Busy
<1>3. a # r /\ p \in Touched(a)' => Elsewhere(r, p)' BY DEF Elsewhere
<1>4. Pristine(p)' => Pristine(p)
  BY Grows, SharesGrows DEF Pristine
<1> QED BY <1>1, <1>2, <1>3, <1>4

\* What a step touches it may push.
LEMMA TouchedNear ==
    ASSUME NEW q \in Runs, NEW p
    PROVE  /\ p \in run[q].wrote => p \in Touched(q) /\ MadeBy(q, p)
           /\ MadeBy(q, p) => p \in Touched(q)
           /\ p \in Touched(q) => p \in Near(q)
           /\ p \in run'[q].wrote => p \in Touched(q)' /\ MadeBy(q, p)'
           /\ MadeBy(q, p)' => p \in Touched(q)'
           /\ p \in Touched(q)' => p \in Near(q)'
BY DEF Touched, MadeBy, Near, Place, Paths, ToSet

LEMMA OriginStays ==
    ASSUME NEW a \in Runs, RunStep(a), NEW q \in Runs \ {a}, NEW p, Origin(q, p)
    PROVE  Origin(q, p)'
BY DEF RunStep, Origin

LEMMA WrittenStays ==
    ASSUME NEW a \in Runs, DiskStep(a), RunStep(a), NEW r \in Runs \ {a}, Written(r)
    PROVE  Written(r)'
<1> SUFFICES ASSUME NEW p \in run[r].wrote,
                    run[r].pc = "work" \/ (run[r].pc \in Filing /\ p.dir = run[r].out),
                    ~ Elsewhere(r, p)'
             PROVE  p \in DOMAIN disk'[Machine[r]]
  BY DEF Written, RunStep
<1>1. Machine[r] \in Machines BY DEF Machines
<1>2. p \in DOMAIN disk[Machine[r]] BY OthersGrow DEF Written
<1>3. p \notin Touched(a)' BY OthersGrow
<1>4. CASE Machine[r] # Machine[a] BY <1>1, <1>2, <1>4 DEF DiskStep
<1>5. CASE Machine[r] = Machine[a]
  <2>1. DiskAt(a, p) BY DEF DiskStep
  <2> QED BY <1>2, <1>3, <1>5, <2>1 DEF DiskAt, Same
<1> QED BY <1>4, <1>5

LEMMA StockStays ==
    ASSUME DOMAIN disk = Machines, NEW a \in Runs, Step(a), Stock
    PROVE  Stock'
<1> DEFINE m == Machine[a]
           Made(p) == p \in Uploads \/ \E q \in Runs : MadeBy(q, p)
<1>0. DiskStep(a) /\ BucketStep(a) /\ RunStep(a) /\ m \in Machines BY DEF Step, Machines
<1>1. ASSUME NEW p, Made(p) PROVE Made(p)' BY <1>0, <1>1, Grows
<1>2. ASSUME NEW p \in DOMAIN disk'[m]
      PROVE  disk'[m][p] # None /\ Made(p)' /\ \E q \in Runs : Machine[q] = m /\ p \in Near(q)'
  <2>1. DiskAt(a, p) BY <1>0 DEF DiskStep
  <2>2. CASE Same(disk[m], disk'[m], p)
    BY <1>0, <1>1, <1>2, <2>2, Grows DEF Stock, Same
  <2>3. CASE p \in Near(a)' /\ p \in DOMAIN bucket /\ disk'[m][p] = bucket[p]
    BY <1>0, <1>1, <2>3 DEF Stock
  <2>4. CASE p \in run'[a].wrote /\ disk'[m][p] # None
    <3>1. p \in Near(a)' /\ MadeBy(a, p)' BY <2>4, TouchedNear
    <3> QED BY <2>4, <3>1
  <2>5. CASE MadeBy(a, p)' /\ disk'[m][p] # None
    <3>1. p \in Near(a)' BY <2>5, TouchedNear
    <3> QED BY <2>5, <3>1
  <2> QED BY <1>2, <2>1, <2>2, <2>3, <2>4, <2>5 DEF DiskAt
<1>3. ASSUME NEW p PROVE BucketAt(a, p) BY <1>0 DEF BucketStep
<1>4. ASSUME NEW p \in DOMAIN bucket' PROVE bucket'[p] # None /\ Made(p)'
  <2>1. CASE Same(bucket, bucket', p) BY <1>1, <1>4, <2>1 DEF Stock, Same
  <2>2. CASE p \in DOMAIN disk'[m] /\ bucket'[p] = disk'[m][p] BY <1>2, <2>2
  <2> QED BY <1>3, <2>1, <2>2 DEF BucketAt
<1>5. ASSUME NEW p \in DOMAIN bucket PROVE p \in DOMAIN bucket'
  BY <1>3, <1>5 DEF BucketAt, Same
<1>6. ASSUME NEW p \in DOMAIN memo'[m]
      PROVE  p \in DOMAIN bucket' /\ \E q \in Runs : Machine[q] = m /\ p \in Near(q)'
  <2>1. CASE Same(memo[m], memo'[m], p)
    BY <1>0, <1>5, <1>6, <2>1, Grows DEF Stock, Same
  <2>2. CASE p \in Near(a)' /\ p \in DOMAIN bucket' BY <2>2
  <2> QED BY <1>3, <2>1, <2>2 DEF BucketAt
<1>7. ASSUME NEW k \in Machines \ {m}
      PROVE  /\ \A p \in DOMAIN disk'[k] : disk'[k][p] # None /\ Made(p)'
             /\ DOMAIN memo'[k] \subseteq DOMAIN bucket'
             /\ \A p \in DOMAIN disk'[k] \cup DOMAIN memo'[k] :
                   \E q \in Runs : Machine[q] = k /\ p \in Near(q)'
  <2>1. disk'[k] = disk[k] /\ memo'[k] = memo[k] BY <1>0 DEF DiskStep, BucketStep
  <2> HIDE DEF m
  <2>2. \A p \in DOMAIN disk[k] : disk[k][p] # None /\ Made(p) BY DEF Stock
  <2>3. DOMAIN memo[k] \subseteq DOMAIN bucket BY DEF Stock
  <2>4. \A p \in DOMAIN disk[k] \cup DOMAIN memo[k] :
           \E q \in Runs : Machine[q] = k /\ p \in Near(q)
    BY DEF Stock
  <2>5. \A p \in DOMAIN disk[k] \cup DOMAIN memo[k] :
           \E q \in Runs : Machine[q] = k /\ p \in Near(q)'
    BY <1>0, <2>4, Grows
  <2> QED BY <1>1, <1>5, <2>1, <2>2, <2>3, <2>5
<1>8. DOMAIN memo' = Machines BY <1>0 DEF BucketStep
<1> QED BY <1>2, <1>4, <1>6, <1>7, <1>8 DEF Stock

\* What a step has pushed is what it has on the disk.
LEMMA CopiesStay ==
    ASSUME NEW a \in Runs, DiskStep(a), BucketStep(a), NEW p, NEW c, Copies(p, c),
           p \in DOMAIN disk'[Machine[a]] => disk'[Machine[a]][p] = c
    PROVE  Copies(p, c)'
<1> DEFINE m == Machine[a]
<1>1. m \in Machines /\ BucketAt(a, p) BY DEF Machines, BucketStep
<1>2. p \in DOMAIN bucket' => bucket'[p] = c BY <1>1 DEF BucketAt, Same, Copies
<1>3. p \in DOMAIN memo'[m] => memo'[m][p] = c BY <1>1 DEF BucketAt, Same, Copies
<1>4. \A k \in Machines \ {m} : disk'[k] = disk[k] /\ memo'[k] = memo[k]
  BY DEF DiskStep, BucketStep
<1> QED BY <1>2, <1>3, <1>4 DEF Copies

\* Where a run moves a file to there is none, if the folder is its own and nobody
\* has written there.
LEMMA NothingThere ==
    ASSUME FoldersInv, World, NEW a \in Runs, run[a].pc = "move", Pristine(run[a].dst),
           NEW c
    PROVE  Copies(run[a].dst, c)
<1> DEFINE p == run[a].dst
<1>1. ASSUME NEW q \in Runs PROVE Begun(q) /\ Ended(q)
  BY DEF World, RunShape
<1>2. /\ p.dir = run[a].out /\ p.dir \in RunFolders /\ Settled(a)
      /\ \A j \in DOMAIN run[a].result : Place(a, j) # Source(a, j) => Place(a, j) # p
  <2>1. Begun(a) /\ Promises(a) /\ Aimed(a) BY DEF World, RunShape
  <2>2. Settled(a) /\ run[a].out \in RunFolders BY <1>1, TouchesSettled DEF Ending
  <2> QED BY <2>1, <2>2 DEF Promises, Aimed, Filing
<1>3. ~ SharesFolder(a) BY <1>2 DEF Pristine
<1>4. p \notin Uploads BY <1>2, PathConstants
<1>5. ASSUME NEW q \in Runs, MadeBy(q, p) PROVE FALSE
  <2>1. p \notin run[q].wrote BY DEF Pristine
  <2>2. PICK j \in DOMAIN run[q].result : p = Place(q, j) /\ p # Source(q, j)
    BY <1>5, <2>1 DEF MadeBy
  <2>3. q # a BY <1>2, <2>2
  <2>4. p \in Touched(q) BY <1>5, TouchedNear
  <2>5. Settled(q) BY <1>1, <2>4, TouchesSettled
  <2>6. run[q].pc \in Ending
    <3>1. run[q].result # <<>> BY <2>2
    <3> QED BY <1>1, <3>1 DEF Begun
  <2>7. ValueOf(q, j) BY <1>1, <2>2, <2>6 DEF Ended
  <2>8. p.dir = run[q].out BY <2>2, <2>7 DEF ValueOf
  <2> QED BY <1>2, <1>3, <2>3, <2>5, <2>8, SameFolder
<1> HIDE DEF p
<1>6. p \notin DOMAIN bucket BY <1>4, <1>5 DEF World, Stock
<1>7. \A k \in Machines : p \notin DOMAIN disk[k] /\ p \notin DOMAIN memo[k]
  BY <1>4, <1>5, <1>6 DEF World, Stock
<1> QED BY <1>6, <1>7 DEF Copies, p

LEMMA OneCopyStays ==
    ASSUME FoldersInv, World, NEW a \in Runs, Step(a)
    PROVE  OneCopy'
<1> SUFFICES ASSUME NEW p, Pristine(p)' PROVE \E c : Copies(p, c)'
  BY DEF OneCopy
<1> DEFINE m == Machine[a]
           g == disk'[m]
<1>0. DiskStep(a) /\ BucketStep(a) /\ RunStep(a) BY DEF Step
<1>1. Pristine(p) BY <1>0, OthersGrow
<1>2. PICK c : Copies(p, c) BY <1>1 DEF World, OneCopy
<1>3. DiskAt(a, p) /\ m \in Machines BY <1>0 DEF DiskStep, Machines
<1>4. CASE run[a].pc = "move" /\ p = run[a].dst
  <2>1. PICK d : d = g[p] OBVIOUS
  <2>2. Copies(p, d) BY <1>1, <1>4, NothingThere
  <2>3. Copies(p, d)' BY <1>0, <2>1, <2>2, CopiesStay
  <2> QED BY <2>3
<1>5. CASE ~ (run[a].pc = "move" /\ p = run[a].dst)
  <2>1. p \notin run'[a].wrote BY DEF Pristine
  <2>2. p \in DOMAIN g => g[p] = c
    BY <1>2, <1>3, <1>5, <2>1 DEF DiskAt, Same, Copies
  <2> QED BY <1>0, <1>2, <2>2, CopiesStay
<1> QED BY <1>4, <1>5

LEMMA PushedHereStays ==
    ASSUME World, NEW a \in Runs, Step(a)
    PROVE  PushedHere'
<1> DEFINE m == Machine[a]
<1>0. DiskStep(a) /\ BucketStep(a) /\ RunStep(a) BY DEF Step
<1> SUFFICES ASSUME NEW k \in Machines, NEW p \in DOMAIN memo'[k],
                    \A q \in Runs : Machine[q] # k => p \notin Near(q)'
             PROVE  bucket'[p] = memo'[k][p]
  BY DEF PushedHere
<1>1. BucketAt(a, p) BY <1>0 DEF BucketStep
<1>2. \A q \in Runs : Machine[q] # k => p \notin Near(q) BY <1>0, Grows
<1>3. CASE p \in Near(a)' /\ bucket'[p] = memo'[m][p] BY <1>3
<1>4. CASE Same(bucket, bucket', p) /\ Same(memo[m], memo'[m], p)
  <2>1. p \in DOMAIN memo[k] /\ memo'[k][p] = memo[k][p]
    <3>1. CASE k = m BY <1>4, <3>1 DEF Same
    <3>2. CASE k # m BY <1>0, <3>2 DEF BucketStep
    <3> QED BY <3>1, <3>2
  <2>2. bucket[p] = memo[k][p] BY <1>2, <2>1 DEF World, PushedHere
  <2>3. p \in DOMAIN bucket BY <2>1 DEF World, Stock
  <2> QED BY <1>4, <2>1, <2>2, <2>3 DEF Same
<1> QED BY <1>1, <1>3, <1>4 DEF BucketAt

LEMMA WorldStays ==
    ASSUME FoldersInv, DOMAIN disk = Machines, World, NEW a \in Runs, Step(a)
    PROVE  World'
<1>0. DiskStep(a) /\ BucketStep(a) /\ RunStep(a) BY DEF Step
<1>1. ASSUME NEW q \in Runs PROVE RunShape(q)' /\ Origins(q)' /\ Written(q)'
  <2>1. CASE q = a BY <1>0, <2>1 DEF RunStep
  <2>2. CASE q # a
    <3>1. run'[q] = run[q] BY <1>0, <2>2 DEF RunStep
    <3>2. RunShape(q) /\ Origins(q) /\ Written(q) BY DEF World
    <3>3. RunShape(q)'
      BY <3>1, <3>2 DEF RunShape, Begun, Ended, ValueOf, Promises, Aimed, Place, Source,
         LeftAlone, Known, ValueAt
    <3>4. Origins(q)'
      BY <1>0, <2>2, <3>1, <3>2, OriginStays DEF Origins, Source
    <3>5. Written(q)' BY <1>0, <2>2, <3>2, WrittenStays
    <3> QED BY <3>3, <3>4, <3>5
  <2> QED BY <2>1, <2>2
<1>2. Stock' BY StockStays DEF World
<1>3. OneCopy' BY OneCopyStays
<1>4. PushedHere' BY PushedHereStays
<1> QED BY <1>1, <1>2, <1>3, <1>4 DEF World

-----------------------------------------------------------------------------
(* What is handed over: from the deliverable to the bucket.                *)

\* A value whose file is out of the run's hands.
Lost(r, j) ==
    \/ SharesFolder(r) \/ run[r].meant[j] = None
    \/ Source(r, j) \in run[r].failed \/ Source(r, j).dir = Root
    \/ \E v \in ToSet(run[r].deliverable) :
          v.path = Source(r, j) /\ v.form # run[r].deliverable[j].form
    \/ Elsewhere(r, Source(r, j))

Holding(r, p, c) == p \in DOMAIN disk[Machine[r]] /\ disk[Machine[r]][p] = c

\* A value not filed yet: its file is where it was, or where the filing of an
\* earlier value took it ...
Kept(r, j) ==
    IF run[r].result[j].form = "string" /\ Source(r, j) \in DOMAIN run[r].moved
    THEN \E p : /\ p = run[r].moved[Source(r, j)]
                /\ Busy(r, p) \/ (p \notin run[r].wrote /\ Holding(r, p, run[r].meant[j]))
    ELSE /\ Holding(r, Source(r, j), run[r].meant[j])
         /\ run[r].pc = "move" => run[r].dst # Source(r, j)

\* ... one that is filed: its file is where the result says, which is where it was
\* only if it could stay there ...
Filed(r, j) ==
    \/ Busy(r, Place(r, j))
    \/ /\ run[r].pc # "done" => Holding(r, Place(r, j), run[r].meant[j])
       /\ run[r].pc = "move" => run[r].dst # Place(r, j)
       /\ Place(r, j) = Source(r, j) =>
             run[r].result[j].form # "string" \/ Place(r, j).dir = run[r].out
       /\ Place(r, j) # Source(r, j) => Place(r, j) \notin run[r].wrote

\* ... one that is pushed, and one that is listed.
Served(r, j) ==
    \/ Busy(r, Place(r, j)) \/ Place(r, j) \in run[r].failed
    \/ Place(r, j) \in DOMAIN bucket /\ bucket[Place(r, j)] = run[r].meant[j]

Listed(r, j) ==
    \/ Busy(r, Place(r, j)) \/ run[r].result[j].form # "string"
    \/ Place(r, j) \in run[r].manifest

Follows(r, j) ==
    \/ Lost(r, j)
    \/ /\ Source(r, j) \in Uploads \cup run[r].wrote
       /\ run[r].pc \in Filing /\ j >= run[r].i => Kept(r, j)
       /\ run[r].pc \in {"sync", "done"} \/ j < run[r].i => Filed(r, j)
       /\ run[r].pc = "done" \/ (run[r].pc = "sync" /\ j < run[r].i) => Served(r, j)
       /\ run[r].pc = "done" => Listed(r, j)

FollowsAll(r) == run[r].pc \in Ending => \A j \in DOMAIN run[r].result : Follows(r, j)

\* Where a run moves a file to it has not written, or others may write there too.
ClearDst(r) ==
    run[r].pc = "move" =>
        run[r].dst \notin run[r].wrote \/ SharesFolder(r) \/ Busy(r, run[r].dst)

\* A file that is not lost and that the run did not write has one copy.
LEMMA PlacePristine ==
    ASSUME FoldersInv, World, NEW r \in Runs, run[r].pc \in Ending,
           NEW j \in DOMAIN run[r].result, ~ Lost(r, j), ~ Busy(r, Place(r, j)),
           Source(r, j) \in Uploads \cup run[r].wrote, Place(r, j) \notin run[r].wrote
    PROVE  Pristine(Place(r, j))
<1> DEFINE p == Place(r, j)
<1>0. Begun(r) /\ Ended(r) /\ ValueOf(r, j) BY DEF World, RunShape, Ended
<1>1. Settled(r) /\ run[r].out \in RunFolders BY <1>0, TouchesSettled
<1>2. ~ SharesFolder(r) /\ ~ Elsewhere(r, Source(r, j)) BY DEF Lost
<1>3. CASE p = Source(r, j)
  <2>1. \A q \in Runs : p \notin run[q].wrote
    BY <1>2, <1>3, TouchedNear DEF Elsewhere
  <2>2. p.dir \notin RunFolders BY <1>3, PathConstants
  <2>3. \A q \in Runs : Settled(q) => run[q].out # p.dir
    BY <2>2 DEF World, RunShape, Begun, Settled
  <2> QED BY <2>1, <2>3 DEF Pristine
<1>4. CASE p # Source(r, j)
  <2>1. p.dir = run[r].out BY <1>0, <1>4 DEF ValueOf
  <2>2. \A q \in Runs : p \notin run[q].wrote
    BY <1>2, <2>1, FolderWritten
  <2>3. \A q \in Runs : Settled(q) /\ run[q].out = p.dir => q = r
    BY <1>1, <1>2, <2>1, SameFolder
  <2> QED BY <1>2, <2>2, <2>3 DEF Pristine
<1> QED BY <1>3, <1>4

\* What another run does to a file that is in the hands of r.
LEMMA OthersDisk ==
    ASSUME NEW a \in Runs, DiskStep(a), RunStep(a), NEW r \in Runs \ {a},
           NEW p, NEW c, Holding(r, p, c), ~ Elsewhere(r, p)'
    PROVE  Holding(r, p, c)'
<1>1. p \notin Touched(a)' BY OthersGrow
<1>2. p \notin run'[a].wrote /\ ~ MadeBy(a, p)' BY <1>1, TouchedNear
<1>3. Machine[r] \in Machines BY DEF Machines
<1>4. CASE Machine[r] # Machine[a] BY <1>3, <1>4 DEF DiskStep, Holding
<1>5. CASE Machine[r] = Machine[a]
  <2>1. DiskAt(a, p) BY DEF DiskStep
  <2> QED BY <1>1, <1>2, <1>5, <2>1 DEF DiskAt, Same, Holding
<1> QED BY <1>4, <1>5

\* A file in r's folder, likewise, unless others have a say in it.
LEMMA OthersFolder ==
    ASSUME FoldersInv', World', NEW a \in Runs, DiskStep(a), RunStep(a), NEW r \in Runs \ {a},
           run[r].pc \in Ending, run[r].pc # "done", ~ SharesFolder(r)',
           NEW p, p.dir = run[r].out, ~ Busy(r, p)', NEW c, Holding(r, p, c)
    PROVE  Holding(r, p, c)'
<1>1. run'[r] = run[r] BY DEF RunStep
<1>2. ~ Elsewhere(r, p)'
  <2>1. FoldersTouched' BY FoldersAreTouched, PTL
  <2> QED BY <1>1, <2>1 DEF FoldersTouched
<1> QED BY <1>2, OthersDisk
-----------------------------------------------------------------------------
PlacesPristine ==
    \A r \in Runs : run[r].pc \in Ending => \A j \in DOMAIN run[r].result :
        /\ ~ Lost(r, j) /\ ~ Busy(r, Place(r, j))
        /\ Source(r, j) \in Uploads \cup run[r].wrote /\ Place(r, j) \notin run[r].wrote
        => Pristine(Place(r, j))

LEMMA PlacesArePristine == FoldersInv /\ World => PlacesPristine
BY PlacePristine DEF PlacesPristine

\* What another run pushes over a file that r has handed over is that file.
LEMMA OthersPush ==
    ASSUME FoldersInv, FoldersInv', World, World', NEW a \in Runs, Step(a),
           NEW r \in Runs \ {a}, run[r].pc \in Ending, NEW j \in DOMAIN run[r].result,
           ~ Lost(r, j)', ~ Busy(r, Place(r, j))', Source(r, j) \in Uploads \cup run[r].wrote,
           Filed(r, j), Place(r, j) \in DOMAIN bucket
    PROVE  Place(r, j) \in DOMAIN bucket' /\ bucket'[Place(r, j)] = bucket[Place(r, j)]
<1> DEFINE m == Machine[a]
           g == disk'[m]
<1>0. DiskStep(a) /\ BucketStep(a) /\ RunStep(a) BY DEF Step
<1>1. run'[r] = run[r] BY <1>0 DEF RunStep
<1>a. PICK p, s : p = Place(r, j) /\ s = Source(r, j) OBVIOUS
<1>2. Place(r, j)' = p /\ Source(r, j)' = s BY <1>1, <1>a DEF Place, Source
<1>3. ~ Busy(r, p) /\ ~ Busy(r, p)' BY <1>0, <1>2, OthersGrow DEF Busy
<1>4. DiskAt(a, p) /\ BucketAt(a, p) /\ m \in Machines
  BY <1>0 DEF DiskStep, BucketStep, Machines
<1>5. ~ Elsewhere(r, s)' BY <1>2 DEF Lost, Elsewhere
<1>6. CASE Same(bucket, bucket', p) BY <1>6, <1>a DEF Same
<1>7. CASE p \in Near(a)' /\ p \in DOMAIN g /\ p \in DOMAIN bucket' /\ bucket'[p] = g[p]
  <2>1. CASE p \in run[r].wrote
    <3>1. p = s BY <1>3, <1>a, <2>1 DEF Filed
    <3>2. p \in Touched(a)' \/ p \in Paths(Inputs[a]) BY <1>7 DEF Near
    <3>3. p \notin Touched(a)' BY <1>5, <3>1 DEF Elsewhere
    <3>4. p \notin Paths(Inputs[a]) BY <1>1, <1>3, <2>1 DEF Busy
    <3> QED BY <3>2, <3>3, <3>4
  <2>2. CASE p \notin run[r].wrote
    <3>1. PlacesPristine' BY PlacesArePristine, PTL
    <3>2. Pristine(p)'
      <4>1. Pristine(Place(r, j))' BY <1>1, <1>2, <1>3, <1>a, <2>2, <3>1 DEF PlacesPristine, Busy
      <4> QED BY <1>2, <4>1 DEF Pristine
    <3>3. Pristine(p) BY <1>0, <3>2, OthersGrow
    <3>4. PICK c : Copies(p, c) BY <3>3 DEF World, OneCopy
    <3>5. p \notin run'[a].wrote BY <3>2 DEF Pristine
    <3>6. CASE run[a].pc = "move" /\ p = run[a].dst
      <4>1. PICK d : d = g[p] OBVIOUS
      <4>2. Copies(p, d) BY <3>3, <3>6, NothingThere
      <4> QED BY <1>7, <1>a, <4>1, <4>2 DEF Copies
    <3>7. CASE ~ (run[a].pc = "move" /\ p = run[a].dst)
      <4>1. g[p] = bucket[p]
        BY <1>4, <1>7, <1>a, <3>4, <3>5, <3>7 DEF DiskAt, Same, Copies
      <4> QED BY <1>7, <1>a, <4>1
    <3> QED BY <3>6, <3>7
  <2> QED BY <2>1, <2>2
<1> QED BY <1>4, <1>6, <1>7, <1>a DEF BucketAt

LEMMA OthersFollow ==
    ASSUME FoldersInv, FoldersInv', World, World', NEW a \in Runs, Step(a),
           NEW r \in Runs \ {a}, FollowsAll(r), ClearDst(r)
    PROVE  FollowsAll(r)' /\ ClearDst(r)'
<1>0. DiskStep(a) /\ RunStep(a) BY DEF Step
<1>1. run'[r] = run[r] BY <1>0 DEF RunStep
<1>2. Begun(r) /\ Ended(r) /\ Promises(r) /\ Aimed(r) BY DEF World, RunShape
<1>3. run[r].pc \in Ending => Settled(r) BY <1>2, TouchesSettled
<1>4. ClearDst(r)'
  BY <1>0, <1>1, <1>3, SharesGrows, OthersGrow DEF ClearDst, Ending
<1>5. ASSUME run[r].pc \in Ending, NEW j \in DOMAIN run[r].result, ~ Lost(r, j)'
      PROVE  Follows(r, j)'
  <2>a. PICK p, s, c : p = Place(r, j) /\ s = Source(r, j) /\ c = run[r].meant[j]
    OBVIOUS
  <2>1. /\ Place(r, j)' = p /\ Source(r, j)' = s
        /\ \A x : Busy(r, x) => Busy(r, x)'
    BY <1>0, <1>1, <2>a, OthersGrow DEF Place, Source
  <2>2. ~ Elsewhere(r, s)' /\ ~ SharesFolder(r)' BY <2>1, <1>5 DEF Lost, Elsewhere
  <2>3. ~ Lost(r, j)
    <3>1. ~ SharesFolder(r) BY <1>0, <1>3, <1>5, <2>2, SharesGrows
    <3>2. ~ Elsewhere(r, s) BY <1>0, <2>2, OthersGrow
    <3> QED BY <1>1, <1>5, <2>1, <2>a, <3>1, <3>2 DEF Lost
  <2>4. /\ s \in Uploads \cup run[r].wrote
        /\ run[r].pc \in Filing /\ j >= run[r].i => Kept(r, j)
        /\ run[r].pc \in {"sync", "done"} \/ j < run[r].i => Filed(r, j)
        /\ run[r].pc = "done" \/ (run[r].pc = "sync" /\ j < run[r].i) => Served(r, j)
        /\ run[r].pc = "done" => Listed(r, j)
    BY <1>5, <2>3, <2>a DEF FollowsAll, Follows
  <2>5. ValueOf(r, j) BY <1>2, <1>5 DEF Ended
  <2>6. ASSUME run[r].pc \in Filing, j >= run[r].i PROVE Kept(r, j)'
    <3>1. Kept(r, j) BY <2>4, <2>6
    <3>2. CASE run[r].result[j].form = "string" /\ s \in DOMAIN run[r].moved
      <4>1. PICK x : /\ x = run[r].moved[s]
                     /\ Busy(r, x) \/ (x \notin run[r].wrote /\ Holding(r, x, c))
        BY <3>1, <3>2, <2>a DEF Kept
      <4>2. x.dir = run[r].out BY <1>2, <2>6, <3>2, <4>1, <2>a DEF Promises
      <4>3. Busy(r, x)' \/ (x \notin run[r].wrote /\ Holding(r, x, c)')
        BY <1>0, <1>5, <2>1, <2>2, <2>6, <4>1, <4>2, OthersFolder DEF Filing
      <4> QED BY <1>1, <2>1, <3>2, <4>1, <4>3, <2>a DEF Kept, Holding
    <3>3. CASE ~ (run[r].result[j].form = "string" /\ s \in DOMAIN run[r].moved)
      <4>1. Holding(r, s, c) /\ (run[r].pc = "move" => run[r].dst # s)
        BY <3>1, <3>3, <2>a DEF Kept
      <4>2. Holding(r, s, c)' BY <1>0, <2>2, <4>1, OthersDisk
      <4> QED BY <1>1, <2>1, <3>3, <4>1, <4>2, <2>a DEF Kept, Holding
    <3> QED BY <3>2, <3>3
  <2>7. ASSUME Filed(r, j) PROVE Filed(r, j)'
    <3> SUFFICES ASSUME ~ Busy(r, p)' PROVE Filed(r, j)' BY <2>1, <2>a DEF Filed
    <3>1. ~ Busy(r, p) BY <2>1, <2>a
    <3>2. run[r].pc # "done" => Holding(r, p, c)'
      <4>1. SUFFICES ASSUME run[r].pc # "done" PROVE Holding(r, p, c)' OBVIOUS
      <4>2. Holding(r, p, c) BY <2>7, <3>1, <4>1, <2>a DEF Filed
      <4>3. CASE p = s BY <1>0, <2>2, <4>2, <4>3, OthersDisk
      <4>4. CASE p # s
        <5>1. p.dir = run[r].out BY <2>5, <4>4, <2>a DEF ValueOf
        <5> QED BY <1>0, <1>5, <2>2, <4>1, <4>2, <5>1, OthersFolder
      <4> QED BY <4>3, <4>4
    <3> QED BY <1>1, <2>1, <2>7, <3>1, <3>2, <2>a DEF Filed, Holding
  <2>8. ASSUME Served(r, j), Filed(r, j) PROVE Served(r, j)'
    <3> SUFFICES ASSUME ~ Busy(r, p)', p \notin run[r].failed PROVE Served(r, j)'
      BY <1>1, <2>1, <2>a DEF Served
    <3>1. p \in DOMAIN bucket /\ bucket[p] = c BY <2>1, <2>8, <2>a DEF Served
    <3>2. p \in DOMAIN bucket' /\ bucket'[p] = bucket[p]
      BY <1>5, <2>1, <2>4, <2>8, <3>1, <2>a, OthersPush
    <3> QED BY <1>1, <2>1, <3>1, <3>2, <2>a DEF Served
  <2>9. Listed(r, j) => Listed(r, j)' BY <1>1, <2>1, <2>a DEF Listed
  <2> QED BY <1>1, <2>1, <2>4, <2>6, <2>7, <2>8, <2>9, <2>a DEF Follows
<1>6. ASSUME run[r].pc \in Ending, NEW j \in DOMAIN run[r].result PROVE Follows(r, j)'
  <2>1. CASE Lost(r, j)' BY <2>1 DEF Follows
  <2>2. CASE ~ Lost(r, j)' BY <1>5, <1>6, <2>2
  <2> QED BY <2>1, <2>2
<1> QED BY <1>1, <1>4, <1>6 DEF FollowsAll

-----------------------------------------------------------------------------
(* The steps of a run, before it works and while it does.                  *)

\* A run that prepares has nothing yet but its folder.
Prepares(r) ==
    /\ \A q \in Runs \ {r} : run'[q] = run[q]
    /\ run[r].pc \in Starting \ {"work", "failed"} /\ run'[r].pc \in Starting
    /\ run'[r].wrote = run[r].wrote /\ run'[r].count = run[r].count
    /\ run'[r].deliverable = run[r].deliverable /\ run'[r].result = run[r].result
    /\ run'[r].i = run[r].i /\ run'[r].moved = run[r].moved /\ run'[r].used = run[r].used
    /\ run'[r].out = run[r].out \/ (run[r].out = None /\ run'[r].out \in RunFolders)
    /\ run'[r].pc \in Early \cup {"failed"} \/ run'[r].out \in RunFolders

SetsPlace(r, place, out, failed) ==
    run' = [run EXCEPT ![r] = [run[r] EXCEPT !.pc = place, !.out = out, !.failed = failed]]

LEMMA PrepareFields ==
    ASSUME FoldersInv, NEW r \in Runs, run[r].pc \in Starting \ {"work", "failed"},
           NEW place \in Starting, NEW out, NEW failed,
           SetsPlace(r, place, out, failed),
           out = run[r].out \/ (run[r].out = None /\ out \in RunFolders),
           place \in Early \cup {"failed"} \/ out \in RunFolders
    PROVE  Prepares(r)
<1>0. IsRun(run[r]) /\ DOMAIN run = Runs BY DEF FoldersInv, Shapes
<1>1. /\ run'[r] = [run[r] EXCEPT !.pc = place, !.out = out, !.failed = failed]
      /\ \A q \in Runs \ {r} : run'[q] = run[q]
  BY <1>0 DEF SetsPlace
<1>2. /\ run'[r].pc = place /\ run'[r].out = out
      /\ run'[r].wrote = run[r].wrote /\ run'[r].count = run[r].count
      /\ run'[r].deliverable = run[r].deliverable /\ run'[r].result = run[r].result
      /\ run'[r].i = run[r].i /\ run'[r].moved = run[r].moved /\ run'[r].used = run[r].used
  BY <1>0, <1>1 DEF IsRun
<1> QED BY <1>1, <1>2 DEF Prepares

LEMMA PrepareRun ==
    ASSUME IsFiniteSet(Runs), FoldersInv, World, NEW r \in Runs,
           EnsureInputs(r) \/ Preflight(r) \/ Reserve(r) \/ Stage(r)
    PROVE  Prepares(r)
<1>0. IsRun(run[r]) /\ DOMAIN run = Runs /\ FolderOf(r) /\ Begun(r)
  BY DEF FoldersInv, Shapes, World, RunShape
<1>1. CASE EnsureInputs(r)
  <2>1. run[r].pc = "inputs" /\ run' = [run EXCEPT ![r].pc = "preflight"]
    BY <1>1 DEF EnsureInputs
  <2>2. SetsPlace(r, "preflight", run[r].out, run[r].failed) BY <1>0, <2>1 DEF IsRun, SetsPlace
  <2> QED BY <2>1, <2>2, PrepareFields DEF Starting, Early
<1>2. CASE Preflight(r)
  <2>1. PICK lost, place : /\ run[r].pc = "preflight" /\ place \in {"failed", "reserve"}
                           /\ run' = [run EXCEPT ![r].failed = lost, ![r].pc = place]
    BY <1>2 DEF Preflight
  <2>2. SetsPlace(r, place, run[r].out, lost) BY <1>0, <2>1 DEF IsRun, SetsPlace
  <2> QED BY <2>1, <2>2, PrepareFields DEF Starting, Early
<1>3. CASE Reserve(r)
  <2> DEFINE dir == <<Base[r], Free(Machine[r], Base[r])>>
  <2>1. PICK place \in {"stage", "work"} :
            run[r].pc = "reserve" /\ run' = [run EXCEPT ![r].out = dir, ![r].pc = place]
    BY <1>3 DEF Reserve
  <2>2. dir \in RunFolders BY <2>1, FreeIsFree DEF RunFolders
  <2>3. run[r].out = None BY <1>0, <2>1 DEF FolderOf, Early
  <2> HIDE DEF dir
  <2>4. SetsPlace(r, place, dir, run[r].failed) BY <1>0, <2>1 DEF IsRun, SetsPlace
  <2> QED BY <2>1, <2>2, <2>3, <2>4, PrepareFields DEF Starting
<1>5. CASE Stage(r)
  <2>1. PICK place \in {"failed", "work"} :
            run[r].pc = "stage" /\ run' = [run EXCEPT ![r].pc = place]
    BY <1>5 DEF Stage
  <2>2. SetsPlace(r, place, run[r].out, run[r].failed) BY <1>0, <2>1 DEF IsRun, SetsPlace
  <2>3. run[r].out \in RunFolders BY <1>0, <2>1 DEF Begun, Early
  <2> QED BY <2>1, <2>2, <2>3, PrepareFields DEF Starting
<1> QED BY <1>1, <1>2, <1>3, <1>5

LEMMA PrepareRunStep ==
    ASSUME World, NEW r \in Runs, Prepares(r)
    PROVE  RunStep(r)
<1>0. Begun(r) /\ run[r].pc \notin Ending \cup {"work"}
  BY DEF World, RunShape, Prepares, Starting, Ending
<1>1. run'[r].pc \notin Ending BY DEF Prepares, Starting, Ending
<1>2. run[r].wrote = {} /\ run[r].deliverable = <<>> BY <1>0 DEF Begun, Prepares
<1>3. Begun(r)' BY <1>0, <1>2 DEF Begun, Prepares
<1>4. RunShape(r)' BY <1>1, <1>3 DEF RunShape, Ended, Promises, Aimed, Filing, Ending
<1>5. Origins(r)' /\ Written(r)' BY <1>2 DEF Prepares, Origins, Written
<1>6. /\ Touched(r)' = Touched(r) /\ (Settled(r) => Settled(r)')
      /\ \A p : MadeBy(r, p) => MadeBy(r, p)'
  <2>1. Touched(r)' = Touched(r) BY DEF Prepares, Touched
  <2>2. Settled(r) => Settled(r)' BY DEF Prepares, Settled
  <2>3. \A p : MadeBy(r, p) => MadeBy(r, p)' BY DEF Prepares, MadeBy, Place, Source
  <2> QED BY <2>1, <2>2, <2>3
<1> QED BY <1>0, <1>4, <1>5, <1>6 DEF RunStep, Prepares, Ending

LEMMA PrepareStep ==
    ASSUME IsFiniteSet(Runs), FoldersInv, DOMAIN disk = Machines, World, NEW r \in Runs,
           EnsureInputs(r) \/ Preflight(r) \/ Reserve(r) \/ Stage(r)
    PROVE  Step(r) /\ FollowsAll(r)' /\ ClearDst(r)'
<1> DEFINE m == Machine[r]
           named == Paths(Inputs[r])
           pulled(ps) == PulledFrom(m, ps)
<1>0. m \in Machines /\ DOMAIN memo = Machines BY DEF Machines, World, Stock
<1>1. Prepares(r) BY PrepareRun
<1>2. RunStep(r) BY <1>1, PrepareRunStep
<1>3. run'[r].pc \notin Ending BY <1>1 DEF Prepares, Starting, Ending
<1> SUFFICES Step(r) BY <1>3 DEF FollowsAll, ClearDst, Ending
<1>4. named \subseteq Near(r)' BY DEF Near
<1>5. CASE EnsureInputs(r)
  <2>1. PICK ps \in SUBSET named : disk' = [disk EXCEPT ![m] = pulled(ps)]
    BY <1>5 DEF EnsureInputs, Candidates, Paths
  <2>2. ps \subseteq Near(r)' BY <1>4
  <2>3. UNCHANGED <<bucket, memo>> BY <1>5 DEF EnsureInputs
  <2> QED BY <1>0, <1>2, <2>1, <2>2, <2>3, PullStep, BucketStays DEF Step
<1>6. CASE Preflight(r)
  <2>1. PICK ps \in SUBSET named : disk' = [disk EXCEPT ![m] = pulled(ps)]
    BY <1>6 DEF Preflight, ReadablePaths
  <2>2. ps \subseteq Near(r)' BY <1>4
  <2>3. UNCHANGED <<bucket, memo>> BY <1>6 DEF Preflight
  <2> QED BY <1>0, <1>2, <2>1, <2>2, <2>3, PullStep, BucketStays DEF Step
<1>7. CASE UNCHANGED <<disk, bucket, memo>>
  BY <1>0, <1>2, <1>7, DiskStays, BucketStays DEF Step
<1>8. CASE Stage(r)
  <2>1. PICK some \in SUBSET named, staged \in SUBSET named :
            disk' = [disk EXCEPT ![m] = pulled(some)] /\ Pushed(m, pulled(some), staged)
    BY <1>8 DEF Stage
  <2>2. disk'[m] = pulled(some) BY <1>0, <2>1
  <2> HIDE DEF pulled
  <2>3. Pushed(m, disk'[m], staged) BY <2>1, <2>2
  <2>4. some \subseteq Near(r)' /\ staged \subseteq Near(r)' BY <1>4
  <2>5. BucketStep(r) BY <1>0, <2>3, <2>4, PushesStep
  <2> QED BY <1>2, <2>1, <2>4, <2>5, PullStep DEF Step, pulled
<1> QED BY <1>5, <1>6, <1>7, <1>8 DEF Reserve

-----------------------------------------------------------------------------
\* What a run has written stays where it is.
LEMMA WrittenKept ==
    ASSUME NEW r \in Runs, \A q \in Runs \ {r} : run'[q] = run[q], Written(r),
           run'[r].wrote \subseteq run[r].wrote \cup DOMAIN disk'[Machine[r]],
           run[r].pc \in {"work"} \cup Filing, run'[r].out = run[r].out,
           run'[r].pc = "work" => run[r].pc = "work",
           \A p \in DOMAIN disk[Machine[r]] :
              \/ p \in DOMAIN disk'[Machine[r]]
              \/ run'[r].pc # "work" /\ p.dir # run[r].out
    PROVE  Written(r)'
<1> SUFFICES ASSUME NEW p \in run'[r].wrote,
                    run'[r].pc = "work" \/ (run'[r].pc \in Filing /\ p.dir = run'[r].out)
             PROVE  p \in DOMAIN disk'[Machine[r]] \/ Elsewhere(r, p)'
  BY DEF Written
<1>1. Elsewhere(r, p) => Elsewhere(r, p)' BY DEF Elsewhere, Touched
<1>2. CASE p \in run[r].wrote
  <2>1. p \in DOMAIN disk[Machine[r]] \/ Elsewhere(r, p)
    BY <1>2 DEF Written, Filing
  <2> QED BY <1>1, <2>1
<1>3. CASE p \notin run[r].wrote BY <1>3
<1> QED BY <1>2, <1>3

\* A path a run at work may write.
MayWrite(r, p) == IsPath(p) /\ (p.dir \in Work \cup {run[r].out} \/ p \in Paths(Inputs[r]))

LEMMA NewPath == ASSUME NEW dir, NEW name PROVE IsPath(Path(dir, name))
<1>1. <<>> \in Seq(Nat) OBVIOUS
<1> QED BY <1>1 DEF IsPath, Path

LEMMA WriteRunStep ==
    ASSUME FoldersInv, DOMAIN disk = Machines, World, NEW r \in Runs, run[r].pc = "work",
           NEW p, NEW files, Wrote(r, p, files), MayWrite(r, p),
           DOMAIN disk[Machine[r]] \subseteq DOMAIN files
    PROVE  /\ RunStep(r) /\ p \in run'[r].wrote /\ run'[r].pc = "work"
           /\ run[r].wrote \cup {p} \cup Paths(Inputs[r]) \subseteq Near(r)'
<1>0. /\ IsRun(run[r]) /\ DOMAIN run = Runs /\ Machine[r] \in Machines
      /\ Begun(r) /\ Origins(r) /\ Written(r)
  BY DEF FoldersInv, Shapes, World, RunShape, Machines
<1>1. run' = [run EXCEPT ![r] = [run[r] EXCEPT !.wrote = @ \cup {p}, !.count = @ + 1]]
  BY <1>0 DEF Wrote
<1>2. /\ run'[r] = [run[r] EXCEPT !.wrote = @ \cup {p}, !.count = @ + 1]
      /\ \A q \in Runs \ {r} : run'[q] = run[q]
  BY <1>0, <1>1
<1>3. /\ run'[r].wrote = run[r].wrote \cup {p} /\ run'[r].count = run[r].count + 1
      /\ run'[r].pc = run[r].pc /\ run'[r].out = run[r].out
      /\ run'[r].deliverable = run[r].deliverable /\ run'[r].result = run[r].result
      /\ run'[r].i = run[r].i /\ run'[r].moved = run[r].moved /\ run'[r].used = run[r].used
  BY <1>0, <1>2 DEF IsRun
<1>4. p \in DOMAIN disk'[Machine[r]]
      /\ DOMAIN disk[Machine[r]] \subseteq DOMAIN disk'[Machine[r]]
  <2>1. disk'[Machine[r]] = Put(files, p, Content(r, run[r].count + 1))
    BY <1>0 DEF Wrote
  <2> QED BY <2>1 DEF Put
<1>5. IsFiniteSet(run[r].wrote \cup {p})
  <2>1. IsFiniteSet(run[r].wrote) BY <1>0 DEF Begun
  <2> QED BY <2>1, FS_AddElement
<1>6. Begun(r)' BY <1>0, <1>3, <1>5 DEF Begun, MayWrite, Starting, Ending, Early
<1>7. RunShape(r)' BY <1>3, <1>6 DEF RunShape, Ended, Promises, Aimed, Ending, Filing
<1>8. Origins(r)'
  <2>1. run[r].deliverable = <<>> BY <1>0 DEF Begun, Starting
  <2> QED BY <1>3, <2>1 DEF Origins
<1>9. Written(r)' BY <1>0, <1>2, <1>3, <1>4, WrittenKept
<1>10. /\ Touched(r) \subseteq Touched(r)' /\ (Settled(r) => Settled(r)')
       /\ \A x : MadeBy(r, x) => MadeBy(r, x)'
  BY <1>3 DEF Touched, Settled, MadeBy, Place, Source
<1>11. RunStep(r) BY <1>2, <1>3, <1>7, <1>8, <1>9, <1>10 DEF RunStep
<1> QED BY <1>3, <1>11 DEF Near, Touched

LEMMA WorkStep ==
    ASSUME FoldersInv, DOMAIN disk = Machines, World, NEW r \in Runs,
           \/ WriteFile(r) \/ RunCode(r) \/ Generate(r) \/ EditFile(r) \/ HandOver(r)
    PROVE  Step(r) /\ FollowsAll(r)' /\ ClearDst(r)'
<1> DEFINE m == Machine[r]
           mine == run[r].wrote \cup Paths(Inputs[r])
<1>0. /\ m \in Machines /\ DOMAIN memo = Machines /\ Begun(r) /\ RunShape(r)
      /\ Origins(r) /\ Written(r)
  BY DEF Machines, World, Stock, RunShape
<1>1. run[r].pc = "work"
  BY DEF WriteFile, RunCode, Generate, EditFile, HandOver
<1>2. ASSUME run[r].count < Writes[r] PROVE Content(r, run[r].count + 1) # None
  <2>1. run[r].count + 1 \in 1 .. Writes[r] BY <1>0, <1>2, FileConstants DEF Begun
  <2> QED BY <2>1, PathConstants
<1>3. \A p \in mine : MayWrite(r, p) BY <1>0, PathConstants DEF Begun, MayWrite
<1>4. \A dir \in Work \cup {run[r].out} : \A name : MayWrite(r, Path(dir, name))
  BY NewPath DEF MayWrite, Path
<1>5. run'[r].pc \in Starting => FollowsAll(r)' /\ ClearDst(r)'
  BY DEF FollowsAll, ClearDst, Starting, Ending
<1>6. ASSUME NEW p, Wrote(r, p, disk[m]), MayWrite(r, p), run[r].count < Writes[r]
      PROVE  /\ DiskStep(r) /\ RunStep(r) /\ run'[r].pc = "work"
             /\ mine \cup {p} \subseteq Near(r)'
  <2>1. /\ RunStep(r) /\ p \in run'[r].wrote /\ run'[r].pc = "work"
        /\ mine \cup {p} \subseteq Near(r)'
    BY <1>1, <1>6, WriteRunStep
  <2>2. DiskStep(r)
    <3>1. {} \subseteq Near(r)' OBVIOUS
    <3> QED BY <1>2, <1>6, <2>1, <3>1, WriteStep
  <2> QED BY <2>1, <2>2
<1>7. CASE WriteFile(r)
  <2>1. PICK dir \in Work \cup {run[r].out}, name \in Names :
            Wrote(r, Path(dir, name), disk[m]) /\ Push(r, disk'[m], Path(dir, name))
    BY <1>7 DEF WriteFile
  <2>2. PICK p : p = Path(dir, name) OBVIOUS
  <2>3. /\ DiskStep(r) /\ RunStep(r) /\ run'[r].pc = "work" /\ p \in Near(r)'
    BY <1>4, <1>6, <1>7, <2>1, <2>2 DEF WriteFile
  <2>4. BucketStep(r) BY <1>0, <2>1, <2>2, <2>3, OnePushStep
  <2> QED BY <1>5, <2>3, <2>4 DEF Step, Starting
<1>8. CASE RunCode(r)
  <2>1. PICK dir \in Work \cup {run[r].out}, name \in Names :
            Wrote(r, Path(dir, name), disk[m])
    BY <1>8 DEF RunCode
  <2>2. PICK p : p = Path(dir, name) OBVIOUS
  <2>3. /\ DiskStep(r) /\ RunStep(r) /\ run'[r].pc = "work"
    BY <1>4, <1>6, <1>8, <2>1, <2>2 DEF RunCode
  <2>4. BucketStep(r) BY <1>0, <1>8, BucketStays DEF RunCode
  <2> QED BY <1>5, <2>3, <2>4 DEF Step, Starting
<1>9. CASE Generate(r)
  <2>1. PICK name \in Names, refs \in SUBSET mine :
            /\ Wrote(r, Path(run[r].out, name), disk[m])
            /\ \E unpushed : Pushed(m, disk'[m], (refs \cup {Path(run[r].out, name)}) \ unpushed)
    BY <1>9 DEF Generate
  <2>2. PICK p : p = Path(run[r].out, name) OBVIOUS
  <2>3. /\ DiskStep(r) /\ RunStep(r) /\ run'[r].pc = "work" /\ mine \cup {p} \subseteq Near(r)'
    BY <1>4, <1>6, <1>9, <2>1, <2>2 DEF Generate
  <2>4. PICK ps : ps \subseteq mine \cup {p} /\ Pushed(m, disk'[m], ps)
    <3>1. PICK unpushed : Pushed(m, disk'[m], (refs \cup {p}) \ unpushed) BY <2>1, <2>2
    <3>2. (refs \cup {p}) \ unpushed \subseteq mine \cup {p} OBVIOUS
    <3> QED BY <3>1, <3>2
  <2>5. BucketStep(r)
    <3>1. ps \subseteq Near(r)' BY <2>3, <2>4
    <3> QED BY <1>0, <2>4, <3>1, PushesStep
  <2> QED BY <1>5, <2>3, <2>5 DEF Step, Starting
<1>10. CASE EditFile(r)
  <2>1. PICK p \in mine : Wrote(r, p, PulledFrom(m, {p})) /\ Push(r, disk'[m], p)
    BY <1>10 DEF EditFile
  <2>2. PICK files : files = PulledFrom(m, {p}) OBVIOUS
  <2>3. /\ RunStep(r) /\ p \in run'[r].wrote /\ run'[r].pc = "work" /\ {p} \subseteq Near(r)'
    BY <1>1, <1>3, <2>1, <2>2, Pulls, WriteRunStep
  <2>4. DiskStep(r)
    BY <1>2, <1>10, <2>1, <2>2, <2>3, WriteStep DEF EditFile
  <2>5. BucketStep(r) BY <1>0, <2>1, <2>3, OnePushStep
  <2> QED BY <1>5, <2>3, <2>4, <2>5 DEF Step, Starting
<1>11. CASE HandOver(r)
  <2>1. PICK p \in mine : /\ disk' = [disk EXCEPT ![m] = PulledFrom(m, {p})]
                          /\ Push(r, PulledFrom(m, {p}), p) /\ run' = run
    BY <1>11 DEF HandOver
  <2>2. disk'[m] = PulledFrom(m, {p}) BY <1>0, <2>1
  <2>3. {p} \subseteq Near(r)' BY <2>1 DEF Near, Touched
  <2>4. DiskStep(r) BY <2>1, <2>3, PullStep
  <2>5. BucketStep(r)
    <3>1. Push(r, disk'[m], p) BY <2>1, <2>2
    <3> QED BY <1>0, <2>3, <3>1, OnePushStep
  <2>6. Written(r)'
    BY <1>0, <1>1, <2>1, <2>2, Pulls, WrittenKept
  <2>7. RunStep(r)
    <3>1. RunShape(r) /\ Origins(r) BY <1>0
    <3>2. RunShape(r)'
      <4>1. Begun(r)' BY <2>1, <3>1 DEF RunShape, Begun
      <4>2. Ended(r)' BY <2>1, <3>1 DEF RunShape, Ended, ValueOf, Place, Source
      <4>3. Promises(r)' BY <2>1, <3>1 DEF RunShape, Promises, Place, Source
      <4>4. Aimed(r)' BY <2>1, <3>1 DEF RunShape, Aimed, LeftAlone, Known, ValueAt
      <4> QED BY <4>1, <4>2, <4>3, <4>4 DEF RunShape
    <3>3. Origins(r)' BY <2>1, <3>1 DEF Origins, Origin, Source
    <3> QED BY <1>1, <2>1, <2>6, <3>2, <3>3
            DEF RunStep, Touched, MadeBy, Settled, Place, Source
  <2> QED BY <1>1, <1>5, <2>1, <2>4, <2>5, <2>7 DEF Step, Starting
<1> QED BY <1>7, <1>8, <1>9, <1>10, <1>11

-----------------------------------------------------------------------------
(* The record of the output.                                               *)

\* What a run may hand over.
LEMMA DeliverablesAre ==
    ASSUME NEW r \in Runs, NEW d \in Deliverables(r)
    PROVE  /\ d \in Seq(ToSet(d))
           /\ \A j \in DOMAIN d :
                 d[j] \in [path : run[r].wrote \cup Paths(Inputs[r]), form : Spells[r]] \cup Results
<1> DEFINE S == [path : run[r].wrote \cup Paths(Inputs[r]), form : Spells[r]] \cup Results
<1>1. PICK n \in 0 .. Values[r] : d \in [1 .. n -> S] BY DEF Deliverables, SeqOf
<1> HIDE DEF S
<1>2. n \in Nat BY FileConstants
<1>3. DOMAIN d = 1 .. n /\ d \in [1 .. n -> ToSet(d)] BY <1>1 DEF ToSet
<1>4. d \in Seq(ToSet(d)) BY <1>2, <1>3, FunctionsAreSequences
<1>5. \A j \in DOMAIN d : d[j] \in S BY <1>1
<1> QED BY <1>4, <1>5 DEF S

LEMMA SetOutputRun ==
    ASSUME FoldersInv, NEW r \in Runs, SetOutput(r)
    PROVE  \E d \in Deliverables(r) :
              /\ \A q \in Runs \ {r} : run'[q] = run[q]
              /\ run[r].pc = "work" /\ run'[r].pc = "aim"
              /\ run'[r].deliverable = d /\ run'[r].result = d
              /\ run'[r].meant = [j \in DOMAIN d |-> Holds(r, d[j].path)]
              /\ run'[r].out = run[r].out /\ run'[r].count = run[r].count
              /\ run'[r].wrote = run[r].wrote /\ run'[r].i = run[r].i
              /\ run'[r].moved = run[r].moved /\ run'[r].used = run[r].used
              /\ run'[r].failed = run[r].failed
              /\ UNCHANGED <<disk, bucket, memo>>
<1>0. IsRun(run[r]) /\ DOMAIN run = Runs BY DEF FoldersInv, Shapes
<1>1. PICK d \in Deliverables(r) :
          run' = [run EXCEPT ![r].pc = "aim", ![r].deliverable = d, ![r].result = d,
                             ![r].meant = [j \in DOMAIN d |-> Holds(r, d[j].path)]]
  BY DEF SetOutput
<1> DEFINE meant == [j \in DOMAIN d |-> Holds(r, d[j].path)]
<1>2. run' = [run EXCEPT ![r].pc = "aim", ![r].deliverable = d, ![r].result = d,
                         ![r].meant = meant]
  BY <1>1
<1> HIDE DEF meant
<1>3. run' = [run EXCEPT ![r] = [run[r] EXCEPT !.pc = "aim", !.deliverable = d,
                                               !.result = d, !.meant = meant]]
  BY <1>0, <1>2
<1>4. /\ run'[r] = [run[r] EXCEPT !.pc = "aim", !.deliverable = d,
                                  !.result = d, !.meant = meant]
      /\ \A q \in Runs \ {r} : run'[q] = run[q]
  BY <1>0, <1>3
<1>5. /\ run'[r].pc = "aim" /\ run'[r].deliverable = d /\ run'[r].result = d
      /\ run'[r].meant = meant /\ run'[r].out = run[r].out /\ run'[r].count = run[r].count
      /\ run'[r].wrote = run[r].wrote /\ run'[r].i = run[r].i
      /\ run'[r].moved = run[r].moved /\ run'[r].used = run[r].used
      /\ run'[r].failed = run[r].failed
  BY <1>0, <1>4 DEF IsRun
<1>6. run[r].pc = "work" /\ UNCHANGED <<disk, bucket, memo>> BY DEF SetOutput
<1> QED BY <1>4, <1>5, <1>6 DEF meant

LEMMA SetOutputStep ==
    ASSUME FoldersInv, InputsInv, World, NEW r \in Runs, SetOutput(r)
    PROVE  Step(r) /\ FollowsAll(r)' /\ ClearDst(r)'
<1> DEFINE m == Machine[r]
           mine == run[r].wrote \cup Paths(Inputs[r])
<1>0. /\ m \in Machines /\ DOMAIN memo = Machines /\ Begun(r) /\ Written(r)
      /\ DOMAIN disk = Machines /\ HasInputs(r)
  BY DEF Machines, World, Stock, RunShape, InputsInv
<1>1. PICK d \in Deliverables(r) :
          /\ \A q \in Runs \ {r} : run'[q] = run[q]
          /\ run[r].pc = "work" /\ run'[r].pc = "aim"
          /\ run'[r].deliverable = d /\ run'[r].result = d
          /\ run'[r].meant = [j \in DOMAIN d |-> Holds(r, d[j].path)]
          /\ run'[r].out = run[r].out /\ run'[r].count = run[r].count
          /\ run'[r].wrote = run[r].wrote /\ run'[r].i = run[r].i
          /\ run'[r].moved = run[r].moved /\ run'[r].used = run[r].used
          /\ run'[r].failed = run[r].failed
          /\ UNCHANGED <<disk, bucket, memo>>
  BY SetOutputRun
<1>2. /\ run[r].deliverable = <<>> /\ run[r].result = <<>> /\ run[r].moved = <<>>
      /\ run[r].used = {} /\ run[r].i = 1
  BY <1>0, <1>1 DEF Begun, Starting
<1>3. d \in Seq(ToSet(d)) BY DeliverablesAre
<1>4. ASSUME NEW j \in DOMAIN d
      PROVE  \/ d[j] \in [path : mine, form : Spells[r]]
             \/ \E y \in Runs \ {r} : /\ run[y].pc = "done"
                                      /\ \E k \in DOMAIN run[y].result : d[j] = run[y].result[k]
  <2>1. CASE d[j] \in Results
    <3>1. PICK y \in Runs : run[y].pc = "done" /\ d[j] \in ToSet(run[y].result)
      BY <2>1 DEF Results
    <3> QED BY <1>1, <3>1 DEF ToSet
  <2> QED BY <1>4, <2>1, DeliverablesAre
<1>5. ASSUME NEW j \in DOMAIN d
      PROVE  /\ IsValue(d[j]) /\ IsPath(d[j].path)
             /\ d[j].path.dir \in RunFolders => Origin(r, d[j].path)'
  <2>1. CASE d[j] \in [path : mine, form : Spells[r]]
    <3>1. IsValue(d[j]) /\ d[j].path \in mine BY <2>1 DEF IsValue
    <3>2. IsPath(d[j].path) BY <1>0, <3>1, PathConstants DEF Begun
    <3>3. d[j].path.dir \in RunFolders
             => d[j].path.dir = run[r].out \/ d[j].path \in Paths(Inputs[r])
      BY <1>0, <3>1, PathConstants DEF Begun
    <3> QED BY <1>1, <3>1, <3>2, <3>3 DEF Origin
  <2>2. CASE \E y \in Runs \ {r} : /\ run[y].pc = "done"
                                   /\ \E k \in DOMAIN run[y].result : d[j] = run[y].result[k]
    <3>1. PICK y \in Runs \ {r} : /\ run[y].pc = "done"
                                  /\ \E k \in DOMAIN run[y].result : d[j] = run[y].result[k]
      BY <2>2
    <3>2. PICK k \in DOMAIN run[y].result : d[j] = run[y].result[k] BY <3>1
    <3>3. ValueOf(y, k) BY <3>1, <3>2 DEF World, RunShape, Ended, Ending
    <3>4. PICK p : p = d[j].path OBVIOUS
    <3>5. p \in Paths(ToSet(run[y].result)) BY <3>2, <3>4 DEF Paths, ToSet
    <3>6. p \in Touched(y) BY <3>5 DEF Touched, Paths
    <3>7. p.dir \in RunFolders => Origin(y, p) BY <3>6, TouchedOrigin
    <3>8. p.dir \in RunFolders => Origin(r, p)' BY <1>1, <3>1, <3>5, <3>7 DEF Origin
    <3> QED BY <3>2, <3>3, <3>4, <3>8 DEF ValueOf, Place, Origin
  <2> QED BY <1>4, <2>1, <2>2
<1>6. RunShape(r)'
  <2>1. Begun(r)' BY <1>0, <1>1 DEF Begun, Starting, Ending, Early
  <2>2. Ended(r)'
    <3>1. \A j \in DOMAIN d : ValueOf(r, j)'
      BY <1>1, <1>5 DEF ValueOf, Place, Source
    <3> QED BY <1>1, <1>2, <1>3, <3>1 DEF Ended
  <2>3. Promises(r)'
    <3>1. IsFiniteSet({}) BY FS_EmptySet
    <3> QED BY <1>1, <1>2, <3>1 DEF Promises, Place, Source
  <2>4. Aimed(r)' BY <1>1 DEF Aimed
  <2> QED BY <2>1, <2>2, <2>3, <2>4 DEF RunShape
<1>7. Origins(r)' BY <1>1, <1>5 DEF Origins, Source, Origin
<1>8. Written(r)' BY <1>0, <1>1, WrittenKept
<1>9. /\ Touched(r) \subseteq Touched(r)' /\ (Settled(r) => Settled(r)')
      /\ \A x : MadeBy(r, x) => MadeBy(r, x)'
  <2>1. Touched(r) = run[r].wrote BY <1>2 DEF Touched, Paths, ToSet
  <2>2. \A x : MadeBy(r, x) => x \in run[r].wrote BY <1>2 DEF MadeBy
  <2> QED BY <1>1, <2>1, <2>2 DEF Touched, Settled, MadeBy
<1>10. RunStep(r) BY <1>1, <1>6, <1>7, <1>8, <1>9 DEF RunStep
<1>11. Step(r) BY <1>0, <1>1, <1>10, DiskStays, BucketStays DEF Step
<1>12. ASSUME NEW j \in DOMAIN d, ~ Lost(r, j)' PROVE Follows(r, j)'
  <2>1. PICK s : s = d[j].path OBVIOUS
  <2>2. Source(r, j)' = s /\ Place(r, j)' = s /\ run'[r].meant[j] = Holds(r, s)
    BY <1>1, <2>1 DEF Source, Place
  <2>3. ~ Elsewhere(r, s) /\ Holds(r, s) # None /\ s \notin run[r].failed
    <3>1. ~ Elsewhere(r, s)' BY <1>12, <2>2 DEF Lost, Elsewhere
    <3>2. ~ Elsewhere(r, s) BY <1>10, <3>1, OthersGrow
    <3> QED BY <1>1, <1>12, <2>2, <3>2 DEF Lost
  <2>4. s \in mine
    <3>1. CASE d[j] \in [path : mine, form : Spells[r]] BY <2>1, <3>1
    <3>2. CASE \E y \in Runs \ {r} : /\ run[y].pc = "done"
                                     /\ \E k \in DOMAIN run[y].result : d[j] = run[y].result[k]
      BY <2>1, <2>3, <3>2 DEF Elsewhere, Touched, Paths, ToSet
    <3> QED BY <1>4, <3>1, <3>2
  <2>5. s \in Uploads \cup run[r].wrote
    <3>1. s \in DOMAIN disk[m] \/ s \in DOMAIN bucket BY <2>3 DEF Holds, At
    <3>2. s \in Uploads \/ \E q \in Runs : MadeBy(q, s)
      BY <1>0, <3>1 DEF World, Stock
    <3>3. ASSUME NEW q \in Runs, MadeBy(q, s) PROVE s \in run[r].wrote
      <4>1. q = r BY <2>3, <3>3, TouchedNear DEF Elsewhere
      <4> QED BY <1>2, <3>3, <4>1 DEF MadeBy
    <3> QED BY <3>2, <3>3
  <2>6. s \in DOMAIN disk[m]
    <3>1. CASE s \in run[r].wrote BY <1>1, <2>3, <3>1, <1>0 DEF Written
    <3>2. CASE s \notin run[r].wrote
      <4>1. s \in Paths(Inputs[r]) \cap Uploads BY <2>4, <2>5, <3>2
      <4>2. Has(r, s) BY <1>0, <1>1, <4>1 DEF HasInputs, Checked
      <4>3. ~ TouchedByOther(r, s) BY <2>3 DEF TouchedByOther, Elsewhere
      <4> QED BY <2>3, <4>2, <4>3 DEF Has
    <3> QED BY <3>1, <3>2
  <2>7. Holds(r, s) = disk[m][s]
    <3>1. disk[m][s] # None BY <1>0, <2>6 DEF World, Stock
    <3> QED BY <2>6, <3>1 DEF Holds, At
  <2>8. Kept(r, j)' BY <1>1, <1>2, <2>2, <2>6, <2>7 DEF Kept, Holding
  <2>9. j >= 1 BY <1>3
  <2> QED BY <1>1, <1>2, <1>3, <2>2, <2>5, <2>8, <2>9 DEF Follows
<1>13. FollowsAll(r)'
  <2>1. ASSUME NEW j \in DOMAIN d PROVE Follows(r, j)'
    BY <1>12, <2>1 DEF Follows
  <2> QED BY <1>1, <2>1 DEF FollowsAll
<1> QED BY <1>1, <1>11, <1>13 DEF ClearDst

-----------------------------------------------------------------------------
(* The end of a run: its result is pushed and listed.                      *)

LEMMA LostGrows ==
    ASSUME NEW r \in Runs, RunStep(r), Settled(r), NEW j,
           run'[r].deliverable = run[r].deliverable, run'[r].meant = run[r].meant,
           run[r].failed \subseteq run'[r].failed, Lost(r, j)
    PROVE  Lost(r, j)'
<1>1. Source(r, j)' = Source(r, j) BY DEF Source
<1>2. SharesFolder(r) => SharesFolder(r)' BY SharesGrows
<1>3. PICK s : s = Source(r, j) OBVIOUS
<1>4. Elsewhere(r, s) => Elsewhere(r, s)' BY OthersGrow
<1>5. Elsewhere(r, Source(r, j)) => Elsewhere(r, Source(r, j))'
  BY <1>1, <1>3, <1>4 DEF Elsewhere
<1> QED BY <1>1, <1>2, <1>5 DEF Lost

\* A run that ends keeps everything but its counter and what failed.
Ends(r) ==
    /\ \A q \in Runs \ {r} : run'[q] = run[q]
    /\ run[r].pc \in {"aim", "sync"} /\ run'[r].pc \in {"sync", "done"}
    /\ run'[r].wrote = run[r].wrote /\ run'[r].count = run[r].count
    /\ run'[r].deliverable = run[r].deliverable /\ run'[r].result = run[r].result
    /\ run'[r].meant = run[r].meant /\ run'[r].out = run[r].out
    /\ run'[r].i \in Nat \ {0} /\ run[r].failed \subseteq run'[r].failed

LEMMA EndRunStep ==
    ASSUME World, NEW r \in Runs, Ends(r)
    PROVE  RunStep(r) /\ Near(r)' = Near(r)
<1>0. Begun(r) /\ Ended(r) /\ Origins(r) /\ run[r].pc \in Ending
  BY DEF World, RunShape, Ends, Ending
<1>1. Begun(r)' BY <1>0 DEF Begun, Ends, Starting, Ending, Early
<1>2. Ended(r)'
  <2>1. \A j \in DOMAIN run[r].result : ValueOf(r, j)'
    BY <1>0 DEF Ends, Ended, ValueOf, Place, Source
  <2> QED BY <1>0, <2>1 DEF Ended, Ends
<1>3. RunShape(r)' BY <1>1, <1>2 DEF RunShape, Promises, Aimed, Filing, Ends
<1>4. Origins(r)' BY <1>0 DEF Origins, Origin, Source, Ends
<1>5. Written(r)' BY DEF Written, Ends, Filing
<1>6. /\ Touched(r)' = Touched(r) /\ (Settled(r) => Settled(r)')
      /\ \A p : MadeBy(r, p) => MadeBy(r, p)'
  BY DEF Ends, Touched, Settled, MadeBy, Place, Source
<1>7. Near(r)' = Near(r) BY <1>6 DEF Near
<1> QED BY <1>3, <1>4, <1>5, <1>6, <1>7 DEF RunStep, Ends

LEMMA StartSyncRun ==
    ASSUME FoldersInv, World, NEW r \in Runs, StartSync(r)
    PROVE  /\ Ends(r) /\ run'[r].pc = "sync" /\ run'[r].i = 1
           /\ run[r].pc = "aim" /\ run[r].i > Len(run[r].result)
           /\ run'[r].failed = run[r].failed
           /\ UNCHANGED <<disk, bucket, memo>>
<1>0. IsRun(run[r]) /\ DOMAIN run = Runs BY DEF FoldersInv, Shapes
<1>1. run' = [run EXCEPT ![r] = [run[r] EXCEPT !.pc = "sync", !.i = 1]]
      /\ run[r].pc = "aim" /\ run[r].i > Len(run[r].result)
      /\ UNCHANGED <<disk, bucket, memo>>
  BY <1>0 DEF StartSync
<1>2. run'[r] = [run[r] EXCEPT !.pc = "sync", !.i = 1]
      /\ \A q \in Runs \ {r} : run'[q] = run[q]
  BY <1>0, <1>1
<1>3. /\ run'[r].pc = "sync" /\ run'[r].deliverable = run[r].deliverable
      /\ run'[r].result = run[r].result /\ run'[r].wrote = run[r].wrote /\ run'[r].i = 1
      /\ run'[r].meant = run[r].meant /\ run'[r].out = run[r].out
      /\ run'[r].count = run[r].count /\ run'[r].failed = run[r].failed
  BY <1>0, <1>2 DEF IsRun
<1> QED BY <1>1, <1>2, <1>3 DEF Ends

LEMMA SyncOneRun ==
    ASSUME FoldersInv, World, NEW r \in Runs, SyncOne(r)
    PROVE  /\ Ends(r) /\ run'[r].pc = "sync" /\ run'[r].i = run[r].i + 1
           /\ run[r].pc = "sync" /\ run[r].i =< Len(run[r].result)
           /\ faults' > faults => ValueAt(r).path \in run'[r].failed
           /\ UNCHANGED <<disk>>
<1> DEFINE failed == IF faults' > faults THEN run[r].failed \cup {ValueAt(r).path}
                                         ELSE run[r].failed
<1>0. IsRun(run[r]) /\ DOMAIN run = Runs BY DEF FoldersInv, Shapes
<1>1. run' = [run EXCEPT ![r].i = @ + 1,
                 ![r].failed = IF faults' > faults THEN @ \cup {ValueAt(r).path} ELSE @]
  BY DEF SyncOne
<1>2. run' = [run EXCEPT ![r] = [run[r] EXCEPT !.i = run[r].i + 1, !.failed = failed]]
  BY <1>0, <1>1
<1>3. run[r].pc = "sync" /\ run[r].i =< Len(run[r].result) /\ UNCHANGED <<disk>>
  BY DEF SyncOne
<1>4. run[r].failed \subseteq failed /\ (faults' > faults => ValueAt(r).path \in failed)
  OBVIOUS
<1> HIDE DEF failed
<1>5. run'[r] = [run[r] EXCEPT !.i = run[r].i + 1, !.failed = failed]
      /\ \A q \in Runs \ {r} : run'[q] = run[q]
  BY <1>0, <1>2
<1>6. /\ run'[r].pc = run[r].pc /\ run'[r].deliverable = run[r].deliverable
      /\ run'[r].result = run[r].result /\ run'[r].wrote = run[r].wrote
      /\ run'[r].meant = run[r].meant /\ run'[r].out = run[r].out
      /\ run'[r].count = run[r].count /\ run'[r].failed = failed /\ run'[r].i = run[r].i + 1
  BY <1>0, <1>5 DEF IsRun
<1>7. run[r].i \in Nat \ {0} BY <1>3 DEF World, RunShape, Ended, Ending
<1> QED BY <1>3, <1>4, <1>5, <1>6, <1>7 DEF Ends

LEMMA ListRun ==
    ASSUME FoldersInv, World, NEW r \in Runs, List(r)
    PROVE  \E lost \in SUBSET Paths(ToSet(run[r].result)) :
           /\ Ends(r) /\ run'[r].pc = "done"
           /\ run[r].pc = "sync" /\ run[r].i > Len(run[r].result)
           /\ disk' = [disk EXCEPT ![Machine[r]] = PulledFrom(Machine[r], lost)]
           /\ run'[r].manifest =
                 Paths({v \in ToSet(run[r].result) : IsDrivePath(v) /\ v.form = "string"})
                    \cap DOMAIN PulledFrom(Machine[r], lost)
           /\ UNCHANGED <<bucket, memo>>
<1> DEFINE named == Paths({v \in ToSet(run[r].result) : IsDrivePath(v)})
           shown == Paths({v \in ToSet(run[r].result) : IsDrivePath(v) /\ v.form = "string"})
<1>0. IsRun(run[r]) /\ DOMAIN run = Runs BY DEF FoldersInv, Shapes
<1>1. PICK lost :
          /\ disk' = [disk EXCEPT ![Machine[r]] = PulledFrom(Machine[r], named \ lost)]
          /\ run' = [run EXCEPT ![r].pc = "done", ![r].i = 1,
                                ![r].moved = <<>>, ![r].used = {},
                                ![r].manifest = shown \cap DOMAIN PulledFrom(Machine[r], named \ lost),
                                ![r].failed = @ \cup lost]
  BY DEF List
<1>2. run[r].pc = "sync" /\ run[r].i > Len(run[r].result) /\ UNCHANGED <<bucket, memo>>
  BY DEF List
<1>3. PICK ps : ps = named \ lost OBVIOUS
<1>4. PICK listed : listed = shown \cap DOMAIN PulledFrom(Machine[r], ps) OBVIOUS
<1>5. ps \in SUBSET Paths(ToSet(run[r].result)) BY <1>3 DEF Paths
<1>6. run' = [run EXCEPT ![r].pc = "done", ![r].i = 1, ![r].moved = <<>>, ![r].used = {},
                         ![r].manifest = listed, ![r].failed = @ \cup lost]
  BY <1>1, <1>3, <1>4
<1>7. run' = [run EXCEPT ![r] = [run[r] EXCEPT !.pc = "done", !.i = 1, !.moved = <<>>,
                  !.used = {}, !.manifest = listed, !.failed = @ \cup lost]]
  BY <1>0, <1>6
<1>8. run'[r] = [run[r] EXCEPT !.pc = "done", !.i = 1, !.moved = <<>>,
                  !.used = {}, !.manifest = listed, !.failed = @ \cup lost]
      /\ \A q \in Runs \ {r} : run'[q] = run[q]
  BY <1>0, <1>7
<1>9. /\ run'[r].pc = "done" /\ run'[r].deliverable = run[r].deliverable
      /\ run'[r].result = run[r].result /\ run'[r].wrote = run[r].wrote
      /\ run'[r].meant = run[r].meant /\ run'[r].out = run[r].out
      /\ run'[r].count = run[r].count /\ run[r].failed \subseteq run'[r].failed
      /\ run'[r].i = 1 /\ run'[r].manifest = listed
  BY <1>0, <1>8 DEF IsRun
<1>10. Ends(r) BY <1>2, <1>8, <1>9 DEF Ends
<1>11. disk' = [disk EXCEPT ![Machine[r]] = PulledFrom(Machine[r], ps)] BY <1>1, <1>3
<1> QED BY <1>2, <1>4, <1>5, <1>9, <1>10, <1>11

\* A value that is filed and not lost has a place to push it from.
LEMMA FiledPath ==
    ASSUME World, NEW r \in Runs, run[r].pc \in Ending, NEW j \in DOMAIN run[r].result,
           ~ Lost(r, j)
    PROVE  IsDrivePath(run[r].result[j])
<1>1. ValueOf(r, j) /\ run[r].out \in RunFolders
  <2>1. Begun(r) /\ Ended(r) BY DEF World, RunShape
  <2> QED BY <2>1, TouchesSettled DEF Ended
<1>2. Source(r, j).dir # Root BY DEF Lost
<1>3. Place(r, j).dir # Root BY <1>1, <1>2, PathConstants DEF ValueOf
<1> QED BY <1>3 DEF IsDrivePath, Place

LEMMA StartSyncStep ==
    ASSUME FoldersInv, DOMAIN disk = Machines, World, NEW r \in Runs, StartSync(r),
           FollowsAll(r)
    PROVE  Step(r) /\ FollowsAll(r)' /\ ClearDst(r)'
<1>1. /\ Ends(r) /\ run'[r].pc = "sync" /\ run'[r].i = 1
      /\ run[r].pc = "aim" /\ run[r].i > Len(run[r].result)
      /\ run'[r].failed = run[r].failed
      /\ UNCHANGED <<disk, bucket, memo>>
  BY StartSyncRun
<1>2. RunStep(r) BY <1>1, EndRunStep
<1>3. DOMAIN memo = Machines BY DEF World, Stock
<1>4. Step(r) BY <1>1, <1>2, <1>3, DiskStays, BucketStays DEF Step
<1>5. Settled(r) /\ Begun(r) /\ Ended(r)
  <2>1. Begun(r) /\ Ended(r) BY DEF World, RunShape
  <2> QED BY <1>1, <2>1, TouchesSettled DEF Ending
<1>6. ASSUME NEW j \in DOMAIN run[r].result, ~ Lost(r, j)' PROVE Follows(r, j)'
  <2>1. ~ Lost(r, j) BY <1>1, <1>2, <1>5, <1>6, LostGrows DEF Ends
  <2>2. Follows(r, j) BY <1>1, <1>6 DEF FollowsAll, Ending
  <2>3. j \in 1 .. Len(run[r].result) /\ Len(run[r].result) \in Nat /\ run[r].i \in Nat
    BY <1>1, <1>5, <1>6 DEF Ended, Ending
  <2>4. Filed(r, j) BY <1>1, <2>1, <2>2, <2>3 DEF Follows
  <2>5. Place(r, j)' = Place(r, j) /\ Source(r, j)' = Source(r, j)
    BY <1>1 DEF Ends, Place, Source
  <2>6. PICK p : p = Place(r, j) OBVIOUS
  <2>7. Busy(r, p) => Busy(r, p)' BY <1>2, OthersGrow
  <2>8. Filed(r, j)' BY <1>1, <2>4, <2>5, <2>6, <2>7 DEF Filed, Holding, Ends
  <2> QED BY <1>1, <2>1, <2>2, <2>3, <2>5, <2>8 DEF Follows, Filing, Ends
<1>7. FollowsAll(r)'
  <2>1. ASSUME NEW j \in DOMAIN run[r].result PROVE Follows(r, j)'
    BY <1>6, <2>1 DEF Follows
  <2> QED BY <1>1, <2>1 DEF FollowsAll, Ends
<1> QED BY <1>1, <1>4, <1>7 DEF ClearDst

\* What a run has pushed of a file it delivers, and nobody else handles, is in the
\* bucket as it has it.
LEMMA MemoIsServed ==
    ASSUME FoldersInv, World, NEW r \in Runs, run[r].pc = "sync",
           NEW j \in DOMAIN run[r].result, ~ Lost(r, j), Filed(r, j), ~ Busy(r, Place(r, j)),
           Source(r, j) \in Uploads \cup run[r].wrote,
           Place(r, j) \in DOMAIN memo[Machine[r]]
    PROVE  /\ Place(r, j) \in DOMAIN bucket
           /\ bucket[Place(r, j)] = memo[Machine[r]][Place(r, j)]
<1> DEFINE m == Machine[r]
           p == Place(r, j)
<1>1. m \in Machines /\ p \in DOMAIN bucket BY DEF Machines, World, Stock
<1>2. CASE p \in run[r].wrote
  <2>1. p = Source(r, j) BY <1>2 DEF Filed
  <2>2. ASSUME NEW q \in Runs, Machine[q] # m PROVE p \notin Near(q)
    <3>1. q # r BY <2>2
    <3>2. p \notin Touched(q) BY <2>1, <3>1 DEF Lost, Elsewhere
    <3>3. p \notin Paths(Inputs[q]) BY <1>2, <3>1 DEF Busy
    <3> QED BY <3>2, <3>3 DEF Near
  <2> HIDE DEF p, m
  <2>3. bucket[p] = memo[m][p]
    <3>1. p \in DOMAIN memo[m] BY DEF p, m
    <3> QED BY <1>1, <2>2, <3>1 DEF World, PushedHere
  <2> QED BY <1>1, <2>3 DEF p, m
<1>3. CASE p \notin run[r].wrote
  <2>1. Pristine(p) BY <1>3, PlacePristine DEF Ending
  <2>2. PICK c : Copies(p, c) BY <2>1 DEF World, OneCopy
  <2> QED BY <1>1, <2>2 DEF Copies
<1> QED BY <1>2, <1>3

LEMMA SyncOneStep ==
    ASSUME FoldersInv, DOMAIN disk = Machines, World, faults \in Int, NEW r \in Runs, SyncOne(r),
           FollowsAll(r)
    PROVE  Step(r) /\ FollowsAll(r)' /\ ClearDst(r)'
<1> DEFINE m == Machine[r]
           i == run[r].i
<1>1. /\ Ends(r) /\ run'[r].pc = "sync" /\ run'[r].i = run[r].i + 1
      /\ run[r].pc = "sync" /\ run[r].i =< Len(run[r].result)
      /\ faults' > faults => ValueAt(r).path \in run'[r].failed
      /\ UNCHANGED <<disk>>
  BY SyncOneRun
<1>2. RunStep(r) /\ Near(r)' = Near(r) BY <1>1, EndRunStep
<1>3. DOMAIN memo = Machines /\ m \in Machines BY DEF World, Stock, Machines
<1>4. Settled(r) /\ Begun(r) /\ Ended(r)
  <2>1. Begun(r) /\ Ended(r) BY DEF World, RunShape
  <2> QED BY <1>1, <2>1, TouchesSettled DEF Ending
<1>5. /\ i \in DOMAIN run[r].result /\ i \in Nat
      /\ \A j \in DOMAIN run[r].result : j \in Nat /\ j >= 1
  BY <1>1, <1>4 DEF Ended, Ending
<1>6. IF IsDrivePath(ValueAt(r)) THEN Push(r, disk[m], ValueAt(r).path)
                                 ELSE UNCHANGED <<bucket, memo, faults>>
  BY DEF SyncOne
<1>7. BucketStep(r)
  <2>1. CASE UNCHANGED <<bucket, memo>> BY <1>3, <2>1, BucketStays
  <2>2. CASE Push(r, disk[m], ValueAt(r).path)
    <3>1. ValueAt(r).path \in Near(r)
      BY <1>5 DEF ValueAt, Near, Touched, Paths, ToSet
    <3>2. PICK p : p = ValueAt(r).path OBVIOUS
    <3>3. p \in Near(r)' /\ Push(r, disk'[m], p) BY <1>1, <1>2, <2>2, <3>1, <3>2
    <3> QED BY <1>3, <3>3, OnePushStep
  <2> QED BY <1>6, <2>1, <2>2
<1>8. Step(r) BY <1>1, <1>2, <1>7, DiskStays DEF Step
<1>9. ASSUME NEW j \in DOMAIN run[r].result, ~ Lost(r, j)' PROVE Follows(r, j)'
  <2>1. ~ Lost(r, j) BY <1>1, <1>2, <1>4, <1>9, LostGrows DEF Ends
  <2>2. Follows(r, j) BY <1>1, <1>9 DEF FollowsAll, Ending
  <2>3. Filed(r, j) /\ Source(r, j) \in Uploads \cup run[r].wrote
        /\ (j < i => Served(r, j))
    BY <1>1, <2>1, <2>2 DEF Follows
  <2>4. PICK p, c : p = Place(r, j) /\ c = run[r].meant[j] OBVIOUS
  <2>5. Place(r, j)' = p /\ Source(r, j)' = Source(r, j)
    BY <1>1, <2>4 DEF Ends, Place, Source
  <2>6. Busy(r, p) => Busy(r, p)' BY <1>2, OthersGrow
  <2>7. Filed(r, j)' BY <1>1, <2>3, <2>4, <2>5, <2>6 DEF Filed, Holding, Ends
  <2>8. ASSUME j < i + 1 PROVE Served(r, j)'
    <3> SUFFICES ASSUME ~ Busy(r, p)', p \notin run'[r].failed
                 PROVE  p \in DOMAIN bucket' /\ bucket'[p] = c
      BY <1>1, <2>4, <2>5 DEF Served, Ends
    <3>1. ~ Busy(r, p) /\ p \notin run[r].failed BY <1>1, <2>6 DEF Ends
    <3>2. p \in DOMAIN disk[m] /\ disk[m][p] = c
      BY <1>1, <2>3, <2>4, <3>1 DEF Filed, Holding
    <3>3. CASE j < i
      <4>1. p \in DOMAIN bucket /\ bucket[p] = c BY <2>3, <2>4, <3>1, <3>3 DEF Served
      <4>2. BucketAt(r, p) BY <1>7 DEF BucketStep
      <4> QED BY <1>1, <3>2, <4>1, <4>2 DEF BucketAt, Same
    <3>4. CASE j = i
      <4>1. ValueAt(r).path = p BY <2>4, <3>4 DEF ValueAt, Place
      <4>2. IsDrivePath(ValueAt(r)) BY <1>1, <2>1, <3>4, FiledPath DEF Ending, ValueAt
      <4>3. Push(r, disk[m], p) BY <1>6, <4>1, <4>2
      <4>4. CASE Pushed(m, disk[m], {p})
        <5>1. CASE NeedsPush(m, disk[m], p) BY <3>2, <4>4, <5>1 DEF Pushed
        <5>2. CASE ~ NeedsPush(m, disk[m], p)
          <6>1. At(memo[m], p) = c /\ c # None
            BY <1>3, <3>2, <5>2 DEF NeedsPush, World, Stock
          <6>2. p \in DOMAIN memo[m] /\ memo[m][p] = c BY <6>1 DEF At
          <6>3. p \in DOMAIN bucket /\ bucket[p] = c
            BY <1>1, <2>1, <2>3, <2>4, <3>1, <6>2, MemoIsServed
          <6> QED BY <4>4, <5>2, <6>3 DEF Pushed
        <5> QED BY <5>1, <5>2
      <4>5. CASE Fails(1)
        <5>1. faults' > faults BY <4>5 DEF Fails
        <5> QED BY <1>1, <4>1, <5>1
      <4> QED BY <4>3, <4>4, <4>5 DEF Push
    <3> QED BY <1>5, <2>8, <3>3, <3>4
  <2> QED BY <1>1, <2>3, <2>5, <2>7, <2>8 DEF Follows, Filing, Ends
<1>10. FollowsAll(r)'
  <2>1. ASSUME NEW j \in DOMAIN run[r].result PROVE Follows(r, j)'
    BY <1>9, <2>1 DEF Follows
  <2> QED BY <1>1, <2>1 DEF FollowsAll, Ends
<1> QED BY <1>1, <1>8, <1>10 DEF ClearDst

LEMMA ListStep ==
    ASSUME FoldersInv, DOMAIN disk = Machines, World, NEW r \in Runs, List(r), FollowsAll(r)
    PROVE  Step(r) /\ FollowsAll(r)' /\ ClearDst(r)'
<1> DEFINE m == Machine[r]
<1>1. PICK ps \in SUBSET Paths(ToSet(run[r].result)) :
          /\ Ends(r) /\ run'[r].pc = "done"
          /\ run[r].pc = "sync" /\ run[r].i > Len(run[r].result)
          /\ disk' = [disk EXCEPT ![m] = PulledFrom(m, ps)]
          /\ run'[r].manifest =
                Paths({v \in ToSet(run[r].result) : IsDrivePath(v) /\ v.form = "string"})
                   \cap DOMAIN PulledFrom(m, ps)
          /\ UNCHANGED <<bucket, memo>>
  BY ListRun
<1>2. RunStep(r) /\ Near(r)' = Near(r) BY <1>1, EndRunStep
<1>3. DOMAIN memo = Machines /\ m \in Machines BY DEF World, Stock, Machines
<1>4. Settled(r) /\ Begun(r) /\ Ended(r)
  <2>1. Begun(r) /\ Ended(r) BY DEF World, RunShape
  <2> QED BY <1>1, <2>1, TouchesSettled DEF Ending
<1>5. Step(r)
  <2>1. ps \subseteq Near(r)' BY <1>2 DEF Near, Touched, Paths
  <2> QED BY <1>1, <1>2, <1>3, <2>1, PullStep, BucketStays DEF Step
<1>6. ASSUME NEW j \in DOMAIN run[r].result, ~ Lost(r, j)' PROVE Follows(r, j)'
  <2>1. ~ Lost(r, j) BY <1>1, <1>2, <1>4, <1>6, LostGrows DEF Ends
  <2>2. Follows(r, j) BY <1>1, <1>6 DEF FollowsAll, Ending
  <2>3. j \in 1 .. Len(run[r].result) /\ Len(run[r].result) \in Nat /\ run[r].i \in Nat
    BY <1>1, <1>4, <1>6 DEF Ended, Ending
  <2>4. Filed(r, j) /\ Served(r, j) /\ Source(r, j) \in Uploads \cup run[r].wrote
    BY <1>1, <2>1, <2>2, <2>3 DEF Follows
  <2>5. PICK p, c : p = Place(r, j) /\ c = run[r].meant[j] OBVIOUS
  <2>6. Place(r, j)' = p /\ Source(r, j)' = Source(r, j)
    BY <1>1, <2>5 DEF Ends, Place, Source
  <2>7. Busy(r, p) => Busy(r, p)' BY <1>2, OthersGrow
  <2>8. Filed(r, j)' BY <1>1, <2>4, <2>5, <2>6, <2>7 DEF Filed, Ends
  <2>9. Served(r, j)' BY <1>1, <2>4, <2>5, <2>6, <2>7 DEF Served, Ends
  <2>10. Listed(r, j)'
    <3> SUFFICES ASSUME ~ Busy(r, p)', run[r].result[j].form = "string"
                 PROVE  p \in run'[r].manifest
      BY <1>1, <2>6 DEF Listed, Ends
    <3>1. p \in DOMAIN disk[m] BY <1>1, <2>4, <2>5, <2>7 DEF Filed, Holding
    <3>2. p \in DOMAIN PulledFrom(m, ps) BY <3>1, Pulls
    <3>3. IsDrivePath(run[r].result[j]) BY <1>1, <2>1, FiledPath DEF Ending
    <3> QED BY <1>1, <2>5, <3>2, <3>3 DEF Paths, ToSet, Place
  <2> QED BY <1>1, <2>4, <2>6, <2>8, <2>9, <2>10 DEF Follows, Filing, Ends
<1>7. FollowsAll(r)'
  <2>1. ASSUME NEW j \in DOMAIN run[r].result PROVE Follows(r, j)'
    BY <1>6, <2>1 DEF Follows
  <2> QED BY <1>1, <2>1 DEF FollowsAll, Ends
<1> QED BY <1>1, <1>5, <1>7 DEF ClearDst

-----------------------------------------------------------------------------
(* The name a file gets where it is filed.                                 *)

\* There are finitely many files.
LEMMA FiniteImage ==
    ASSUME NEW S, IsFiniteSet(S), NEW f, DOMAIN f = S
    PROVE  IsFiniteSet({f[x] : x \in S})
<1> DEFINE T == {f[x] : x \in S}
           g == [x \in S |-> f[x]]
<1>1. g \in Surjection(S, T) BY DEF Surjection
<1> HIDE DEF g, T
<1>2. IsFiniteSet(T) BY <1>1, FS_Surjection
<1> QED BY <1>2 DEF T

LEMMA FinitePaths ==
    ASSUME NEW vs, IsFiniteSet(vs)
    PROVE  IsFiniteSet(Paths(vs))
<1> DEFINE f == [v \in vs |-> v.path]
<1>1. DOMAIN f = vs /\ {f[v] : v \in vs} = Paths(vs) BY DEF Paths
<1> HIDE DEF f
<1>2. IsFiniteSet({f[v] : v \in vs}) BY <1>1, FiniteImage
<1> QED BY <1>1, <1>2

LEMMA NearFinite ==
    ASSUME World, NEW q \in Runs
    PROVE  IsFiniteSet(Near(q))
<1>1. Begun(q) /\ Ended(q) BY DEF World, RunShape
<1> DEFINE d == run[q].deliverable
           s == run[q].result
<1>2. \E n \in Nat : DOMAIN d = 1 .. n /\ DOMAIN s = 1 .. n
  <2>1. CASE run[q].pc \in Starting
    <3>1. d = <<>> /\ s = <<>> BY <1>1, <2>1 DEF Begun
    <3> QED BY <3>1
  <2>2. CASE run[q].pc \in Ending
    <3>1. s \in Seq(ToSet(s)) /\ DOMAIN d = DOMAIN s BY <1>1, <2>2 DEF Ended
    <3>2. DOMAIN s = 1 .. Len(s) /\ Len(s) \in Nat BY <3>1
    <3> QED BY <3>1, <3>2
  <2> QED BY <1>1, <2>1, <2>2 DEF Begun
<1>3. PICK n \in Nat : DOMAIN d = 1 .. n /\ DOMAIN s = 1 .. n BY <1>2
<1>4. IsFiniteSet(1 .. n) BY <1>3, FS_Interval
<1> HIDE DEF d, s
<1>5. IsFiniteSet({d[j] : j \in 1 .. n}) /\ IsFiniteSet({s[j] : j \in 1 .. n})
  BY <1>3, <1>4, FiniteImage
<1>6. ToSet(d) = {d[j] : j \in 1 .. n} /\ ToSet(s) = {s[j] : j \in 1 .. n} BY <1>3 DEF ToSet
<1>7. IsFiniteSet(ToSet(d) \cup ToSet(s)) BY <1>5, <1>6, FS_Union
<1>8. IsFiniteSet(Paths(ToSet(d) \cup ToSet(s))) BY <1>7, FinitePaths
<1>9. IsFiniteSet(run[q].wrote) BY <1>1 DEF Begun
<1>10. IsFiniteSet(Touched(q)) BY <1>8, <1>9, FS_Union DEF Touched, d, s
<1>11. IsFiniteSet(Paths(Inputs[q])) BY PathConstants, FinitePaths
<1> QED BY <1>10, <1>11, FS_Union DEF Near

LEMMA DiskFinite ==
    ASSUME IsFiniteSet(Runs), World, NEW m \in Machines
    PROVE  IsFiniteSet(DOMAIN disk[m])
<1> DEFINE near == [q \in Runs |-> Near(q)]
           S == {near[q] : q \in Runs}
<1>1. \A q \in Runs : IsFiniteSet(near[q]) BY NearFinite
<1>2. DOMAIN disk[m] \subseteq UNION S
  <2>1. \A p \in DOMAIN disk[m] : \E q \in Runs : p \in near[q] BY DEF World, Stock
  <2> HIDE DEF near
  <2> QED BY <2>1
<1>3. DOMAIN near = Runs OBVIOUS
<1> HIDE DEF near
<1>4. IsFiniteSet(S) BY <1>3, FiniteImage
<1>5. \A T \in S : IsFiniteSet(T) BY <1>1
<1> HIDE DEF S
<1>6. IsFiniteSet(UNION S) BY <1>4, <1>5, FS_UNION
<1> QED BY <1>2, <1>6, FS_Subset

LEMMA RenamedIs ==
    ASSUME NEW r \in Runs, NEW p, IsPath(p), NEW k \in Nat
    PROVE  /\ IsPath(Renamed(r, p, k)) /\ Renamed(r, p, k).dir = run[r].out
           /\ Renamed(r, p, k).suffix = IF k = 0 THEN p.suffix ELSE Append(p.suffix, k)
<1> DEFINE suffix == IF k = 0 THEN p.suffix ELSE Append(p.suffix, k)
<1>1. p = [dir |-> p.dir, name |-> p.name, suffix |-> p.suffix] /\ p.suffix \in Seq(Nat)
  BY DEF IsPath
<1>2. suffix \in Seq(Nat) BY <1>1
<1>3. Renamed(r, p, k) = [p EXCEPT !.dir = run[r].out, !.suffix = suffix]
  BY <1>1 DEF Renamed
<1> HIDE DEF suffix
<1>4. Renamed(r, p, k) = [dir |-> run[r].out, name |-> p.name, suffix |-> suffix]
  BY <1>1, <1>3
<1>5. IsPath(Renamed(r, p, k)) BY <1>2, <1>4 DEF IsPath
<1> QED BY <1>4, <1>5 DEF suffix

LEMMA RenamedDiffer ==
    ASSUME NEW r \in Runs, NEW p, IsPath(p), NEW k \in Nat, NEW j \in Nat, j # k
    PROVE  Renamed(r, p, j) # Renamed(r, p, k)
<1> DEFINE s == p.suffix
           With(n) == IF n = 0 THEN s ELSE Append(s, n)
<1>1. s \in Seq(Nat) /\ Len(s) \in Nat BY DEF IsPath
<1> HIDE DEF s
<1>2. \A n \in Nat : n # 0 => Len(With(n)) = Len(s) + 1 /\ With(n)[Len(s) + 1] = n
  BY <1>1
<1>3. With(0) = s BY <1>1
<1> HIDE DEF With
<1>4. With(j) # With(k)
  <2>1. CASE j = 0
    <3>1. Len(With(k)) = Len(s) + 1 BY <1>2, <2>1
    <3> QED BY <1>1, <1>3, <2>1, <3>1
  <2>2. CASE k = 0
    <3>1. Len(With(j)) = Len(s) + 1 BY <1>2, <2>2
    <3> QED BY <1>1, <1>3, <2>2, <3>1
  <2>3. CASE j # 0 /\ k # 0 BY <1>2, <2>3
  <2> QED BY <2>1, <2>2, <2>3
<1>5. Renamed(r, p, j).suffix = With(j) /\ Renamed(r, p, k).suffix = With(k)
  BY RenamedIs DEF With, s
<1> QED BY <1>4, <1>5

\* _dest_rel finds a name that is not taken, in the run's folder.
LEMMA DestIsFree ==
    ASSUME NEW r \in Runs, NEW files, NEW p, IsPath(p),
           IsFiniteSet(run[r].used \cup DOMAIN files)
    PROVE  /\ Dest(r, files, p) \notin run[r].used \cup DOMAIN files
           /\ Dest(r, files, p).dir = run[r].out /\ IsPath(Dest(r, files, p))
<1> DEFINE taken == run[r].used \cup DOMAIN files
           N == Cardinality(taken)
           Name(k) == Renamed(r, p, k)
           Unused == {k \in 0 .. N : Name(k) \notin taken}
<1>1. N \in Nat /\ IsFiniteSet(taken) BY FS_CardinalityType
<1>2. IsFiniteSet(0 .. N) /\ Cardinality(0 .. N) = N + 1 BY <1>1, FS_Interval
<1>3. Unused # {}
  <2> SUFFICES ASSUME Unused = {} PROVE FALSE OBVIOUS
  <2> DEFINE f == [k \in 0 .. N |-> Name(k)]
  <2>1. f \in [0 .. N -> taken] /\ \A k \in 0 .. N : f[k] = Name(k) OBVIOUS
  <2>2. PICK j, k \in 0 .. N : j # k /\ f[j] = f[k]
    <3> HIDE DEF f, taken
    <3> QED BY SMTT(30), <1>1, <1>2, <2>1, FS_PigeonHole
  <2>3. j \in Nat /\ k \in Nat BY <1>1
  <2>4. Name(j) = Name(k)
    <3> HIDE DEF f, Name
    <3> QED BY <2>1, <2>2
  <2> QED BY <2>2, <2>3, <2>4, RenamedDiffer
<1>4. PICK k \in Unused : \A j \in Unused : ~ (j < k)
  <2>1. Unused \in SUBSET Nat BY <1>1
  <2> QED BY <1>3, <2>1, Least
<1>5. /\ k \in 0 .. N /\ Name(k) \notin taken
      /\ \A j \in 0 .. (k - 1) : Name(j) \in taken
  BY <1>1, <1>4
<1>6. PICK n \in 0 .. N : Dest(r, files, p) = Name(n) /\ Name(n) \notin taken
  BY <1>5 DEF Dest
<1>7. n \in Nat BY <1>1
<1> QED BY <1>6, <1>7, RenamedIs

-----------------------------------------------------------------------------
(* The filing of a result, one value at a time.                            *)

\* The value the run is at becomes e, the others stay.
Refiled(r, e) ==
    /\ run'[r].result \in Seq(ToSet(run'[r].result))
    /\ DOMAIN run'[r].result = DOMAIN run[r].result
    /\ run'[r].result[run[r].i] = e
    /\ \A j \in DOMAIN run[r].result \ {run[r].i} : run'[r].result[j] = run[r].result[j]

Files(r, e) ==
    /\ \A q \in Runs \ {r} : run'[q] = run[q]
    /\ run[r].pc \in Filing /\ run'[r].pc \in Filing /\ run[r].i \in DOMAIN run[r].result
    /\ run'[r].wrote = run[r].wrote /\ run'[r].count = run[r].count
    /\ run'[r].deliverable = run[r].deliverable /\ run'[r].meant = run[r].meant
    /\ run'[r].out = run[r].out /\ run[r].failed \subseteq run'[r].failed
    /\ Refiled(r, e) /\ UNCHANGED <<bucket, memo>>

\* Aim leaves the value ...
AimLeaves(r) ==
    /\ Files(r, ValueAt(r)) /\ ~ Known(r, ValueAt(r))
    /\ run'[r].pc = "aim" /\ run'[r].i = run[r].i + 1
    /\ run'[r].used = run[r].used /\ run'[r].moved = run[r].moved
    /\ \/ LeftAlone(r, ValueAt(r)) /\ UNCHANGED disk
       \/ \E ps \in SUBSET {ValueAt(r).path} :
             /\ disk' = [disk EXCEPT ![Machine[r]] = PulledFrom(Machine[r], ps)]
             /\ ValueAt(r).path \notin DOMAIN PulledFrom(Machine[r], ps)

\* ... or gives it the place its file has got already ...
AimRenames(r) ==
    /\ Known(r, ValueAt(r))
    /\ Files(r, [path |-> run[r].moved[ValueAt(r).path], form |-> ValueAt(r).form])
    /\ run'[r].pc = "aim" /\ run'[r].i = run[r].i + 1
    /\ run'[r].used = run[r].used /\ run'[r].moved = run[r].moved
    /\ UNCHANGED disk

\* ... or a new one.
AimTakes(r) ==
    /\ Files(r, ValueAt(r)) /\ ~ Known(r, ValueAt(r)) /\ ~ LeftAlone(r, ValueAt(r))
    /\ run'[r].pc = "move" /\ run'[r].i = run[r].i /\ run'[r].moved = run[r].moved
    /\ run'[r].used = run[r].used \cup {run'[r].dst}
    /\ \E ps \in SUBSET {ValueAt(r).path} :
          /\ disk' = [disk EXCEPT ![Machine[r]] = PulledFrom(Machine[r], ps)]
          /\ ValueAt(r).path \in DOMAIN PulledFrom(Machine[r], ps)
          /\ run'[r].dst = Dest(r, PulledFrom(Machine[r], ps), ValueAt(r).path)

LEMMA Refiles ==
    ASSUME NEW r \in Runs, run[r].result \in Seq(ToSet(run[r].result)),
           run[r].i \in DOMAIN run[r].result, NEW e,
           \/ run'[r].result = run[r].result /\ e = ValueAt(r)
           \/ run'[r].result = [run[r].result EXCEPT ![run[r].i] = e]
    PROVE  Refiled(r, e)
<1>1. CASE run'[r].result = run[r].result /\ e = ValueAt(r)
  BY <1>1 DEF Refiled, ValueAt
<1>2. CASE run'[r].result = [run[r].result EXCEPT ![run[r].i] = e]
  <2> DEFINE S == ToSet(run[r].result)
             s == run[r].result
             i == run[r].i
  <2>1. s \in Seq(S) /\ i \in 1 .. Len(s) /\ DOMAIN s = 1 .. Len(s)
    <3>1. DOMAIN s = 1 .. Len(s) OBVIOUS
    <3> QED BY <3>1
  <2>2. run'[r].result = [s EXCEPT ![i] = e] BY <1>2
  <2> HIDE DEF S, s, i
  <2>3. /\ [s EXCEPT ![i] = e] \in Seq(ToSet([s EXCEPT ![i] = e]))
        /\ DOMAIN [s EXCEPT ![i] = e] = DOMAIN s
        /\ [s EXCEPT ![i] = e][i] = e
        /\ \A j \in DOMAIN s \ {i} : [s EXCEPT ![i] = e][j] = s[j]
    BY <2>1, ChangedElement
  <2>4. /\ run'[r].result \in Seq(ToSet(run'[r].result)) /\ DOMAIN run'[r].result = DOMAIN s
        /\ run'[r].result[i] = e /\ \A j \in DOMAIN s \ {i} : run'[r].result[j] = s[j]
    BY <2>2, <2>3
  <2> QED BY <2>4 DEF Refiled, s, i
<1> QED BY <1>1, <1>2

\* A value of a run that ends.
LEMMA ValueAtEnd ==
    ASSUME World, NEW r \in Runs, run[r].pc \in Ending, run[r].i =< Len(run[r].result)
    PROVE  /\ run[r].i \in DOMAIN run[r].result /\ IsValue(ValueAt(r))
           /\ run[r].result \in Seq(ToSet(run[r].result)) /\ run[r].i \in Nat
<1>1. Ended(r) BY DEF World, RunShape
<1>2. /\ run[r].result \in Seq(ToSet(run[r].result)) /\ run[r].i \in Nat \ {0}
      /\ \A j \in DOMAIN run[r].result : ValueOf(r, j)
  BY <1>1 DEF Ended
<1>3. run[r].i \in DOMAIN run[r].result BY <1>2
<1> QED BY <1>2, <1>3 DEF ValueOf, ValueAt

LEMMA AimFields ==
    ASSUME FoldersInv, World, NEW r \in Runs, Aim(r)
    PROVE  AimLeaves(r) \/ AimRenames(r) \/ AimTakes(r)
<1> DEFINE v == ValueAt(r)
           m == Machine[r]
           passed == [run EXCEPT ![r].i = @ + 1]
<1>0. IsRun(run[r]) /\ DOMAIN run = Runs BY DEF FoldersInv, Shapes
<1>a. run[r].pc = "aim" /\ UNCHANGED <<bucket, memo>> BY Zenon DEF Aim
<1>b. run[r].i =< Len(run[r].result) BY Zenon DEF Aim
<1>c. /\ run[r].i \in DOMAIN run[r].result /\ IsValue(v)
      /\ run[r].result \in Seq(ToSet(run[r].result)) /\ run[r].i \in Nat
  BY <1>a, <1>b, ValueAtEnd DEF Ending
<1>1. /\ passed[r] = [run[r] EXCEPT !.i = @ + 1] /\ DOMAIN passed = Runs
      /\ \A q \in Runs \ {r} : passed[q] = run[q]
  BY <1>0
<1>2. /\ IsRun(passed[r]) /\ passed[r].pc = "aim" /\ passed[r].i = run[r].i + 1
      /\ passed[r].wrote = run[r].wrote /\ passed[r].deliverable = run[r].deliverable
      /\ passed[r].result = run[r].result /\ passed[r].count = run[r].count
      /\ passed[r].meant = run[r].meant /\ passed[r].out = run[r].out
      /\ passed[r].failed = run[r].failed /\ passed[r].used = run[r].used
      /\ passed[r].moved = run[r].moved
  <2> HIDE DEF passed
  <2> QED BY <1>0, <1>a, <1>1 DEF IsRun
<1>3. \/ /\ run' = passed /\ ~ Known(r, v)
         /\ \/ LeftAlone(r, v) /\ UNCHANGED disk
            \/ \E ps \in SUBSET {v.path} :
                  /\ disk' = [disk EXCEPT ![m] = PulledFrom(m, ps)]
                  /\ v.path \notin DOMAIN PulledFrom(m, ps)
      \/ /\ run' = [passed EXCEPT ![r].result[run[r].i].path = run[r].moved[v.path]]
         /\ Known(r, v) /\ UNCHANGED disk
      \/ /\ ~ Known(r, v) /\ ~ LeftAlone(r, v)
         /\ \E ps \in SUBSET {v.path} : \E dst :
               /\ disk' = [disk EXCEPT ![m] = PulledFrom(m, ps)]
               /\ v.path \in DOMAIN PulledFrom(m, ps)
               /\ dst = Dest(r, PulledFrom(m, ps), v.path)
               /\ run' = [run EXCEPT ![r].used = @ \cup {dst}, ![r].dst = dst,
                                     ![r].pc = "move"]
  <2> HIDE DEF passed
  <2>1. CASE Known(r, v)
    <3> QED BY <2>1 DEF Aim, passed
  <2>2. CASE ~ Known(r, v) /\ LeftAlone(r, v)
    <3> QED BY <2>2 DEF Aim, passed
  <2>3. CASE ~ Known(r, v) /\ ~ LeftAlone(r, v)
    <3>1. PICK ps \in SUBSET {v.path} :
             /\ disk' = [disk EXCEPT ![m] = PulledFrom(m, ps)]
             /\ run' = IF v.path \in DOMAIN PulledFrom(m, ps)
                       THEN [run EXCEPT ![r].used = @ \cup {Dest(r, PulledFrom(m, ps), v.path)},
                                        ![r].dst = Dest(r, PulledFrom(m, ps), v.path),
                                        ![r].pc = "move"]
                       ELSE passed
      BY <2>3 DEF Aim, passed
    <3> QED BY <2>3, <3>1
  <2> QED BY <2>1, <2>2, <2>3
<1> HIDE DEF passed, v
<1>4. ASSUME run' = passed PROVE Files(r, v)
  <2>1. Refiled(r, v) BY <1>2, <1>4, <1>c, Refiles DEF v
  <2> QED BY <1>1, <1>2, <1>4, <1>a, <1>c, <2>1 DEF Files, Filing
<1>5. CASE /\ run' = passed /\ ~ Known(r, v)
           /\ \/ LeftAlone(r, v) /\ UNCHANGED disk
              \/ \E ps \in SUBSET {v.path} :
                    /\ disk' = [disk EXCEPT ![m] = PulledFrom(m, ps)]
                    /\ v.path \notin DOMAIN PulledFrom(m, ps)
  <2>1. Files(r, v) BY <1>4, <1>5
  <2> QED BY <1>2, <1>5, <2>1 DEF AimLeaves, v
<1>6. CASE /\ run' = [passed EXCEPT ![r].result[run[r].i].path = run[r].moved[v.path]]
           /\ Known(r, v) /\ UNCHANGED disk
  <2> DEFINE np == run[r].moved[v.path]
             res == [passed[r].result EXCEPT ![run[r].i].path = np]
             e == [path |-> np, form |-> v.form]
  <2>1. run' = [passed EXCEPT ![r].result = res] BY <1>1, <1>6
  <2>2. res = [run[r].result EXCEPT ![run[r].i] = e]
    <3> HIDE DEF np
    <3>1. res = [run[r].result EXCEPT ![run[r].i] = [run[r].result[run[r].i] EXCEPT !.path = np]]
      BY <1>2
    <3>2. [run[r].result[run[r].i] EXCEPT !.path = np] = e BY <1>c DEF IsValue, v, ValueAt
    <3> QED BY <3>1, <3>2
  <2> HIDE DEF res, np
  <2>3. run'[r] = [passed[r] EXCEPT !.result = res] /\ \A q \in Runs \ {r} : run'[q] = run[q]
    BY <1>1, <2>1
  <2>4. /\ run'[r].pc = "aim" /\ run'[r].i = run[r].i + 1
        /\ run'[r].wrote = run[r].wrote /\ run'[r].deliverable = run[r].deliverable
        /\ run'[r].result = res /\ run'[r].count = run[r].count
        /\ run'[r].meant = run[r].meant /\ run'[r].out = run[r].out
        /\ run'[r].failed = run[r].failed /\ run'[r].used = run[r].used
        /\ run'[r].moved = run[r].moved
    BY <1>2, <2>3 DEF IsRun
  <2>5. Refiled(r, e)
    <3> HIDE DEF e
    <3> QED BY <1>c, <2>2, <2>4, Refiles
  <2>6. Files(r, e) BY <1>a, <1>c, <2>3, <2>4, <2>5 DEF Files, Filing
  <2> QED BY <1>6, <2>4, <2>6 DEF AimRenames, v, np
<1>7. CASE /\ ~ Known(r, v) /\ ~ LeftAlone(r, v)
           /\ \E ps \in SUBSET {v.path} : \E dst :
                 /\ disk' = [disk EXCEPT ![m] = PulledFrom(m, ps)]
                 /\ v.path \in DOMAIN PulledFrom(m, ps)
                 /\ dst = Dest(r, PulledFrom(m, ps), v.path)
                 /\ run' = [run EXCEPT ![r].used = @ \cup {dst}, ![r].dst = dst,
                                       ![r].pc = "move"]
  <2>0. PICK ps \in SUBSET {v.path} :
           \E dst :
              /\ disk' = [disk EXCEPT ![m] = PulledFrom(m, ps)]
              /\ v.path \in DOMAIN PulledFrom(m, ps)
              /\ dst = Dest(r, PulledFrom(m, ps), v.path)
              /\ run' = [run EXCEPT ![r].used = @ \cup {dst}, ![r].dst = dst,
                                    ![r].pc = "move"]
    BY <1>7
  <2>1. PICK dst :
           /\ disk' = [disk EXCEPT ![m] = PulledFrom(m, ps)]
           /\ v.path \in DOMAIN PulledFrom(m, ps)
           /\ dst = Dest(r, PulledFrom(m, ps), v.path)
           /\ run' = [run EXCEPT ![r].used = @ \cup {dst}, ![r].dst = dst, ![r].pc = "move"]
    BY <2>0
  <2>2. run' = [run EXCEPT ![r] = [run[r] EXCEPT !.used = @ \cup {dst}, !.dst = dst,
                                                 !.pc = "move"]]
    BY <1>0, <2>1
  <2>3. /\ run'[r] = [run[r] EXCEPT !.used = @ \cup {dst}, !.dst = dst, !.pc = "move"]
        /\ \A q \in Runs \ {r} : run'[q] = run[q]
    BY <1>0, <2>2
  <2>4. /\ run'[r].pc = "move" /\ run'[r].i = run[r].i
        /\ run'[r].wrote = run[r].wrote /\ run'[r].deliverable = run[r].deliverable
        /\ run'[r].result = run[r].result /\ run'[r].count = run[r].count
        /\ run'[r].meant = run[r].meant /\ run'[r].out = run[r].out
        /\ run'[r].failed = run[r].failed /\ run'[r].used = run[r].used \cup {dst}
        /\ run'[r].moved = run[r].moved /\ run'[r].dst = dst
    BY <1>0, <2>3 DEF IsRun
  <2>5. Refiled(r, v) BY <1>c, <2>4, Refiles DEF v
  <2>6. Files(r, v) BY <1>a, <1>c, <2>3, <2>4, <2>5 DEF Files, Filing
  <2> QED BY <1>7, <2>1, <2>4, <2>6 DEF AimTakes, v
<1> QED BY <1>3, <1>5, <1>6, <1>7

\* Move takes the file, or leaves it.
Found(r) == ValueAt(r).form = "string" /\ ValueAt(r).path \in DOMAIN disk[Machine[r]]

MoveTakes(r) ==
    /\ Found(r) /\ run[r].pc = "move"
    /\ Files(r, [path |-> run[r].dst, form |-> ValueAt(r).form])
    /\ run'[r].pc = "aim" /\ run'[r].i = run[r].i + 1 /\ run'[r].used = run[r].used
    /\ run'[r].moved = Put(run[r].moved, ValueAt(r).path, run[r].dst)
    /\ disk' = [disk EXCEPT ![Machine[r]] =
                  Put(Drop(disk[Machine[r]], ValueAt(r).path), run[r].dst,
                      disk[Machine[r]][ValueAt(r).path])]

MoveLeaves(r) ==
    /\ ~ Found(r) \/ ValueAt(r).path \in run'[r].failed
    /\ Files(r, ValueAt(r)) /\ run[r].pc = "move"
    /\ run'[r].pc = "aim" /\ run'[r].i = run[r].i + 1
    /\ run'[r].used = run[r].used /\ run'[r].moved = run[r].moved
    /\ UNCHANGED disk

LEMMA MoveFields ==
    ASSUME FoldersInv, World, NEW r \in Runs, Move(r)
    PROVE  MoveTakes(r) \/ MoveLeaves(r)
<1> DEFINE v == ValueAt(r)
           m == Machine[r]
           next == [run EXCEPT ![r].pc = "aim", ![r].i = @ + 1, ![r].dst = None]
           i == run[r].i
           s == run[r].result
           dst == run[r].dst
           files == disk[m]
<1>0. IsRun(run[r]) /\ DOMAIN run = Runs BY DEF FoldersInv, Shapes
<1>a. run[r].pc = "move" /\ UNCHANGED <<bucket, memo>> BY DEF Move
<1>b. /\ i \in DOMAIN s /\ IsValue(v) /\ s \in Seq(ToSet(s)) /\ i \in Nat
  <2>1. Aimed(r) /\ Ended(r) BY DEF World, RunShape
  <2>2. i \in DOMAIN s /\ s \in Seq(ToSet(s)) /\ i \in Nat /\ ValueOf(r, i)
    BY <1>a, <2>1 DEF Aimed, Ended, Ending
  <2> QED BY <2>2 DEF ValueOf, ValueAt
<1>1. /\ next[r] = [run[r] EXCEPT !.pc = "aim", !.i = @ + 1, !.dst = None]
      /\ DOMAIN next = Runs /\ \A q \in Runs \ {r} : next[q] = run[q]
  <2>1. next = [run EXCEPT ![r] = [run[r] EXCEPT !.pc = "aim", !.i = @ + 1, !.dst = None]]
    BY <1>0
  <2> QED BY <1>0, <2>1
<1>c. \/ /\ Found(r)
         /\ run' = [next EXCEPT ![r].moved = Put(@, v.path, dst), ![r].result[i].path = dst]
         /\ disk' = [disk EXCEPT ![m] = Put(Drop(files, v.path), dst, files[v.path])]
      \/ run' = [next EXCEPT ![r].failed = @ \cup {v.path}] /\ UNCHANGED disk
      \/ ~ Found(r) /\ run' = next /\ UNCHANGED disk
  BY DEF Move, Found
<1> HIDE DEF next
<1>2. /\ IsRun(next[r]) /\ next[r].pc = "aim" /\ next[r].i = i + 1
      /\ next[r].wrote = run[r].wrote /\ next[r].deliverable = run[r].deliverable
      /\ next[r].result = s /\ next[r].count = run[r].count
      /\ next[r].meant = run[r].meant /\ next[r].out = run[r].out
      /\ next[r].failed = run[r].failed /\ next[r].used = run[r].used
      /\ next[r].moved = run[r].moved
  BY <1>0, <1>1 DEF IsRun
<1> HIDE DEF v
<1>3. CASE ~ Found(r) /\ run' = next /\ UNCHANGED disk
  <2>1. Refiled(r, v) BY <1>2, <1>3, <1>b, Refiles DEF v
  <2>2. Files(r, v) BY <1>1, <1>2, <1>3, <1>a, <1>b, <2>1 DEF Files, Filing
  <2> QED BY <1>2, <1>3, <1>a, <2>2 DEF MoveLeaves, v
<1>4. CASE run' = [next EXCEPT ![r].failed = @ \cup {v.path}] /\ UNCHANGED disk
  <2> DEFINE lost == next[r].failed \cup {v.path}
  <2>0. run[r].failed \subseteq lost /\ v.path \in lost BY <1>2
  <2>1. run'[r] = [next[r] EXCEPT !.failed = lost] /\ \A q \in Runs \ {r} : run'[q] = run[q]
    BY <1>1, <1>4
  <2> HIDE DEF lost, s, i, dst
  <2>2. /\ run'[r].pc = "aim" /\ run'[r].i = i + 1
        /\ run'[r].wrote = run[r].wrote /\ run'[r].deliverable = run[r].deliverable
        /\ run'[r].result = s /\ run'[r].count = run[r].count
        /\ run'[r].meant = run[r].meant /\ run'[r].out = run[r].out
        /\ run'[r].failed = lost /\ run'[r].used = run[r].used
        /\ run'[r].moved = run[r].moved
    BY <1>2, <2>1 DEF IsRun
  <2>3. Refiled(r, v) BY <1>b, <2>2, Refiles DEF v, s, i
  <2>4. Files(r, v) BY <1>a, <1>b, <2>0, <2>1, <2>2, <2>3 DEF Files, Filing, i, s
  <2> QED BY <1>4, <1>a, <2>0, <2>2, <2>4 DEF MoveLeaves, v, i
<1>5. CASE /\ Found(r)
           /\ run' = [next EXCEPT ![r].moved = Put(@, v.path, dst), ![r].result[i].path = dst]
           /\ disk' = [disk EXCEPT ![m] = Put(Drop(files, v.path), dst, files[v.path])]
  <2> DEFINE e == [path |-> dst, form |-> v.form]
             t == [s EXCEPT ![i].path = dst]
             mv == Put(next[r].moved, v.path, dst)
  <2> HIDE DEF s, i, dst, m, files
  <2>1. run'[r] = [next[r] EXCEPT !.moved = mv, !.result = [@ EXCEPT ![i].path = dst]]
        /\ \A q \in Runs \ {r} : run'[q] = run[q]
    BY <1>1, <1>2, <1>5 DEF IsRun
  <2>2. run'[r] = [next[r] EXCEPT !.moved = mv, !.result = t]
    BY <1>2, <2>1 DEF IsRun
  <2>3. t = [s EXCEPT ![i] = e]
    <3>1. t = [s EXCEPT ![i] = [s[i] EXCEPT !.path = dst]] OBVIOUS
    <3>2. [s[i] EXCEPT !.path = dst] = e BY <1>b DEF IsValue, v, ValueAt, s, i
    <3> QED BY <3>1, <3>2
  <2>a. mv = Put(run[r].moved, v.path, dst) BY <1>2
  <2> HIDE DEF t, mv, e
  <2>4. /\ run'[r].pc = "aim" /\ run'[r].i = i + 1
        /\ run'[r].wrote = run[r].wrote /\ run'[r].deliverable = run[r].deliverable
        /\ run'[r].result = t /\ run'[r].count = run[r].count
        /\ run'[r].meant = run[r].meant /\ run'[r].out = run[r].out
        /\ run'[r].failed = run[r].failed /\ run'[r].used = run[r].used
        /\ run'[r].moved = mv
    BY <1>2, <2>2 DEF IsRun
  <2>5. Refiled(r, e) BY <1>b, <2>3, <2>4, Refiles DEF s, i
  <2>6. Files(r, e) BY <1>a, <1>b, <2>1, <2>4, <2>5 DEF Files, Filing, i, s
  <2> QED BY <1>5, <1>a, <2>4, <2>6, <2>a DEF MoveTakes, v, e, dst, i, m, files
<1> QED BY <1>3, <1>4, <1>5, <1>c

\* What a value may become: what it was, or the string of a file in the run's
\* folder that was not there.
MayBecome(r, e) ==
    /\ IsValue(e) /\ e.form = ValueAt(r).form
    /\ \/ e = ValueAt(r)
       \/ /\ e.form = "string" /\ IsPath(e.path)
          /\ e.path.dir = run[r].out /\ ValueAt(r).path.dir # run[r].out

\* The value a run is at is still as it was handed over.
LEMMA ValueIsSource ==
    ASSUME World, NEW r \in Runs, run[r].pc \in Filing, run[r].i \in DOMAIN run[r].result
    PROVE  /\ run[r].deliverable[run[r].i] = ValueAt(r)
           /\ Place(r, run[r].i) = ValueAt(r).path /\ Source(r, run[r].i) = ValueAt(r).path
           /\ IsPath(ValueAt(r).path) /\ IsValue(ValueAt(r))
           /\ run[r].i \in Nat \ {0} /\ run[r].i \in DOMAIN run[r].deliverable
           /\ \A j \in DOMAIN run[r].result : j \in Nat
<1>1. Ended(r) /\ Promises(r) /\ run[r].pc \in Ending
  BY DEF World, RunShape, Filing, Ending
<1>2. /\ run[r].i \in Nat \ {0} /\ ValueOf(r, run[r].i)
      /\ DOMAIN run[r].deliverable = DOMAIN run[r].result
      /\ run[r].result \in Seq(ToSet(run[r].result))
  BY <1>1 DEF Ended
<1>3. run[r].result[run[r].i] = run[r].deliverable[run[r].i]
  BY <1>1, <1>2 DEF Promises
<1>4. \A j \in DOMAIN run[r].result : j \in Nat BY <1>2
<1> QED BY <1>2, <1>3, <1>4 DEF ValueOf, ValueAt, Place, Source

LEMMA FilesFields ==
    ASSUME World, NEW r \in Runs, NEW e, Files(r, e), NEW i, i = run[r].i
    PROVE  /\ \A j : Source(r, j)' = Source(r, j)
           /\ \A j \in DOMAIN run[r].result \ {i} :
                 Place(r, j)' = Place(r, j) /\ run'[r].result[j] = run[r].result[j]
           /\ Place(r, i)' = e.path /\ run'[r].result[i] = e
           /\ DOMAIN run'[r].result = DOMAIN run[r].result
BY DEF Files, Refiled, Place, Source

LEMMA FilesRunStep ==
    ASSUME World, NEW r \in Runs, NEW e, Files(r, e), MayBecome(r, e),
           run'[r].i \in {run[r].i, run[r].i + 1},
           Promises(r)', Aimed(r)', Written(r)'
    PROVE  /\ RunStep(r) /\ Settled(r)
           /\ ValueAt(r).path \in Touched(r)' /\ ValueAt(r).path \in Near(r)'
           /\ e.path # ValueAt(r).path => MadeBy(r, e.path)'
<1> DEFINE s == run[r].result
           d == run[r].deliverable
           x == ValueAt(r).path
<1>i. PICK i : i = run[r].i OBVIOUS
<1>0. /\ Begun(r) /\ Ended(r) /\ Origins(r) /\ run[r].pc \in Ending /\ i \in DOMAIN s
  BY <1>i DEF World, RunShape, Files, Filing, Ending
<1>1. /\ d[i] = ValueAt(r) /\ Place(r, i) = x /\ Source(r, i) = x /\ IsPath(x)
      /\ i \in Nat \ {0} /\ i \in DOMAIN d
  BY <1>i, ValueIsSource DEF Files
<1>2. /\ \A j : Source(r, j)' = Source(r, j)
      /\ \A j \in DOMAIN s \ {i} : Place(r, j)' = Place(r, j) /\ run'[r].result[j] = s[j]
      /\ Place(r, i)' = e.path /\ run'[r].result[i] = e
      /\ DOMAIN run'[r].result = DOMAIN s
  BY <1>i, FilesFields
<1>3. Begun(r)' BY <1>0 DEF Begun, Files, Starting, Ending, Filing, Early
<1>4. Ended(r)'
  <2>1. DOMAIN d = DOMAIN s /\ DOMAIN run[r].meant = DOMAIN s BY <1>0 DEF Ended
  <2>2. run'[r].i \in Nat \ {0} BY <1>1, <1>i
  <2>3. ASSUME NEW j \in DOMAIN s PROVE ValueOf(r, j)'
    <3>1. ValueOf(r, j) BY <1>0 DEF Ended
    <3>2. CASE j # i BY <1>2, <3>1, <3>2 DEF ValueOf, Files
    <3>3. CASE j = i
      <4>1. /\ IsValue(e) /\ IsPath(e.path) /\ e.form = d[i].form
            /\ \/ e.path = x
               \/ e.form = "string" /\ e.path.dir = run[r].out /\ x.dir # run[r].out
        BY <1>1 DEF MayBecome
      <4> QED BY <1>1, <1>2, <3>1, <3>3, <4>1 DEF ValueOf, Files
    <3> QED BY <3>2, <3>3
  <2> QED BY <1>2, <2>1, <2>2, <2>3 DEF Ended, Files, Refiled
<1>5. RunShape(r)' BY <1>3, <1>4 DEF RunShape
<1>6. Origins(r)'
  <2>1. run[r].pc # "done" /\ run'[r].out = run[r].out /\ run'[r].deliverable = d
    BY DEF Files, Filing
  <2>2. \A p : Origin(r, p) => Origin(r, p)' BY <2>1 DEF Origin, Files
  <2>3. \A j \in DOMAIN d : Source(r, j).dir \in RunFolders => Origin(r, Source(r, j))
    BY <1>0 DEF Origins
  <2>4. \A j \in DOMAIN d : Source(r, j).dir \in RunFolders => Origin(r, Source(r, j))'
    <3> SUFFICES ASSUME NEW j \in DOMAIN d, Source(r, j).dir \in RunFolders
                 PROVE  Origin(r, Source(r, j))'
      BY <1>2
    <3>1. PICK p : p = Source(r, j) OBVIOUS
    <3>2. Origin(r, p)' BY <2>2, <2>3, <3>1
    <3> QED BY <1>2, <3>1, <3>2 DEF Origin
  <2> QED BY <1>2, <2>1, <2>4 DEF Origins
<1>7. x \in Touched(r)'
  <2>1. run'[r].deliverable = d BY DEF Files
  <2>2. d[i] \in ToSet(d) BY <1>1 DEF ToSet
  <2> QED BY <1>1, <2>1, <2>2 DEF Touched, Paths
<1>8. Touched(r) \subseteq Touched(r)'
  <2> SUFFICES ASSUME NEW p \in Touched(r) PROVE p \in Touched(r)' OBVIOUS
  <2>1. CASE p \in run[r].wrote \/ p \in Paths(ToSet(d)) BY <2>1 DEF Touched, Paths, Files
  <2>2. CASE p \in Paths(ToSet(s))
    <3>1. PICK j \in DOMAIN s : p = s[j].path BY <2>2 DEF Paths, ToSet
    <3>2. CASE j = i BY <1>7, <1>i, <3>1, <3>2 DEF ValueAt
    <3>3. CASE j # i
      <4>1. s[j] \in ToSet(run'[r].result) BY <1>2, <3>3 DEF ToSet
      <4> QED BY <3>1, <4>1 DEF Touched, Paths
    <3> QED BY <3>2, <3>3
  <2> QED BY <2>1, <2>2 DEF Touched, Paths
<1>9. ASSUME NEW p, MadeBy(r, p) PROVE MadeBy(r, p)'
  <2>1. CASE p \in run[r].wrote BY <2>1 DEF MadeBy, Files
  <2>2. CASE \E j \in DOMAIN s : p = Place(r, j) /\ p # Source(r, j)
    <3>1. PICK j \in DOMAIN s : p = Place(r, j) /\ p # Source(r, j) BY <2>2
    <3>2. j # i BY <1>1, <3>1
    <3> QED BY <1>2, <3>1, <3>2 DEF MadeBy
  <2> QED BY <1>9, <2>1, <2>2 DEF MadeBy
<1>10. e.path # x => MadeBy(r, e.path)' BY <1>0, <1>1, <1>2 DEF MadeBy
<1>11. Settled(r) BY <1>0, TouchesSettled
<1>12. Settled(r)' BY <1>11 DEF Settled, Files, Filing
<1>13. RunStep(r)
  <2>1. run[r].pc # "done" /\ run'[r].out = run[r].out
        /\ run'[r].wrote = run[r].wrote /\ \A q \in Runs \ {r} : run'[q] = run[q]
    BY DEF Files, Filing
  <2> QED BY <1>5, <1>6, <1>8, <1>9, <1>12, <2>1 DEF RunStep
<1>14. x \in Near(r)' BY <1>7, TouchedNear
<1> QED BY <1>7, <1>10, <1>11, <1>13, <1>14

\* A pull keeps what the run holds.
LEMMA PulledKeeps ==
    ASSUME DOMAIN disk = Machines, NEW r \in Runs,
           \/ UNCHANGED disk
           \/ \E ps : disk' = [disk EXCEPT ![Machine[r]] = PulledFrom(Machine[r], ps)]
    PROVE  /\ DOMAIN disk[Machine[r]] \subseteq DOMAIN disk'[Machine[r]]
           /\ \A p, c : Holding(r, p, c) => Holding(r, p, c)'
<1>0. Machine[r] \in Machines BY DEF Machines
<1>1. CASE UNCHANGED disk BY <1>1 DEF Holding
<1>2. CASE \E ps : disk' = [disk EXCEPT ![Machine[r]] = PulledFrom(Machine[r], ps)]
  <2>1. PICK ps : disk' = [disk EXCEPT ![Machine[r]] = PulledFrom(Machine[r], ps)] BY <1>2
  <2>2. disk'[Machine[r]] = PulledFrom(Machine[r], ps) BY <1>0, <2>1
  <2> QED BY <2>2, Pulls DEF Holding
<1> QED BY <1>1, <1>2

LEMMA FilesWritten ==
    ASSUME World, NEW r \in Runs, NEW e, Files(r, e),
           \A p \in DOMAIN disk[Machine[r]] :
              p \in DOMAIN disk'[Machine[r]] \/ p.dir # run[r].out
    PROVE  Written(r)'
<1>1. Written(r) BY DEF World
<1> QED BY <1>1, WrittenKept DEF Files, Filing

\* The values that the run has filed, and those that wait, are as they were.
LEMMA OthersSame ==
    ASSUME World, NEW r \in Runs, NEW e, Files(r, e), RunStep(r),
           run'[r].moved = run[r].moved, run'[r].pc = "aim",
           \A p, c : Holding(r, p, c) => Holding(r, p, c)',
           NEW i, i = run[r].i, NEW j \in DOMAIN run[r].result \ {i}
    PROVE  (Kept(r, j) => Kept(r, j)') /\ (Filed(r, j) => Filed(r, j)')
<1>1. PICK p, s, c : p = Place(r, j) /\ s = Source(r, j) /\ c = run[r].meant[j] OBVIOUS
<1>2. /\ Place(r, j)' = p /\ Source(r, j)' = s /\ run'[r].meant[j] = c
      /\ run'[r].result[j] = run[r].result[j] /\ run'[r].wrote = run[r].wrote
  BY <1>1, FilesFields DEF Files
<1>3. \A x : Busy(r, x) => Busy(r, x)' BY OthersGrow
<1>4. Kept(r, j) => Kept(r, j)'
  <2>1. CASE run[r].result[j].form = "string" /\ s \in DOMAIN run[r].moved
    <3> SUFFICES ASSUME Kept(r, j) PROVE Kept(r, j)' OBVIOUS
    <3>1. PICK x : /\ x = run[r].moved[s]
                   /\ Busy(r, x) \/ (x \notin run[r].wrote /\ Holding(r, x, c))
      BY <1>1, <2>1 DEF Kept
    <3>2. Busy(r, x)' \/ (x \notin run[r].wrote /\ Holding(r, x, c)') BY <1>3, <3>1
    <3> QED BY <1>2, <2>1, <3>1, <3>2 DEF Kept, Holding
  <2>2. CASE ~ (run[r].result[j].form = "string" /\ s \in DOMAIN run[r].moved)
    <3> SUFFICES ASSUME Kept(r, j) PROVE Kept(r, j)' OBVIOUS
    <3>1. Holding(r, s, c) BY <1>1, <2>2 DEF Kept
    <3> QED BY <1>2, <2>2, <3>1 DEF Kept, Holding
  <2> QED BY <2>1, <2>2
<1>5. Filed(r, j) => Filed(r, j)'
  <2> SUFFICES ASSUME Filed(r, j), ~ Busy(r, p)' PROVE Filed(r, j)' BY <1>2 DEF Filed
  <2>1. ~ Busy(r, p) /\ run[r].pc # "done" BY <1>3 DEF Files, Filing
  <2>2. Holding(r, p, c)' BY <1>1, <2>1 DEF Filed
  <2> QED BY <1>1, <1>2, <2>1, <2>2 DEF Filed, Holding, Files
<1> QED BY <1>4, <1>5

\* When a value is passed, it is filed and the others follow.
LEMMA FilesFollow ==
    ASSUME World, NEW r \in Runs, NEW e, Files(r, e), RunStep(r), Settled(r), FollowsAll(r),
           run'[r].pc = "aim", NEW i, i = run[r].i, run'[r].i = i + 1,
           \A j \in DOMAIN run[r].result : ~ Lost(r, j)' /\ ~ Lost(r, j) =>
              /\ j > i /\ Kept(r, j) => Kept(r, j)'
              /\ j < i /\ Filed(r, j) => Filed(r, j)'
              /\ j = i /\ Kept(r, j) => Filed(r, j)'
    PROVE  FollowsAll(r)' /\ ClearDst(r)'
<1>0. i \in Nat /\ \A j \in DOMAIN run[r].result : j \in Nat
  BY ValueIsSource DEF Files
<1>1. /\ \A j : Source(r, j)' = Source(r, j)
      /\ DOMAIN run'[r].result = DOMAIN run[r].result
  BY FilesFields
<1>2. ASSUME NEW j \in DOMAIN run[r].result, ~ Lost(r, j)' PROVE Follows(r, j)'
  <2>1. ~ Lost(r, j) BY <1>2, LostGrows DEF Files
  <2>2. Follows(r, j) BY <1>2 DEF FollowsAll, Files, Filing, Ending
  <2>3. Source(r, j) \in Uploads \cup run[r].wrote /\ (j >= i => Kept(r, j))
        /\ (j < i => Filed(r, j))
    BY <2>1, <2>2 DEF Follows, Files
  <2>4. j >= i + 1 => Kept(r, j)' BY <1>0, <1>2, <2>1, <2>3
  <2>5. j < i + 1 => Filed(r, j)'
    <3>1. CASE j < i BY <1>2, <2>1, <2>3, <3>1
    <3>2. CASE j = i BY <1>0, <1>2, <2>1, <2>3, <3>2
    <3> QED BY <1>0, <3>1, <3>2
  <2> QED BY <1>1, <2>3, <2>4, <2>5 DEF Follows, Files
<1>3. FollowsAll(r)'
  <2>1. ASSUME NEW j \in DOMAIN run[r].result PROVE Follows(r, j)'
    BY <1>2, <2>1 DEF Follows
  <2> QED BY <1>1, <2>1 DEF FollowsAll
<1> QED BY <1>3 DEF ClearDst

LEMMA AimLeavesStep ==
    ASSUME FoldersInv, DOMAIN disk = Machines, World, NEW r \in Runs, AimLeaves(r),
           FollowsAll(r)
    PROVE  Step(r) /\ FollowsAll(r)' /\ ClearDst(r)'
<1>i. PICK i, v, x : i = run[r].i /\ v = ValueAt(r) /\ x = v.path OBVIOUS
<1>0. Files(r, v) /\ Promises(r) /\ DOMAIN memo = Machines /\ run[r].pc \in Filing
  BY <1>i DEF AimLeaves, World, RunShape, Stock, Files
<1>1. /\ run[r].deliverable[i] = v /\ Place(r, i) = x /\ Source(r, i) = x
      /\ IsValue(v) /\ IsPath(x) /\ i \in Nat \ {0} /\ i \in DOMAIN run[r].result
      /\ \A j \in DOMAIN run[r].result : j \in Nat
  BY <1>i, <1>0, ValueIsSource DEF Files
<1>2. \/ LeftAlone(r, v) /\ UNCHANGED disk
      \/ \E ps \in SUBSET {x} :
            /\ disk' = [disk EXCEPT ![Machine[r]] = PulledFrom(Machine[r], ps)]
            /\ x \notin DOMAIN PulledFrom(Machine[r], ps)
  BY <1>i DEF AimLeaves
<1>3. /\ DOMAIN disk[Machine[r]] \subseteq DOMAIN disk'[Machine[r]]
      /\ \A p, c : Holding(r, p, c) => Holding(r, p, c)'
  BY <1>2, PulledKeeps
<1>4. /\ \A j : Source(r, j)' = Source(r, j)
      /\ \A j \in DOMAIN run[r].result \ {i} : Place(r, j)' = Place(r, j)
      /\ Place(r, i)' = x /\ run'[r].result[i] = v
      /\ \A j \in DOMAIN run[r].result : run'[r].result[j] = run[r].result[j]
      /\ DOMAIN run'[r].result = DOMAIN run[r].result
  BY <1>i, <1>0, FilesFields DEF ValueAt
<1>5. RunStep(r) /\ Settled(r) /\ x \in Near(r)'
  <2>1. Written(r)' BY <1>0, <1>3, FilesWritten
  <2>2. Promises(r)'
    <3>1. \A j \in DOMAIN run[r].result : Place(r, j)' = Place(r, j) BY <1>1, <1>4
    <3> QED BY <1>i, <1>0, <1>1, <1>4, <3>1 DEF Promises, AimLeaves, Files, Filing
  <2>3. Aimed(r)' BY DEF Aimed, AimLeaves
  <2>4. MayBecome(r, v) BY <1>i, <1>1 DEF MayBecome
  <2>5. run'[r].i \in {run[r].i, run[r].i + 1} BY DEF AimLeaves
  <2> QED BY <1>i, <1>0, <2>1, <2>2, <2>3, <2>4, <2>5, FilesRunStep
<1>6. Step(r)
  <2>1. DiskStep(r)
    <3>1. CASE UNCHANGED disk BY <3>1, DiskStays
    <3>2. CASE \E ps \in SUBSET {x} :
                  disk' = [disk EXCEPT ![Machine[r]] = PulledFrom(Machine[r], ps)]
      <4>1. PICK ps \in SUBSET {x} :
                  disk' = [disk EXCEPT ![Machine[r]] = PulledFrom(Machine[r], ps)]
        BY <3>2
      <4>2. ps \subseteq Near(r)' BY <1>5
      <4> QED BY <4>1, <4>2, PullStep
    <3> QED BY <1>2, <3>1, <3>2
  <2>2. BucketStep(r) BY <1>0, BucketStays DEF Files
  <2> QED BY <1>5, <2>1, <2>2 DEF Step
<1>7. ASSUME NEW j \in DOMAIN run[r].result, ~ Lost(r, j)', ~ Lost(r, j)
      PROVE  /\ j # i /\ Kept(r, j) => Kept(r, j)'
             /\ j # i /\ Filed(r, j) => Filed(r, j)'
             /\ j = i /\ Kept(r, j) => Filed(r, j)'
  <2>1. ASSUME j # i PROVE (Kept(r, j) => Kept(r, j)') /\ (Filed(r, j) => Filed(r, j)')
    BY <1>i, <1>0, <1>3, <1>5, <2>1, OthersSame DEF AimLeaves
  <2>2. ASSUME j = i, Kept(r, j) PROVE Filed(r, j)'
    <3>1. PICK c : c = run[r].meant[i] OBVIOUS
    <3>2. Holding(r, x, c)
      <4>1. ~ (v.form = "string" /\ x \in DOMAIN run[r].moved)
        BY <1>i DEF AimLeaves, Known
      <4> QED BY <1>i, <1>1, <2>2, <3>1, <4>1 DEF Kept, ValueAt
    <3>3. LeftAlone(r, v) BY <1>2, <3>2, Pulls DEF Holding
    <3>4. x.dir # Root BY <1>1, <1>7, <2>2 DEF Lost
    <3>5. x.dir = run[r].out BY <1>i, <3>3, <3>4 DEF LeftAlone
    <3>6. Holding(r, x, c)' BY <1>3, <3>2
    <3> QED BY <1>0, <1>1, <1>4, <2>2, <3>1, <3>5, <3>6 DEF Filed, Holding, AimLeaves, Files
  <2> QED BY <2>1, <2>2
<1>8. FollowsAll(r)' /\ ClearDst(r)'
  <2>1. run'[r].pc = "aim" /\ run'[r].i = i + 1 BY <1>i DEF AimLeaves
  <2>2. \A j \in DOMAIN run[r].result : ~ Lost(r, j)' /\ ~ Lost(r, j) =>
              /\ j > i /\ Kept(r, j) => Kept(r, j)'
              /\ j < i /\ Filed(r, j) => Filed(r, j)'
              /\ j = i /\ Kept(r, j) => Filed(r, j)'
    BY <1>1, <1>7
  <2> QED BY <1>i, <1>0, <1>5, <2>1, <2>2, FilesFollow
<1> QED BY <1>6, <1>8

LEMMA AimRenamesStep ==
    ASSUME FoldersInv, DOMAIN disk = Machines, World, NEW r \in Runs, AimRenames(r),
           FollowsAll(r)
    PROVE  Step(r) /\ FollowsAll(r)' /\ ClearDst(r)'
<1>i. PICK i, v, x, y, e :
          /\ i = run[r].i /\ v = ValueAt(r) /\ x = v.path /\ y = run[r].moved[x]
          /\ e = [path |-> y, form |-> v.form]
  OBVIOUS
<1>0. Files(r, e) /\ Promises(r) /\ DOMAIN memo = Machines /\ run[r].pc \in Filing
      /\ UNCHANGED disk
  BY <1>i DEF AimRenames, World, RunShape, Stock, Files
<1>1. /\ run[r].deliverable[i] = v /\ Place(r, i) = x /\ Source(r, i) = x
      /\ IsValue(v) /\ IsPath(x) /\ i \in Nat \ {0} /\ i \in DOMAIN run[r].result
      /\ \A j \in DOMAIN run[r].result : j \in Nat
  BY <1>i, <1>0, ValueIsSource DEF Files
<1>2. /\ v.form = "string" /\ x \in DOMAIN run[r].moved
      /\ x.dir # run[r].out /\ IsPath(y) /\ y.dir = run[r].out /\ y \in run[r].used
  BY <1>i, <1>0 DEF AimRenames, Known, Promises
<1>3. \A p, c : Holding(r, p, c) => Holding(r, p, c)' BY <1>0 DEF Holding
<1>4. /\ \A j : Source(r, j)' = Source(r, j)
      /\ \A j \in DOMAIN run[r].result \ {i} :
            Place(r, j)' = Place(r, j) /\ run'[r].result[j] = run[r].result[j]
      /\ Place(r, i)' = y /\ run'[r].result[i] = e
      /\ DOMAIN run'[r].result = DOMAIN run[r].result
  BY <1>i, <1>0, FilesFields
<1>5. RunStep(r) /\ Settled(r)
  <2>1. Written(r)' BY <1>0, FilesWritten
  <2>2. Promises(r)'
    <3>1. run'[r].pc = "aim" /\ run'[r].i = i + 1 /\ run'[r].moved = run[r].moved
          /\ run'[r].used = run[r].used /\ run'[r].out = run[r].out
          /\ run'[r].deliverable = run[r].deliverable
      BY <1>i DEF AimRenames, Files
    <3>2. ASSUME NEW j \in DOMAIN run[r].result
          PROVE  /\ j >= i + 1 => run'[r].result[j] = run[r].deliverable[j]
                 /\ Place(r, j)' # Source(r, j)' => Place(r, j)' \in run[r].used
      <4>1. CASE j = i BY <1>1, <1>2, <1>4, <4>1
      <4>2. CASE j # i BY <1>i, <1>0, <1>1, <1>4, <4>2 DEF Promises
      <4> QED BY <4>1, <4>2
    <3> QED BY <1>0, <1>4, <3>1, <3>2 DEF Promises
  <2>3. Aimed(r)' BY DEF Aimed, AimRenames
  <2>4. MayBecome(r, e) BY <1>i, <1>2 DEF MayBecome, IsValue
  <2>5. run'[r].i \in {run[r].i, run[r].i + 1} BY DEF AimRenames
  <2> QED BY <1>0, <2>1, <2>2, <2>3, <2>4, <2>5, FilesRunStep
<1>6. Step(r)
  <2>1. DiskStep(r) BY <1>0, DiskStays
  <2>2. BucketStep(r) BY <1>0, BucketStays DEF Files
  <2> QED BY <1>5, <2>1, <2>2 DEF Step
<1>7. ASSUME NEW j \in DOMAIN run[r].result, ~ Lost(r, j)', ~ Lost(r, j)
      PROVE  /\ j # i /\ Kept(r, j) => Kept(r, j)'
             /\ j # i /\ Filed(r, j) => Filed(r, j)'
             /\ j = i /\ Kept(r, j) => Filed(r, j)'
  <2>1. ASSUME j # i PROVE (Kept(r, j) => Kept(r, j)') /\ (Filed(r, j) => Filed(r, j)')
    BY <1>i, <1>0, <1>3, <1>5, <2>1, OthersSame DEF AimRenames
  <2>2. ASSUME j = i, Kept(r, j) PROVE Filed(r, j)'
    <3>1. PICK c : c = run[r].meant[i] OBVIOUS
    <3>2. Busy(r, y) \/ (y \notin run[r].wrote /\ Holding(r, y, c))
      BY <1>i, <1>1, <1>2, <2>2, <3>1 DEF Kept, ValueAt
    <3>3. CASE Busy(r, y)
      <4>1. Busy(r, y)' BY <1>5, <3>3, OthersGrow
      <4> QED BY <1>4, <2>2, <4>1 DEF Filed, Busy
    <3>4. CASE y \notin run[r].wrote /\ Holding(r, y, c)
      <4>1. Holding(r, y, c)' BY <1>3, <3>4
      <4>2. run'[r].pc = "aim" /\ run'[r].wrote = run[r].wrote /\ run'[r].meant = run[r].meant
        BY DEF AimRenames, Files
      <4> QED BY <1>1, <1>2, <1>4, <2>2, <3>1, <3>4, <4>1, <4>2 DEF Filed, Holding
    <3> QED BY <3>2, <3>3, <3>4
  <2> QED BY <2>1, <2>2
<1>8. FollowsAll(r)' /\ ClearDst(r)'
  <2>1. run'[r].pc = "aim" /\ run'[r].i = i + 1 BY <1>i DEF AimRenames
  <2>2. \A j \in DOMAIN run[r].result : ~ Lost(r, j)' /\ ~ Lost(r, j) =>
              /\ j > i /\ Kept(r, j) => Kept(r, j)'
              /\ j < i /\ Filed(r, j) => Filed(r, j)'
              /\ j = i /\ Kept(r, j) => Filed(r, j)'
    BY <1>1, <1>7
  <2> QED BY <1>i, <1>0, <1>5, <2>1, <2>2, FilesFollow
<1> QED BY <1>6, <1>8

\* The place a value gets is free, on the disk and among those promised.
LEMMA AimTakesStep ==
    ASSUME IsFiniteSet(Runs), FoldersInv, DOMAIN disk = Machines, World, NEW r \in Runs,
           AimTakes(r), FollowsAll(r)
    PROVE  Step(r) /\ FollowsAll(r)' /\ ClearDst(r)'
<1>i. PICK i, v, x, dst : i = run[r].i /\ v = ValueAt(r) /\ x = v.path /\ dst = run'[r].dst
  OBVIOUS
<1>0. Files(r, v) /\ Promises(r) /\ DOMAIN memo = Machines /\ run[r].pc \in Filing
      /\ Machine[r] \in Machines
  BY <1>i DEF AimTakes, World, RunShape, Stock, Files, Machines
<1>1. /\ run[r].deliverable[i] = v /\ Place(r, i) = x /\ Source(r, i) = x
      /\ IsValue(v) /\ IsPath(x) /\ i \in Nat \ {0} /\ i \in DOMAIN run[r].result
      /\ \A j \in DOMAIN run[r].result : j \in Nat
  BY <1>i, <1>0, ValueIsSource DEF Files
<1>2. PICK ps \in SUBSET {x} :
          /\ disk' = [disk EXCEPT ![Machine[r]] = PulledFrom(Machine[r], ps)]
          /\ dst = Dest(r, PulledFrom(Machine[r], ps), x)
  BY <1>i DEF AimTakes
<1>a. /\ run'[r].pc = "move" /\ run'[r].i = i /\ run'[r].moved = run[r].moved
      /\ run'[r].used = run[r].used \cup {dst} /\ run'[r].out = run[r].out
      /\ run'[r].deliverable = run[r].deliverable /\ run'[r].wrote = run[r].wrote
      /\ run'[r].meant = run[r].meant
  BY <1>i DEF AimTakes, Files
<1>3. /\ DOMAIN disk[Machine[r]] \subseteq DOMAIN disk'[Machine[r]]
      /\ \A p, c : Holding(r, p, c) => Holding(r, p, c)'
  BY <1>2, PulledKeeps
<1>4. /\ \A j : Source(r, j)' = Source(r, j)
      /\ \A j \in DOMAIN run[r].result :
            Place(r, j)' = Place(r, j) /\ run'[r].result[j] = run[r].result[j]
      /\ DOMAIN run'[r].result = DOMAIN run[r].result
  <2>1. /\ \A j : Source(r, j)' = Source(r, j)
        /\ \A j \in DOMAIN run[r].result \ {i} :
              Place(r, j)' = Place(r, j) /\ run'[r].result[j] = run[r].result[j]
        /\ Place(r, i)' = x /\ run'[r].result[i] = v
        /\ DOMAIN run'[r].result = DOMAIN run[r].result
    BY <1>i, <1>0, FilesFields
  <2> QED BY <1>i, <1>1, <2>1 DEF ValueAt
<1>5. /\ dst \notin run[r].used /\ dst \notin DOMAIN disk[Machine[r]]
      /\ dst.dir = run[r].out /\ IsPath(dst)
  <2>1. PICK files : files = PulledFrom(Machine[r], ps) OBVIOUS
  <2>2. IsFiniteSet(run[r].used) BY <1>0 DEF Promises
  <2>3. IsFiniteSet(DOMAIN disk[Machine[r]] \cup {x})
    <3>1. IsFiniteSet(DOMAIN disk[Machine[r]]) BY <1>0, DiskFinite
    <3> QED BY <3>1, FS_AddElement
  <2>4. DOMAIN files \subseteq DOMAIN disk[Machine[r]] \cup {x} BY <1>2, <2>1 DEF PulledFrom
  <2>5. IsFiniteSet(DOMAIN files) BY <2>3, <2>4, FS_Subset
  <2>6. IsFiniteSet(run[r].used \cup DOMAIN files) BY <2>2, <2>5, FS_Union
  <2>7. /\ dst \notin run[r].used \cup DOMAIN files
        /\ dst.dir = run[r].out /\ IsPath(dst)
    BY <1>1, <1>2, <2>1, <2>6, DestIsFree
  <2> QED BY <2>1, <2>7, Pulls
<1>6. RunStep(r) /\ Settled(r) /\ x \in Near(r)'
  <2>1. Written(r)' BY <1>0, <1>3, FilesWritten
  <2>2. Promises(r)'
    <3>1. IsFiniteSet(run[r].used \cup {dst})
      <4>1. IsFiniteSet(run[r].used) BY <1>0 DEF Promises
      <4> QED BY <4>1, FS_AddElement
    <3>2. ASSUME NEW j \in DOMAIN run[r].result
          PROVE  /\ j >= i => run[r].result[j] = run[r].deliverable[j]
                 /\ Place(r, j) # Source(r, j) => Place(r, j) \in run[r].used
      BY <1>i, <1>0 DEF Promises
    <3>3. ASSUME NEW s \in DOMAIN run[r].moved
          PROVE  /\ s.dir # run[r].out /\ IsPath(run[r].moved[s])
                 /\ run[r].moved[s].dir = run[r].out /\ run[r].moved[s] \in run[r].used
      BY <1>0 DEF Promises
    <3> QED BY <1>i, <1>a, <1>4, <1>5, <3>1, <3>2, <3>3 DEF Promises
  <2>3. Aimed(r)'
    <3>1. ~ LeftAlone(r, v) /\ ~ Known(r, v) BY <1>i DEF AimTakes
    <3>2. ~ LeftAlone(r, v)' /\ ~ Known(r, v)'
      BY <1>a, <3>1 DEF LeftAlone, Known
    <3>3. run'[r].result[run'[r].i] = v BY <1>i, <1>1, <1>4, <1>a DEF ValueAt
    <3> QED BY <1>i, <1>1, <1>4, <1>5, <1>a, <3>2, <3>3 DEF Aimed, ValueAt, LeftAlone, Known
  <2>4. MayBecome(r, v) BY <1>i, <1>1 DEF MayBecome
  <2>5. run'[r].i \in {run[r].i, run[r].i + 1} BY <1>i, <1>a
  <2> QED BY <1>i, <1>0, <2>1, <2>2, <2>3, <2>4, <2>5, FilesRunStep
<1>7. Step(r)
  <2>1. ps \subseteq Near(r)' BY <1>6
  <2>2. DiskStep(r) BY <1>2, <2>1, PullStep
  <2>3. BucketStep(r) BY <1>0, BucketStays DEF Files
  <2> QED BY <1>6, <2>2, <2>3 DEF Step
<1>8. ASSUME NEW j \in DOMAIN run[r].result, ~ Lost(r, j)' PROVE Follows(r, j)'
  <2>1. ~ Lost(r, j) BY <1>0, <1>6, <1>8, LostGrows DEF Files
  <2>2. Follows(r, j) BY <1>0, <1>8 DEF FollowsAll, Filing, Ending
  <2>3. Source(r, j) \in Uploads \cup run[r].wrote /\ (j >= i => Kept(r, j))
        /\ (j < i => Filed(r, j))
    BY <1>i, <1>0, <2>1, <2>2 DEF Follows
  <2>4. PICK p, s, c : p = Place(r, j) /\ s = Source(r, j) /\ c = run[r].meant[j] OBVIOUS
  <2>5. /\ Place(r, j)' = p /\ Source(r, j)' = s /\ run'[r].meant[j] = c
        /\ run'[r].result[j] = run[r].result[j]
    BY <1>4, <1>a, <2>4
  <2>6. \A y : Busy(r, y) => Busy(r, y)' BY <1>6, OthersGrow
  <2>7. ASSUME Kept(r, j) PROVE Kept(r, j)'
    <3>1. CASE run[r].result[j].form = "string" /\ s \in DOMAIN run[r].moved
      <4>1. PICK y : /\ y = run[r].moved[s]
                     /\ Busy(r, y) \/ (y \notin run[r].wrote /\ Holding(r, y, c))
        BY <2>4, <2>7, <3>1 DEF Kept
      <4>2. Busy(r, y)' \/ (y \notin run[r].wrote /\ Holding(r, y, c)')
        BY <1>3, <2>6, <4>1
      <4> QED BY <1>a, <2>5, <3>1, <4>1, <4>2 DEF Kept, Holding
    <3>2. CASE ~ (run[r].result[j].form = "string" /\ s \in DOMAIN run[r].moved)
      <4>1. Holding(r, s, c) BY <2>4, <2>7, <3>2 DEF Kept
      <4>2. Holding(r, s, c)' /\ dst # s BY <1>3, <1>5, <4>1 DEF Holding
      <4> QED BY <1>i, <1>a, <2>5, <3>2, <4>2 DEF Kept, Holding
    <3> QED BY <3>1, <3>2
  <2>8. ASSUME Filed(r, j) PROVE Filed(r, j)'
    <3> SUFFICES ASSUME ~ Busy(r, p)' PROVE Filed(r, j)' BY <2>5 DEF Filed
    <3>1. ~ Busy(r, p) /\ run[r].pc # "done" BY <1>0, <2>6 DEF Filing
    <3>2. Holding(r, p, c) BY <2>4, <2>8, <3>1 DEF Filed
    <3>3. Holding(r, p, c)' /\ dst # p BY <1>3, <1>5, <3>2 DEF Holding
    <3> QED BY <1>i, <1>a, <2>4, <2>5, <2>8, <3>1, <3>3 DEF Filed, Holding
  <2> QED BY <1>a, <2>3, <2>4, <2>5, <2>7, <2>8 DEF Follows
<1>9. FollowsAll(r)'
  <2>1. ASSUME NEW j \in DOMAIN run[r].result PROVE Follows(r, j)'
    BY <1>8, <2>1 DEF Follows
  <2> QED BY <1>4, <2>1 DEF FollowsAll
<1>10. ClearDst(r)'
  <2> SUFFICES ASSUME dst \in run[r].wrote PROVE SharesFolder(r)' \/ Busy(r, dst)'
    BY <1>i, <1>a DEF ClearDst, Busy
  <2>1. Elsewhere(r, dst)
    <3>1. Written(r) BY DEF World
    <3> QED BY <1>0, <1>5, <3>1 DEF Written
  <2>2. SharesFolder(r) \/ Busy(r, dst)
    BY <1>0, <1>5, <2>1, FolderTouched DEF Filing, Ending
  <2> QED BY <1>6, <2>2, SharesGrows, OthersGrow
<1> QED BY <1>7, <1>9, <1>10

LEMMA MoveLeavesStep ==
    ASSUME FoldersInv, DOMAIN disk = Machines, World, NEW r \in Runs, MoveLeaves(r),
           FollowsAll(r)
    PROVE  Step(r) /\ FollowsAll(r)' /\ ClearDst(r)'
<1>i. PICK i, v, x : i = run[r].i /\ v = ValueAt(r) /\ x = v.path OBVIOUS
<1>0. Files(r, v) /\ Promises(r) /\ Aimed(r) /\ DOMAIN memo = Machines /\ run[r].pc \in Filing
      /\ UNCHANGED disk
  BY <1>i DEF MoveLeaves, World, RunShape, Stock, Files
<1>1. /\ run[r].deliverable[i] = v /\ Place(r, i) = x /\ Source(r, i) = x
      /\ IsValue(v) /\ IsPath(x) /\ i \in Nat \ {0} /\ i \in DOMAIN run[r].result
      /\ \A j \in DOMAIN run[r].result : j \in Nat
  BY <1>i, <1>0, ValueIsSource DEF Files
<1>2. /\ run'[r].pc = "aim" /\ run'[r].i = i + 1 /\ run'[r].moved = run[r].moved
      /\ run'[r].used = run[r].used /\ run'[r].out = run[r].out /\ run[r].pc = "move"
      /\ run'[r].deliverable = run[r].deliverable
  BY <1>i DEF MoveLeaves, Files
<1>3. \A p, c : Holding(r, p, c) => Holding(r, p, c)' BY <1>0 DEF Holding
<1>4. /\ \A j : Source(r, j)' = Source(r, j)
      /\ \A j \in DOMAIN run[r].result :
            Place(r, j)' = Place(r, j) /\ run'[r].result[j] = run[r].result[j]
      /\ DOMAIN run'[r].result = DOMAIN run[r].result
  <2>1. /\ \A j : Source(r, j)' = Source(r, j)
        /\ \A j \in DOMAIN run[r].result \ {i} :
              Place(r, j)' = Place(r, j) /\ run'[r].result[j] = run[r].result[j]
        /\ Place(r, i)' = x /\ run'[r].result[i] = v
        /\ DOMAIN run'[r].result = DOMAIN run[r].result
    BY <1>i, <1>0, FilesFields
  <2> QED BY <1>i, <1>1, <2>1 DEF ValueAt
<1>5. RunStep(r) /\ Settled(r)
  <2>1. Written(r)' BY <1>0, FilesWritten
  <2>2. Promises(r)' BY <1>i, <1>0, <1>1, <1>2, <1>4 DEF Promises, Filing
  <2>3. Aimed(r)' BY <1>2 DEF Aimed
  <2>4. MayBecome(r, v) BY <1>i, <1>1 DEF MayBecome
  <2>5. run'[r].i \in {run[r].i, run[r].i + 1} BY <1>i, <1>2
  <2> QED BY <1>0, <2>1, <2>2, <2>3, <2>4, <2>5, FilesRunStep
<1>6. Step(r)
  <2>1. DiskStep(r) BY <1>0, DiskStays
  <2>2. BucketStep(r) BY <1>0, BucketStays DEF Files
  <2> QED BY <1>5, <2>1, <2>2 DEF Step
<1>7. ASSUME NEW j \in DOMAIN run[r].result, ~ Lost(r, j)', ~ Lost(r, j)
      PROVE  /\ j # i /\ Kept(r, j) => Kept(r, j)'
             /\ j # i /\ Filed(r, j) => Filed(r, j)'
             /\ j = i /\ Kept(r, j) => Filed(r, j)'
  <2>1. ASSUME j # i PROVE (Kept(r, j) => Kept(r, j)') /\ (Filed(r, j) => Filed(r, j)')
    BY <1>i, <1>0, <1>2, <1>3, <1>5, <2>1, OthersSame
  <2>2. ASSUME j = i, Kept(r, j) PROVE Filed(r, j)'
    <3>1. PICK c : c = run[r].meant[i] OBVIOUS
    <3>2. Holding(r, x, c)
      <4>1. ~ (v.form = "string" /\ x \in DOMAIN run[r].moved)
        BY <1>i, <1>0, <1>2 DEF Aimed, Known
      <4> QED BY <1>i, <1>1, <2>2, <3>1, <4>1 DEF Kept, ValueAt
    <3>3. x \notin run'[r].failed BY <1>1, <1>4, <1>7, <2>2 DEF Lost
    <3>4. v.form # "string"
      <4>1. ~ Found(r) BY <1>i, <3>3 DEF MoveLeaves
      <4> QED BY <1>i, <3>2, <4>1 DEF Found, Holding
    <3>5. Holding(r, x, c)' BY <1>3, <3>2
    <3>6. run'[r].result[i] = v /\ run'[r].meant = run[r].meant
      BY <1>i, <1>0, <1>1, <1>4 DEF ValueAt, Files
    <3> QED BY <1>1, <1>2, <1>4, <2>2, <3>1, <3>4, <3>5, <3>6 DEF Filed, Holding
  <2> QED BY <2>1, <2>2
<1>8. FollowsAll(r)' /\ ClearDst(r)'
  <2>1. \A j \in DOMAIN run[r].result : ~ Lost(r, j)' /\ ~ Lost(r, j) =>
              /\ j > i /\ Kept(r, j) => Kept(r, j)'
              /\ j < i /\ Filed(r, j) => Filed(r, j)'
              /\ j = i /\ Kept(r, j) => Filed(r, j)'
    BY <1>1, <1>7
  <2> QED BY <1>i, <1>0, <1>2, <1>5, <2>1, FilesFollow
<1> QED BY <1>6, <1>8

\* A file goes to the place its value got, and every other value of the run keeps
\* its own.
LEMMA MoveTakesStep ==
    ASSUME FoldersInv, DOMAIN disk = Machines, World, NEW r \in Runs, MoveTakes(r),
           FollowsAll(r), ClearDst(r)
    PROVE  Step(r) /\ FollowsAll(r)' /\ ClearDst(r)'
<1> DEFINE m == Machine[r]
           f == disk[m]
           g == disk'[m]
<1>i. PICK i, v, x, dst, e :
          /\ i = run[r].i /\ v = ValueAt(r) /\ x = v.path /\ dst = run[r].dst
          /\ e = [path |-> dst, form |-> v.form]
  OBVIOUS
<1>0. Files(r, e) /\ Promises(r) /\ Aimed(r) /\ DOMAIN memo = Machines /\ run[r].pc \in Filing
      /\ m \in Machines /\ Ended(r)
  BY <1>i DEF MoveTakes, World, RunShape, Stock, Files, Machines
<1>1. /\ run[r].deliverable[i] = v /\ Place(r, i) = x /\ Source(r, i) = x
      /\ IsValue(v) /\ IsPath(x) /\ i \in Nat \ {0} /\ i \in DOMAIN run[r].result
      /\ \A j \in DOMAIN run[r].result : j \in Nat
      /\ i \in DOMAIN run[r].deliverable
  BY <1>i, <1>0, ValueIsSource DEF Files
<1>2. /\ run'[r].pc = "aim" /\ run'[r].i = i + 1 /\ run'[r].moved = Put(run[r].moved, x, dst)
      /\ run'[r].used = run[r].used /\ run'[r].out = run[r].out /\ run[r].pc = "move"
      /\ run'[r].deliverable = run[r].deliverable /\ run'[r].wrote = run[r].wrote
      /\ run'[r].meant = run[r].meant
  BY <1>i DEF MoveTakes, Files
<1>3. /\ v.form = "string" /\ x \in DOMAIN f
      /\ x.dir # run[r].out /\ x \notin DOMAIN run[r].moved /\ dst # x
      /\ IsPath(dst) /\ dst.dir = run[r].out /\ dst \in run[r].used
  <2>1. v.form = "string" /\ x \in DOMAIN f BY <1>i DEF MoveTakes, Found
  <2>2. /\ IsPath(dst) /\ dst.dir = run[r].out /\ dst \in run[r].used
        /\ ~ LeftAlone(r, v) /\ ~ Known(r, v)
    BY <1>i, <1>0, <1>2 DEF Aimed
  <2> QED BY <1>i, <2>1, <2>2 DEF LeftAlone, Known
<1>a. DOMAIN run'[r].moved = DOMAIN run[r].moved \cup {x}
      /\ run'[r].moved[x] = dst
      /\ \A s \in DOMAIN run[r].moved : run'[r].moved[s] = run[r].moved[s]
  BY <1>2, <1>3 DEF Put
<1>b. /\ DOMAIN disk' = Machines /\ \A k \in Machines \ {m} : disk'[k] = disk[k]
      /\ DOMAIN g = (DOMAIN f \ {x}) \cup {dst} /\ g[dst] = f[x]
      /\ \A p \in DOMAIN f \ {x, dst} : g[p] = f[p]
  <2>1. disk' = [disk EXCEPT ![m] = Put(Drop(f, x), dst, f[x])] BY <1>i DEF MoveTakes
  <2>2. g = Put(Drop(f, x), dst, f[x]) BY <1>0, <2>1
  <2> QED BY <1>3, <2>1, <2>2 DEF Put, Drop
<1>4. /\ \A j : Source(r, j)' = Source(r, j)
      /\ \A j \in DOMAIN run[r].result \ {i} :
            Place(r, j)' = Place(r, j) /\ run'[r].result[j] = run[r].result[j]
      /\ Place(r, i)' = dst /\ run'[r].result[i] = e
      /\ DOMAIN run'[r].result = DOMAIN run[r].result
  BY <1>i, <1>0, FilesFields
<1>5. RunStep(r) /\ Settled(r) /\ x \in Touched(r)' /\ MadeBy(r, dst)'
  <2>1. Written(r)'
    <3>1. \A p \in DOMAIN f : p \in DOMAIN g \/ p.dir # run[r].out BY <1>3, <1>b
    <3> QED BY <1>0, <3>1, FilesWritten
  <2>2. Promises(r)'
    <3>1. ASSUME NEW j \in DOMAIN run[r].result
          PROVE  /\ j >= i + 1 => run'[r].result[j] = run[r].deliverable[j]
                 /\ Place(r, j)' # Source(r, j)' => Place(r, j)' \in run[r].used
      <4>1. CASE j = i BY <1>1, <1>3, <1>4, <4>1
      <4>2. CASE j # i BY <1>i, <1>0, <1>1, <1>4, <4>2 DEF Promises
      <4> QED BY <4>1, <4>2
    <3>2. ASSUME NEW s \in DOMAIN run'[r].moved
          PROVE  /\ s.dir # run[r].out /\ IsPath(run'[r].moved[s])
                 /\ run'[r].moved[s].dir = run[r].out /\ run'[r].moved[s] \in run[r].used
      BY <1>0, <1>3, <1>a, <3>2 DEF Promises
    <3>3. IsFiniteSet(run[r].used) BY <1>0 DEF Promises
    <3> QED BY <1>2, <1>4, <3>1, <3>2, <3>3 DEF Promises
  <2>3. Aimed(r)' BY <1>2 DEF Aimed
  <2>4. MayBecome(r, e) BY <1>i, <1>3 DEF MayBecome, IsValue
  <2>5. run'[r].i \in {run[r].i, run[r].i + 1} BY <1>i, <1>2
  <2>6. e.path = dst BY <1>i
  <2> QED BY <1>i, <1>0, <1>3, <2>1, <2>2, <2>3, <2>4, <2>5, <2>6, FilesRunStep
<1>6. Step(r)
  <2>1. ASSUME NEW p PROVE DiskAt(r, p)
    <3>1. CASE p = x BY <1>3, <1>5, <1>b, <3>1 DEF DiskAt
    <3>2. CASE p = dst
      <4>1. f[x] # None BY <1>0, <1>3 DEF World, Stock
      <4> QED BY <1>i, <1>2, <1>5, <1>b, <3>2, <4>1 DEF DiskAt
    <3>3. CASE p # x /\ p # dst
      <4>1. Same(f, g, p) BY <1>b, <3>3 DEF Same
      <4> QED BY <4>1 DEF DiskAt
    <3> QED BY <3>1, <3>2, <3>3
  <2>2. DiskStep(r) BY <1>b, <2>1 DEF DiskStep
  <2>3. BucketStep(r) BY <1>0, BucketStays DEF Files
  <2> QED BY <1>5, <2>2, <2>3 DEF Step
<1>7. ASSUME NEW p, NEW c, Holding(r, p, c), p # x
      PROVE  p # dst => Holding(r, p, c)'
  BY <1>7, <1>b DEF Holding
<1>8. ASSUME NEW c, Holding(r, x, c) PROVE Holding(r, dst, c)'
  BY <1>8, <1>b DEF Holding
<1> HIDE DEF m, f, g
<1>9. ASSUME NEW j \in DOMAIN run[r].result, ~ Lost(r, j)', ~ Lost(r, j)
      PROVE  /\ j > i /\ Kept(r, j) => Kept(r, j)'
             /\ j < i /\ Filed(r, j) => Filed(r, j)'
             /\ j = i /\ Kept(r, j) => Filed(r, j)'
  <2>1. PICK p, s, c : p = Place(r, j) /\ s = Source(r, j) /\ c = run[r].meant[j] OBVIOUS
  <2>2. Source(r, j)' = s /\ run'[r].meant[j] = c BY <1>2, <1>4, <2>1
  <2>3. \A y : Busy(r, y) => Busy(r, y)' BY <1>5, OthersGrow
  <2>4. dst \notin run[r].wrote \/ Busy(r, dst)'
    <3>1. ~ SharesFolder(r) BY <1>9 DEF Lost
    <3>2. dst \notin run[r].wrote \/ Busy(r, dst) BY <1>i, <1>2, <3>1 DEF ClearDst, Busy
    <3> QED BY <2>3, <3>2
  <2>5. s = x => run[r].result[j].form = "string"
    <3>1. ASSUME s = x PROVE run[r].result[j].form = "string"
      <4>1. v \in ToSet(run[r].deliverable) BY <1>1 DEF ToSet
      <4>2. v.form = run[r].deliverable[j].form BY <1>i, <1>9, <2>1, <3>1, <4>1 DEF Lost
      <4>3. run[r].result[j].form = run[r].deliverable[j].form
        BY <1>0, <1>9, <1>2 DEF Ended, ValueOf, Ending
      <4> QED BY <1>3, <4>2, <4>3
    <3> QED BY <3>1
  <2>6. ASSUME j > i, Kept(r, j) PROVE Kept(r, j)'
    <3>0. j # i /\ run'[r].result[j] = run[r].result[j] BY <1>1, <1>4, <2>6
    <3>1. CASE s = x
      <4>1. Holding(r, x, c) BY <1>3, <2>1, <2>6, <3>1 DEF Kept
      <4>2. Busy(r, dst)' \/ (dst \notin run[r].wrote /\ Holding(r, dst, c)')
        BY <1>8, <2>4, <4>1
      <4> QED BY <1>2, <1>a, <2>2, <2>5, <3>0, <3>1, <4>2 DEF Kept, Holding
    <3>2. CASE s # x /\ run[r].result[j].form = "string" /\ s \in DOMAIN run[r].moved
      <4>1. PICK y : /\ y = run[r].moved[s]
                     /\ Busy(r, y) \/ (y \notin run[r].wrote /\ Holding(r, y, c))
        BY <2>1, <2>6, <3>2 DEF Kept
      <4>2. y # dst /\ y # x BY <1>i, <1>0, <1>2, <1>3, <3>2, <4>1 DEF Promises
      <4>3. Busy(r, y)' \/ (y \notin run[r].wrote /\ Holding(r, y, c)')
        BY <1>7, <2>3, <4>1, <4>2
      <4> QED BY <1>2, <1>a, <2>2, <3>0, <3>2, <4>1, <4>3 DEF Kept, Holding
    <3>3. CASE s # x /\ ~ (run[r].result[j].form = "string" /\ s \in DOMAIN run[r].moved)
      <4>1. Holding(r, s, c) /\ dst # s BY <1>i, <1>2, <2>1, <2>6, <3>3 DEF Kept
      <4>2. Holding(r, s, c)' BY <1>7, <3>3, <4>1
      <4> QED BY <1>2, <1>a, <2>2, <3>0, <3>3, <4>2 DEF Kept, Holding
    <3> QED BY <3>1, <3>2, <3>3
  <2>7. ASSUME j < i, Filed(r, j) PROVE Filed(r, j)'
    <3>0. j # i /\ Place(r, j)' = p /\ run'[r].result[j] = run[r].result[j]
      BY <1>1, <1>4, <2>1, <2>7
    <3> SUFFICES ASSUME ~ Busy(r, p)' PROVE Filed(r, j)' BY <3>0 DEF Filed
    <3>1. ~ Busy(r, p) BY <2>3
    <3>2. Holding(r, p, c) /\ dst # p BY <1>i, <1>2, <2>1, <2>7, <3>1 DEF Filed
    <3>3. p # x
      <4> SUFFICES ASSUME p = x PROVE FALSE OBVIOUS
      <4>1. p = s BY <1>0, <1>2, <1>3, <1>9, <2>1 DEF Ended, ValueOf, Ending
      <4>2. run[r].result[j].form # "string" BY <1>3, <2>1, <2>7, <3>1, <4>1 DEF Filed
      <4> QED BY <2>5, <4>1, <4>2
    <3>4. Holding(r, p, c)' BY <1>7, <3>2, <3>3
    <3> QED BY <1>2, <2>1, <2>2, <2>7, <3>0, <3>1, <3>4 DEF Filed, Holding
  <2>8. ASSUME j = i, Kept(r, j) PROVE Filed(r, j)'
    <3>1. Holding(r, x, c) BY <1>1, <1>3, <2>1, <2>8 DEF Kept
    <3>2. Holding(r, dst, c)' BY <1>8, <3>1
    <3>3. s = x BY <1>1, <2>1, <2>8
    <3> QED BY <1>2, <1>3, <1>4, <2>2, <2>4, <2>8, <3>2, <3>3 DEF Filed, Holding, Busy
  <2> QED BY <2>6, <2>7, <2>8
<1>10. FollowsAll(r)' /\ ClearDst(r)'
  <2>1. run'[r].pc = "aim" /\ run'[r].i = i + 1 BY <1>2
  <2> QED BY <1>i, <1>0, <1>5, <1>9, <2>1, FilesFollow
<1> QED BY <1>6, <1>10

-----------------------------------------------------------------------------
(* Every output is served.                                                 *)

\* What a step counts as faults is a number.
LEMMA FaultsCount ==
    ASSUME World, faults \in Int, NEW r \in Runs,
           \/ EnsureInputs(r) \/ Preflight(r) \/ Reserve(r) \/ Stage(r)
           \/ WriteFile(r) \/ RunCode(r) \/ Generate(r) \/ EditFile(r) \/ HandOver(r)
           \/ SetOutput(r) \/ Aim(r) \/ Move(r) \/ StartSync(r) \/ SyncOne(r) \/ List(r)
    PROVE  faults' \in Int
<1>1. ASSUME NEW n \in Int, Fails(n) PROVE faults' \in Int BY <1>1 DEF Fails
<1>2. ASSUME NEW S, IsFiniteSet(S), NEW ps, ps \subseteq S PROVE Cardinality(ps) \in Int
  <2>1. IsFiniteSet(ps) BY <1>2, FS_Subset
  <2>2. Cardinality(ps) \in Nat BY <2>1, FS_CardinalityType
  <2> QED BY <2>2
<1>3. IsFiniteSet(Near(r)) BY NearFinite
<1>4. ASSUME NEW files, NEW p, Push(r, files, p) PROVE faults' \in Int
  BY <1>1, <1>4 DEF Push
<1>5. CASE EnsureInputs(r)
  <2>1. PICK ps : Fails(Cardinality(Candidates(Inputs[r]) \ ps)) BY <1>5 DEF EnsureInputs
  <2>2. Candidates(Inputs[r]) \ ps \subseteq Near(r) BY DEF Candidates, Paths, Near
  <2>3. PICK n : n = Cardinality(Candidates(Inputs[r]) \ ps) OBVIOUS
  <2>4. n \in Int BY <1>2, <1>3, <2>2, <2>3
  <2> QED BY <1>1, <2>1, <2>3, <2>4
<1>6. CASE Preflight(r)
  <2>1. PICK lost \in SUBSET Paths(Inputs[r]) : Fails(Cardinality(lost))
    BY <1>6 DEF Preflight, ReadablePaths
  <2>2. Cardinality(lost) \in Int BY <1>2, <1>3, <2>1 DEF Near
  <2> QED BY <1>1, <2>1, <2>2
<1>7. CASE Generate(r)
  <2>1. PICK refs \in SUBSET (run[r].wrote \cup Paths(Inputs[r])) :
            \E p : \E unpushed \in SUBSET (refs \cup {p}) : Fails(Cardinality(unpushed))
    BY <1>7 DEF Generate
  <2>p. PICK p : \E unpushed \in SUBSET (refs \cup {p}) : Fails(Cardinality(unpushed))
    BY <2>1
  <2>2. PICK unpushed \in SUBSET (refs \cup {p}) : Fails(Cardinality(unpushed)) BY <2>p
  <2>3. refs \subseteq Near(r) BY <2>1 DEF Near, Touched
  <2>4. unpushed \subseteq Near(r) \cup {p} BY <2>2, <2>3
  <2>5. IsFiniteSet(Near(r) \cup {p}) BY <1>3, FS_AddElement
  <2>6. Cardinality(unpushed) \in Int BY <1>2, <2>4, <2>5
  <2> QED BY <1>1, <2>2, <2>6
<1>8. CASE List(r)
  <2>1. PICK lost : /\ lost \subseteq Paths({v \in ToSet(run[r].result) : IsDrivePath(v)})
                    /\ Fails(Cardinality(lost))
    BY <1>8 DEF List
  <2>2. lost \subseteq Near(r) BY <2>1 DEF Near, Touched, Paths
  <2>3. Cardinality(lost) \in Int BY <1>2, <1>3, <2>2
  <2> QED BY <1>1, <2>1, <2>3
<1>9. CASE Aim(r)
  <2>1. UNCHANGED faults \/ \E ps \in SUBSET {ValueAt(r).path} : Fails(1 - Cardinality(ps))
    BY <1>9, Zenon DEF Aim
  <2>2. ASSUME NEW ps \in SUBSET {ValueAt(r).path}, Fails(1 - Cardinality(ps))
        PROVE  faults' \in Int
    <3>1. IsFiniteSet({ValueAt(r).path}) BY FS_Singleton
    <3>2. Cardinality(ps) \in Int BY <1>2, <3>1
    <3>3. PICK n : n = 1 - Cardinality(ps) OBVIOUS
    <3> QED BY <1>1, <2>2, <3>2, <3>3
  <2> QED BY <2>1, <2>2
<1>10. CASE WriteFile(r) \/ EditFile(r) \/ HandOver(r)
  BY <1>4, <1>10 DEF WriteFile, EditFile, HandOver
<1>11. CASE SyncOne(r)
  <2>1. UNCHANGED faults \/ Push(r, disk[Machine[r]], ValueAt(r).path)
    BY <1>11 DEF SyncOne
  <2> QED BY <1>4, <2>1
<1>12. CASE Stage(r) \/ Move(r)
  <2>1. UNCHANGED faults \/ Fails(1) BY <1>12 DEF Stage, Move
  <2> QED BY <1>1, <2>1
<1>13. CASE Reserve(r) \/ RunCode(r) \/ SetOutput(r) \/ StartSync(r)
  BY <1>13 DEF Reserve, RunCode, SetOutput, StartSync
<1> QED BY <1>5, <1>6, <1>7, <1>8, <1>9, <1>10, <1>11, <1>12, <1>13

ServedInv ==
    /\ faults \in Int /\ World
    /\ \A r \in Runs : FollowsAll(r) /\ ClearDst(r)

LEMMA InitServed == Init => ServedInv
<1> SUFFICES ASSUME Init PROVE ServedInv OBVIOUS
<1>1. ASSUME NEW r \in Runs
      PROVE  /\ run[r].pc = "inputs" /\ run[r].i = 1 /\ run[r].out = None
             /\ run[r].wrote = {} /\ run[r].count = 0
             /\ run[r].deliverable = <<>> /\ run[r].result = <<>>
             /\ run[r].moved = <<>> /\ run[r].used = {}
  BY DEF Init
<1>2. IsFiniteSet({}) BY FS_EmptySet
<1>3. ASSUME NEW r \in Runs PROVE RunShape(r) /\ Origins(r) /\ Written(r)
  <2>1. Begun(r)
    <3>1. run[r].count \in Nat /\ IsFiniteSet(run[r].wrote)
      <4>1. IsFiniteSet(run[r].wrote) BY <1>1, <1>2, Zenon
      <4> QED BY <1>1, <4>1
    <3>2. run[r].pc \in Early BY <1>1 DEF Early
    <3>3. run[r].pc \in Starting BY <1>1 DEF Starting
    <3> QED BY <1>1, <3>1, <3>2, <3>3 DEF Begun
  <2>2. RunShape(r)
    BY <1>1, <2>1 DEF RunShape, Ended, Promises, Aimed, Ending, Filing
  <2> QED BY <1>1, <2>2 DEF Origins, Written
<1>4. /\ \A m \in Machines : disk[m] = <<>> /\ memo[m] = <<>>
      /\ DOMAIN memo = Machines /\ DOMAIN bucket = Uploads
      /\ \A p \in Uploads : bucket[p] # None
  BY PathConstants DEF Init
<1>5. Stock BY <1>4 DEF Stock
<1>6. OneCopy
  <2> SUFFICES ASSUME NEW p PROVE Copies(p, bucket[p]) BY DEF OneCopy
  <2> QED BY <1>4 DEF Copies
<1>7. PushedHere BY <1>4 DEF PushedHere
<1>8. World BY <1>3, <1>5, <1>6, <1>7 DEF World
<1>9. \A r \in Runs : FollowsAll(r) /\ ClearDst(r)
  BY <1>1 DEF FollowsAll, ClearDst, Ending
<1>10. faults \in Int BY DEF Init
<1> QED BY <1>8, <1>9, <1>10 DEF ServedInv

LEMMA StillServed == ServedInv /\ UNCHANGED vars => ServedInv'
<1> SUFFICES ASSUME ServedInv, UNCHANGED vars PROVE ServedInv' OBVIOUS
<1>0. /\ World /\ run' = run /\ disk' = disk /\ bucket' = bucket /\ memo' = memo
      /\ folders' = folders /\ faults' = faults
  BY DEF ServedInv, vars
<1>1. ASSUME NEW r \in Runs PROVE RunShape(r)' /\ Origins(r)' /\ Written(r)'
  <2>0. RunShape(r) /\ Origins(r) /\ Written(r) BY <1>0 DEF World
  <2>1. RunShape(r)'
    BY <1>0, <2>0 DEF RunShape, Begun, Ended, ValueOf, Promises, Aimed, Place, Source,
       LeftAlone, Known, ValueAt
  <2>2. Origins(r)' BY <1>0, <2>0 DEF Origins, Origin, Source
  <2>3. Written(r)' BY <1>0, <2>0 DEF Written, Elsewhere, Touched
  <2> QED BY <2>1, <2>2, <2>3
<1>2. Stock'
  <2>0. Stock BY <1>0 DEF World
  <2>1. \A q \in Runs : Near(q)' = Near(q) BY <1>0 DEF Near, Touched
  <2>2. ASSUME NEW q \in Runs, NEW p, MadeBy(q, p) PROVE MadeBy(q, p)'
    BY <1>0, <2>2 DEF MadeBy, Place, Source
  <2>3. DOMAIN memo' = Machines BY <1>0, <2>0 DEF Stock
  <2>4. ASSUME NEW m \in Machines
        PROVE  /\ \A p \in DOMAIN disk'[m] : disk'[m][p] # None
               /\ DOMAIN memo'[m] \subseteq DOMAIN bucket'
               /\ \A p \in DOMAIN disk'[m] \cup DOMAIN memo'[m] :
                     \E q \in Runs : Machine[q] = m /\ p \in Near(q)'
               /\ \A p \in DOMAIN disk'[m] :
                     p \in Uploads \/ \E q \in Runs : MadeBy(q, p)'
    BY <1>0, <2>0, <2>1, <2>2 DEF Stock
  <2>5. \A p \in DOMAIN bucket' :
            bucket'[p] # None /\ (p \in Uploads \/ \E q \in Runs : MadeBy(q, p)')
    BY <1>0, <2>0, <2>2 DEF Stock
  <2> QED BY <2>3, <2>4, <2>5 DEF Stock
<1>3. OneCopy'
  BY <1>0 DEF World, OneCopy, Pristine, Copies, Settled, SharesFolder
<1>4. PushedHere' BY <1>0 DEF World, PushedHere, Near, Touched
<1>5. World' BY <1>1, <1>2, <1>3, <1>4 DEF World
<1>6. ASSUME NEW r \in Runs PROVE FollowsAll(r)' /\ ClearDst(r)'
  <2>0. FollowsAll(r) /\ ClearDst(r) BY DEF ServedInv
  <2>1. \A p : Elsewhere(r, p)' = Elsewhere(r, p) /\ Busy(r, p)' = Busy(r, p)
    BY <1>0 DEF Elsewhere, Busy, Touched
  <2>2. SharesFolder(r)' = SharesFolder(r) BY <1>0 DEF SharesFolder
  <2>3. ASSUME NEW j \in DOMAIN run[r].result, Follows(r, j) PROVE Follows(r, j)'
    <3>1. PICK p, s : p = Place(r, j) /\ s = Source(r, j) OBVIOUS
    <3>2. Place(r, j)' = p /\ Source(r, j)' = s BY <1>0, <3>1 DEF Place, Source
    <3>3. Lost(r, j) => Lost(r, j)'
      BY <1>0, <2>1, <2>2, <3>1, <3>2 DEF Lost, Elsewhere
    <3>4. Kept(r, j) => Kept(r, j)' BY <1>0, <2>1, <3>1, <3>2 DEF Kept, Holding
    <3>5. Filed(r, j) => Filed(r, j)' BY <1>0, <2>1, <3>1, <3>2 DEF Filed, Holding
    <3>6. Served(r, j) => Served(r, j)' BY <1>0, <2>1, <3>1, <3>2 DEF Served
    <3>7. Listed(r, j) => Listed(r, j)' BY <1>0, <2>1, <3>1, <3>2 DEF Listed
    <3> QED BY <1>0, <2>3, <3>1, <3>2, <3>3, <3>4, <3>5, <3>6, <3>7 DEF Follows
  <2>4. FollowsAll(r)' BY <1>0, <2>0, <2>3 DEF FollowsAll
  <2>5. ClearDst(r)' BY <1>0, <2>0, <2>1, <2>2 DEF ClearDst, Busy
  <2> QED BY <2>4, <2>5
<1> QED BY <1>0, <1>5, <1>6 DEF ServedInv

LEMMA StepServed ==
    ASSUME IsFiniteSet(Runs), FoldersInv, FoldersInv', InputsInv, ServedInv, Next
    PROVE  ServedInv'
<1>1. PICK a \in Runs :
    \/ EnsureInputs(a) \/ Preflight(a) \/ Reserve(a) \/ Stage(a)
    \/ WriteFile(a) \/ RunCode(a) \/ Generate(a) \/ EditFile(a) \/ HandOver(a)
    \/ SetOutput(a) \/ Aim(a) \/ Move(a) \/ StartSync(a) \/ SyncOne(a) \/ List(a)
  BY DEF Next
<1>2. /\ World /\ faults \in Int /\ DOMAIN disk = Machines
      /\ \A r \in Runs : FollowsAll(r) /\ ClearDst(r)
  BY DEF ServedInv, InputsInv
<1>3. Step(a) /\ FollowsAll(a)' /\ ClearDst(a)'
  <2>1. CASE EnsureInputs(a) \/ Preflight(a) \/ Reserve(a) \/ Stage(a)
    BY <1>2, <2>1, PrepareStep
  <2>2. CASE WriteFile(a) \/ RunCode(a) \/ Generate(a) \/ EditFile(a) \/ HandOver(a)
    BY <1>2, <2>2, WorkStep
  <2>3. CASE SetOutput(a) BY <1>2, <2>3, SetOutputStep
  <2>4. CASE Aim(a)
    <3>1. AimLeaves(a) \/ AimRenames(a) \/ AimTakes(a) BY <1>2, <2>4, AimFields
    <3> QED BY <1>2, <3>1, AimLeavesStep, AimRenamesStep, AimTakesStep
  <2>5. CASE Move(a)
    <3>1. MoveTakes(a) \/ MoveLeaves(a) BY <1>2, <2>5, MoveFields
    <3> QED BY <1>2, <3>1, MoveTakesStep, MoveLeavesStep
  <2>6. CASE StartSync(a) BY <1>2, <2>6, StartSyncStep
  <2>7. CASE SyncOne(a) BY <1>2, <2>7, SyncOneStep
  <2>8. CASE List(a) BY <1>2, <2>8, ListStep
  <2> QED BY <1>1, <2>1, <2>2, <2>3, <2>4, <2>5, <2>6, <2>7, <2>8
<1>4. World' BY <1>2, <1>3, WorldStays
<1>5. ASSUME NEW r \in Runs PROVE FollowsAll(r)' /\ ClearDst(r)'
  <2>1. CASE r = a BY <1>3, <2>1
  <2>2. CASE r # a BY <1>2, <1>3, <1>4, <2>2, OthersFollow
  <2> QED BY <2>1, <2>2
<1>6. faults' \in Int BY <1>1, <1>2, FaultsCount
<1> QED BY <1>4, <1>5, <1>6 DEF ServedInv

\* For every finite set of runs on any machines, whatever inputs they are given, and
\* whatever transfers and moves fail: the file behind every value of a result that is
\* handed over is in the bucket, with the content it had when the skill recorded its
\* output, under the path the result gives, and stays there; and it is listed
\* (relocate_outputs_to_run_dir, sync_output_files, build_output_manifest).  The
\* values that EveryOutputServed excuses are the only exceptions.
THEOREM OutputsAreServed ==
    ASSUME IsFiniteSet(Runs)
    PROVE  Spec => []EveryOutputServed
<1>1. ServedInv => EveryOutputServed
  <2> SUFFICES ASSUME ServedInv, NEW r \in Runs, run[r].pc = "done",
                      NEW j \in DOMAIN run[r].result, ~ Excused(r, j)
               PROVE  /\ At(bucket, Place(r, j)) = run[r].meant[j]
                      /\ run[r].result[j].form = "string" => Place(r, j) \in run[r].manifest
    BY DEF EveryOutputServed, Place
  <2>1. Follows(r, j) BY DEF ServedInv, FollowsAll, Ending
  <2>2. ~ Lost(r, j) BY DEF Excused, Lost, Source, Elsewhere
  <2>3. ~ Busy(r, Place(r, j)) /\ Place(r, j) \notin run[r].failed
    BY DEF Excused, Busy, Place
  <2>4. Served(r, j) /\ Listed(r, j) BY <2>1, <2>2 DEF Follows
  <2> QED BY <2>3, <2>4 DEF Served, Listed, At
<1>2. FoldersInv /\ [Next]_vars => FoldersInv' BY StepFolders
<1>3. FoldersInv /\ FoldersInv' /\ InputsInv /\ ServedInv /\ [Next]_vars => ServedInv'
  BY StepServed, StillServed
<1> QED BY <1>1, <1>2, <1>3, InitFolders, InitInputs, StepInputs, InitServed, PTL DEF Spec

=============================================================================
