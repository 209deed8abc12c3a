----------------------- MODULE DeploymentCacheProofs ------------------------
(***************************************************************************)
(* For every number of entries, processes and callers: a sentinel marks a  *)
(* whole directory, a directory in use is never touched, and the caches    *)
(* implement BuildOnce.  The inductive invariant is IInv of                *)
(* DeploymentCache.                                                        *)
(*                                                                         *)
(* And for every bundle and every manifest: both parsers find the same     *)
(* skills, a skill tool shows what its call runs, and the stored manifest  *)
(* gives every declaration back.  These compare functions of the data, so  *)
(* the proofs follow the definitions, once a name is known to be there     *)
(* once; Kept, which is recursive, by its least counterexample.            *)
(***************************************************************************)
EXTENDS CachedSkills, SequenceTheorems, FiniteSetTheorems, WellFoundedInduction,
        TLAPS

\* Nothing is built, and nobody is inside.
LEMMA Initially == Init => IInv
<1> SUFFICES ASSUME Init PROVE IInv OBVIOUS
<1>1. TypeOK BY DEF Init, TypeOK, PC
<1>2. LockHeld /\ Unmarked /\ ReadyIsComplete /\ UsersHaveAll
  BY CacheAssumption
     DEF Init, LockHeld, Inside, Unmarked, ReadyIsComplete, UsersHaveAll
<1> QED BY <1>1, <1>2 DEF IInv

\* Who is inside an entry is alone there.
LEMMA Alone ==
    ASSUME IInv PROVE Exclusive
BY DEF IInv, TypeOK, LockHeld, Exclusive, Inside

\* A step that only moves callers about, between places that ask nothing new of
\* the disk.
LEMMA CallerStep ==
    ASSUME IInv, NEW c \in Callers,
           \/ \E e \in Entries : Call(c, e)
           \/ Hit(c) \/ Miss(c) \/ MissLocked(c) \/ Leave(c)
    PROVE  IInv'
<1> USE DEF Goto, diskVars, PC, Inside
<1>1. TypeOK'
  BY DEF IInv, TypeOK, Call, Hit, Miss, MissLocked, Leave
<1>2. LockHeld'
  BY DEF IInv, TypeOK, LockHeld, Call, Hit, Miss, MissLocked, Leave
<1>3. Unmarked' /\ ReadyIsComplete' /\ UsersHaveAll'
  BY DEF IInv, TypeOK, Unmarked, ReadyIsComplete, UsersHaveAll,
         Call, Hit, Miss, MissLocked, Leave
<1> QED BY <1>1, <1>2, <1>3 DEF IInv

\* Taking the lock and giving it back.
LEMMA LockStep ==
    ASSUME IInv, NEW c \in Callers,
           Lock(c) \/ HitLocked(c) \/ Return(c) \/ Raise(c)
    PROVE  IInv'
<1> USE DEF Goto, diskVars, PC, Inside, Unlock
<1>1. TypeOK'
  BY CacheAssumption DEF IInv, TypeOK, Lock, HitLocked, Return, Raise
<1>2. LockHeld'
  BY CacheAssumption DEF IInv, TypeOK, LockHeld, Lock, HitLocked, Return, Raise
<1>3. Unmarked' /\ ReadyIsComplete' /\ UsersHaveAll'
  BY DEF IInv, TypeOK, Unmarked, ReadyIsComplete, UsersHaveAll,
         Lock, HitLocked, Return, Raise
<1> QED BY <1>1, <1>2, <1>3 DEF IInv

\* Clearing, building and publishing: the caller is alone inside its entry,
\* and nobody uses an entry that has no sentinel.
LEMMA DiskStep ==
    ASSUME IInv, NEW c \in Callers,
           ClearSome(c) \/ ClearAll(c) \/ BuildSome(c) \/ BuildAll(c) \/ Touch(c)
    PROVE  IInv'
<1> USE DEF Goto, PC, Inside
<1>1. TypeOK'
  BY DEF IInv, TypeOK, ClearSome, ClearAll, BuildSome, BuildAll, Touch
<1>2. LockHeld'
  BY DEF IInv, TypeOK, LockHeld, ClearSome, ClearAll, BuildSome, BuildAll, Touch
<1>3. /\ pc[c] \in {"clearing", "building", "built"}
      /\ entry[c] \in Entries /\ entry[c] \notin sentinel
  BY DEF IInv, TypeOK, Unmarked, ClearSome, ClearAll, BuildSome, BuildAll, Touch
<1>4. \A d \in Callers : d # c /\ pc[d] \in Inside => entry[d] # entry[c]
  BY <1>3, Alone DEF Exclusive
<1>5. Unmarked'
  BY <1>3, <1>4
     DEF IInv, TypeOK, Unmarked, ClearSome, ClearAll, BuildSome, BuildAll, Touch
<1>6. ReadyIsComplete' /\ UsersHaveAll'
  BY <1>3 DEF IInv, TypeOK, Unmarked, ReadyIsComplete, UsersHaveAll,
              ClearSome, ClearAll, BuildSome, BuildAll, Touch
<1> QED BY <1>1, <1>2, <1>5, <1>6 DEF IInv

\* A process dies: its callers leave, and what they built stays unmarked.
LEMMA CrashStep ==
    ASSUME IInv, NEW p \in Processes, Crash(p)
    PROVE  IInv'
<1> USE DEF diskVars, PC, Inside
<1>1. TypeOK' BY DEF IInv, TypeOK, Crash
<1>2. LockHeld' BY CacheAssumption DEF IInv, TypeOK, LockHeld, Crash
<1>3. Unmarked' /\ ReadyIsComplete' /\ UsersHaveAll'
  BY DEF IInv, TypeOK, Unmarked, ReadyIsComplete, UsersHaveAll, Crash
<1> QED BY <1>1, <1>2, <1>3 DEF IInv

\* Every step keeps it.
LEMMA Step == IInv /\ [Next]_vars => IInv'
<1> SUFFICES ASSUME IInv, [Next]_vars PROVE IInv' OBVIOUS
<1>1. CASE UNCHANGED vars
  BY <1>1 DEF vars, IInv, TypeOK, LockHeld, Unmarked, ReadyIsComplete, UsersHaveAll
<1>2. ASSUME NEW c \in Callers,
             (\E e \in Entries : Call(c, e)) \/ CallStep(c) \/ Leave(c)
      PROVE  IInv'
  BY <1>2, CallerStep, LockStep, DiskStep DEF CallStep
<1>3. ASSUME NEW p \in Processes, Crash(p) PROVE IInv'
  BY <1>3, CrashStep
<1> QED BY <1>1, <1>2, <1>3 DEF Next

\* The inductive invariant holds in every reachable state.
THEOREM Invariance == Spec => []IInv
BY Initially, Step, PTL DEF Spec

\* A job never uses an entry that is not whole.
THEOREM UsersAreServed == Spec => []UsersHaveAll
<1>1. IInv => UsersHaveAll BY DEF IInv
<1> QED BY <1>1, Invariance, PTL

\* No two callers, threads of one process or not, are inside one entry.
THEOREM BuildersExclude == Spec => []Exclusive
<1>1. IInv => Exclusive BY Alone
<1> QED BY <1>1, Invariance, PTL

-----------------------------------------------------------------------------
(* The refinement.                                                         *)

\* Nothing is published, and nobody holds an entry.
LEMMA RefinesInit == Init => Once!Init
BY DEF Init, Once!Init, Published, Holds

\* A step of the caches publishes, hands out, drops or stutters.
LEMMA RefinesStep ==
    IInv /\ [Next]_vars => [Once!Next]_<<Published, Holds>>
<1> SUFFICES ASSUME IInv, [Next]_vars
             PROVE  Once!Next \/ UNCHANGED <<Published, Holds>>
  OBVIOUS
<1> USE DEF Goto, diskVars
<1>0. IInv' BY Step
<1>1. Published = sentinel /\ Published' = sentinel'
  BY <1>0 DEF IInv, ReadyIsComplete, Published
<1>2. CASE UNCHANGED vars
  BY <1>2 DEF vars, Published, Holds
<1>3. ASSUME NEW c \in Callers, Hit(c) \/ HitLocked(c) \/ Return(c)
      PROVE  Once!Take(c, entry[c]) /\ entry[c] \in Entries
  <2>1. /\ pc[c] # "using" /\ pc[c] # "idle" /\ pc' = [pc EXCEPT ![c] = "using"]
        /\ entry' = entry /\ sentinel' = sentinel
        /\ entry[c] \in sentinel
    BY <1>3 DEF IInv, Unmarked, Hit, HitLocked, Return
  <2>2. Holds[c] = NoEntry BY <2>1 DEF Holds
  <2>3. Holds' = [Holds EXCEPT ![c] = entry[c]]
    BY <2>1 DEF Holds, IInv, TypeOK
  <2>4. entry[c] \in Entries BY <2>1 DEF IInv, TypeOK
  <2> QED BY <1>1, <2>1, <2>2, <2>3, <2>4 DEF Once!Take
<1>4. ASSUME NEW c \in Callers, Touch(c)
      PROVE  Once!Publish(entry[c]) /\ entry[c] \in Entries
  <2>1. Holds' = Holds BY <1>4 DEF Touch, Holds, IInv, TypeOK
  <2>2. entry[c] \in Entries BY <1>4 DEF Touch, IInv, TypeOK
  <2> QED BY <1>1, <1>4, <2>1, <2>2 DEF Touch, Once!Publish
<1>5. ASSUME NEW c \in Callers,
             \/ \E e \in Entries : Call(c, e)
             \/ Miss(c) \/ Lock(c) \/ MissLocked(c) \/ BuildSome(c) \/ BuildAll(c)
             \/ Raise(c)
      PROVE  UNCHANGED <<Published, Holds>>
  <2>1. sentinel' = sentinel
    BY <1>5 DEF Call, Miss, Lock, MissLocked, BuildSome, BuildAll, Raise
  <2>2. Holds' = Holds
    BY <1>5 DEF Holds, IInv, TypeOK, Inside,
                Call, Miss, Lock, MissLocked, BuildSome, BuildAll, Raise
  <2> QED BY <1>1, <2>1, <2>2
<1>6. ASSUME NEW c \in Callers, ClearSome(c) \/ ClearAll(c)
      PROVE  UNCHANGED <<Published, Holds>>
  <2>1. sentinel' = sentinel
    BY <1>6 DEF IInv, Unmarked, ClearSome, ClearAll
  <2>2. Holds' = Holds
    BY <1>6 DEF Holds, IInv, TypeOK, ClearSome, ClearAll
  <2> QED BY <1>1, <2>1, <2>2
<1>7. ASSUME NEW c \in Callers, Leave(c)
      PROVE  Once!Drop({c})
  <2>1. Holds' = [d \in Callers |-> IF d \in {c} THEN NoEntry ELSE Holds[d]]
    BY <1>7 DEF Holds, IInv, TypeOK, Leave
  <2>2. Published' = Published BY <1>1, <1>7 DEF Leave
  <2> QED BY <2>1, <2>2 DEF Once!Drop
<1>8. ASSUME NEW p \in Processes, Crash(p)
      PROVE  \E C \in SUBSET Callers : Once!Drop(C)
  <2> DEFINE C == {c \in Callers : ProcessOf[c] = p}
  <2>1. Holds' = [d \in Callers |-> IF d \in C THEN NoEntry ELSE Holds[d]]
    BY <1>8 DEF Holds, IInv, TypeOK, Crash
  <2>2. Published' = Published BY <1>1, <1>8 DEF Crash
  <2>3. Once!Drop(C) BY <2>1, <2>2 DEF Once!Drop
  <2> QED BY <2>3
<1> QED
  BY <1>2, <1>3, <1>4, <1>5, <1>6, <1>7, <1>8 DEF Next, CallStep, Once!Next

\* The caches implement BuildOnce.
THEOREM ImplementsBuildOnce == Spec => BuildsOnce
BY RefinesInit, RefinesStep, Invariance, PTL DEF Spec, BuildsOnce, Once!Spec

-----------------------------------------------------------------------------
(* The skills in a cached bundle: both parsers, the loader, the resolver.  *)

\* A record with a path and a parent of its own is the one made with that path.
LEMMA Moved ==
    ASSUME NEW D, NEW E, NEW p, NEW q,
           D = [x \in DOMAIN D |-> D[x]], E = [x \in DOMAIN E |-> E[x]],
           DOMAIN D = DOMAIN E, \A f \in DOMAIN D \ {"path"} : D[f] = E[f],
           "path" \in DOMAIN E, E.path = p
    PROVE  [D EXCEPT !.path = p, !.parent_skill = q] = [E EXCEPT !.parent_skill = q]
OBVIOUS

\* An author's subdirectory is declared alike by both parsers.
LEMMA SubsDeclaredAlike ==
    ASSUME NEW t, NEW s
    PROVE  SubDecl(t, s) = ZippedSubDecl(t, s)
<1> DEFINE name == <<t.name, s.name>>
           path == <<t.name, "subskills", s.name>>
           D == _build_decl(name, name, s.yaml)
           E == _build_decl(name, path, s.yaml)
<1>1. D = [x \in DOMAIN D |-> D[x]] /\ E = [x \in DOMAIN E |-> E[x]]
  <2> HIDE DEF name, path
  <2> QED BY DEF _build_decl
<1>2. DOMAIN D = DOMAIN E /\ "path" \in DOMAIN E /\ E.path = path
  <2> HIDE DEF name, path
  <2> QED BY DEF _build_decl
<1>3. \A f \in DOMAIN D \ {"path"} : D[f] = E[f]
  <2> HIDE DEF name, path
  <2> QED BY DEF _build_decl
<1>4. [D EXCEPT !.path = path, !.parent_skill = t.name] = [E EXCEPT !.parent_skill = t.name]
  <2> HIDE DEF D, E, path
  <2> QED BY <1>1, <1>2, <1>3, Moved
<1> QED BY Zenon, <1>4 DEF SubDecl, ZippedSubDecl

\* Whatever bundle is pushed: parse_bundle_dir and parse_bundle_zip find the same
\* skills, and each path leads to a directory that has the entrypoint.
LEMMA BothParsersAgree ==
    ReparsedAsPushed(Bundles)
<1> SUFFICES ASSUME NEW b, ZipAccepts(b), DirAccepts(b)
             PROVE  /\ parse_bundle_dir(b) = parse_bundle_zip(b)
                    /\ \A s \in parse_bundle_dir(b) :
                        \E x \in DirAt(b, s.path) : s.entrypoint.file \in x.files
  BY DEF ReparsedAsPushed
<1>1. parse_bundle_dir(b) = parse_bundle_zip(b)
  <2>1. \A t \in Declared(b) : Declared(t.subs) = t.subs BY DEF DirAccepts, Declared
  <2>2. \A t \in b : Declared(t.subs) # {} => t \in Declared(b) BY DEF ZipAccepts, Declared
  <2>3. UNION {{SubDecl(t, s) : s \in t.subs} : t \in Declared(b)}
          = UNION {{ZippedSubDecl(t, s) : s \in Declared(t.subs)} : t \in b}
    <3>1. \A t \in Declared(b) : t \in b BY DEF Declared
    <3> QED BY <2>1, <2>2, <3>1, SubsDeclaredAlike
  <2> QED BY <2>3 DEF parse_bundle_dir, parse_bundle_zip
<1>2. ASSUME NEW d \in parse_bundle_dir(b)
      PROVE  \E x \in DirAt(b, d.path) : d.entrypoint.file \in x.files
  <2>1. ASSUME NEW t \in Declared(b), d = TopDecl(t)
        PROVE  \E x \in DirAt(b, d.path) : d.entrypoint.file \in x.files
    <3>1. d.path = <<t.name>> /\ d.entrypoint = t.yaml.entrypoint
      BY <2>1 DEF TopDecl, _build_decl
    <3>2. t \in DirAt(b, d.path) BY <2>1, <3>1 DEF DirAt, Declared
    <3> QED BY <2>1, <3>1, <3>2 DEF DirAccepts, Readable
  <2>2. ASSUME NEW t \in Declared(b), NEW s \in t.subs, d = SubDecl(t, s)
        PROVE  \E x \in DirAt(b, d.path) : d.entrypoint.file \in x.files
    <3>1. d.path = <<t.name, "subskills", s.name>> /\ d.entrypoint = s.yaml.entrypoint
      BY <2>2 DEF SubDecl, _build_decl
    <3>2. s \in DirAt(b, d.path) BY <2>2, <3>1 DEF DirAt, Declared
    <3> QED BY <2>2, <3>1, <3>2 DEF DirAccepts, Readable
  <2> QED BY <2>1, <2>2 DEF parse_bundle_dir
<1> QED BY <1>1, <1>2

\* Two lists of one.
LEMMA Joined ==
    ASSUME NEW x, NEW y PROVE <<x>> \o <<y>> = <<x, y>>
<1>1. <<x>> \in Seq({x, y}) /\ <<y>> \in Seq({x, y}) /\ <<x, y>> \in Seq({x, y}) OBVIOUS
<1>2. Len(<<x>> \o <<y>>) = Len(<<x, y>>) BY <1>1
<1>3. \A i \in 1 .. 2 : (<<x>> \o <<y>>)[i] = <<x, y>>[i] BY <1>1
<1>4. <<x>> \o <<y>> \in Seq({x, y}) BY <1>1
<1> QED BY <1>1, <1>2, <1>3, <1>4, SeqEqual

\* The first candidate that loads is the one that runs.
LEMMA FirstThatLoads ==
    ASSUME NEW b, NEW manifest, NEW parent, NEW ref,
           NEW k \in DOMAIN Candidates(parent, ref),
           load(b, manifest, Candidates(parent, ref)[k]) # None,
           \A j \in 1 .. (k - 1) : load(b, manifest, Candidates(parent, ref)[j]) = None
    PROVE  SkillNamed(b, manifest, parent, ref) = load(b, manifest, Candidates(parent, ref)[k])
<1> DEFINE tried == Candidates(parent, ref)
           full == <<parent.name[1]>> \o ref
           I == {i \in 1 .. Len(tried) : load(b, manifest, tried[i]) # None}
<1>1. tried = IF Len(ref) = 1 THEN <<full, ref>> ELSE <<ref>> BY Zenon DEF Candidates
<1>2. DOMAIN tried = 1 .. Len(tried) /\ Len(tried) \in Nat
  <2> HIDE DEF full, tried
  <2>1. CASE Len(ref) = 1 BY <1>1, <2>1
  <2>2. CASE Len(ref) # 1 BY <1>1, <2>2
  <2> QED BY <2>1, <2>2
<1>0. /\ k \in DOMAIN tried /\ load(b, manifest, tried[k]) # None
      /\ \A j \in 1 .. (k - 1) : load(b, manifest, tried[j]) = None
  BY Zenon
<1> HIDE DEF tried
<1>3. k \in I /\ \A i \in I : k <= i
  <2>1. k \in I BY <1>0, <1>2
  <2>2. ASSUME NEW i \in I PROVE ~(i < k)
    BY <1>0, <1>2
  <2> QED BY <2>1, <2>2, <1>2, <1>0
<1>4. Min(I) = k
  <2>1. \A i \in I : i \in Int
    <3> SUFFICES ASSUME NEW i \in 1 .. Len(tried) PROVE i \in Int OBVIOUS
    <3> QED BY <1>2
  <2> HIDE DEF I
  <2> QED BY <1>3, <2>1 DEF Min
<1>5. SelectInSeq(tried, LAMBDA c : load(b, manifest, c) # None) = IF I # {} THEN Min(I) ELSE 0
  BY Zenon DEF SelectInSeq
<1>6. k # 0 BY <1>0, <1>2
<1>7. SelectInSeq(tried, LAMBDA c : load(b, manifest, c) # None) = k
   BY <1>3, <1>4, <1>5, Zenon
<1> QED BY <1>6, <1>7, Zenon DEF SkillNamed, tried

\* The first of the candidates, when it loads.
LEMMA FirstLoads ==
    ASSUME NEW b, NEW manifest, NEW parent, NEW ref, 1 \in DOMAIN Candidates(parent, ref),
           load(b, manifest, Candidates(parent, ref)[1]) # None
    PROVE  SkillNamed(b, manifest, parent, ref) = load(b, manifest, Candidates(parent, ref)[1])
<1>1. \A j \in 1 .. (1 - 1) : load(b, manifest, Candidates(parent, ref)[j]) = None OBVIOUS
<1> QED BY <1>1, FirstThatLoads

\* The second, when the first does not.
LEMMA SecondLoads ==
    ASSUME NEW b, NEW manifest, NEW parent, NEW ref, 2 \in DOMAIN Candidates(parent, ref),
           load(b, manifest, Candidates(parent, ref)[1]) = None,
           load(b, manifest, Candidates(parent, ref)[2]) # None
    PROVE  SkillNamed(b, manifest, parent, ref) = load(b, manifest, Candidates(parent, ref)[2])
<1>1. \A j \in 1 .. (2 - 1) : load(b, manifest, Candidates(parent, ref)[j]) = None OBVIOUS
<1> QED BY <1>1, FirstThatLoads

\* A declaration has the name it is given.
LEMMA DeclFields ==
    ASSUME NEW slug, NEW path, NEW d
    PROVE  LET s == _build_decl(slug, path, d)
           IN  s.name = slug /\ s.parent_skill = None
BY DEF _build_decl

\* What a directory's declarations are called.
LEMMA Names ==
    ASSUME NEW b, NEW s \in parse_bundle_dir(b)
    PROVE  \/ \E t \in Declared(b) : s = TopDecl(t) /\ s.name = <<t.name>> /\ s.parent_skill = None
           \/ \E t \in Declared(b) : \E x \in t.subs :
                s = SubDecl(t, x) /\ s.name = <<t.name, x.name>> /\ s.parent_skill = t.name
<1>1. ASSUME NEW t \in Declared(b), s = TopDecl(t)
      PROVE  s.name = <<t.name>> /\ s.parent_skill = None
  BY <1>1, DeclFields DEF TopDecl
<1>2. ASSUME NEW t, NEW x
      PROVE  SubDecl(t, x).name = <<t.name, x.name>> /\ SubDecl(t, x).parent_skill = t.name
  <2>1. SubDecl(t, x) = ZippedSubDecl(t, x) BY SubsDeclaredAlike
  <2>2. ZippedSubDecl(t, x).name = <<t.name, x.name>> /\ ZippedSubDecl(t, x).parent_skill = t.name
    BY DEF ZippedSubDecl, _build_decl
  <2> QED BY <2>1, <2>2
<1> QED BY <1>1, <1>2 DEF parse_bundle_dir

\* In a directory each name is there once, so each skill is.
LEMMA OneOfAName ==
    ASSUME NEW b, NamesApart(b), \A t \in b : NamesApart(t.subs),
           NEW s \in parse_bundle_dir(b), NEW r \in parse_bundle_dir(b), s.name = r.name
    PROVE  s = r
<1>1. \A t \in Declared(b) : t \in b BY DEF Declared
<1>2. ASSUME NEW t \in Declared(b), NEW u \in Declared(b), t.name = u.name PROVE t = u
  BY <1>1, <1>2 DEF NamesApart
<1>3. ASSUME NEW t \in Declared(b), NEW x \in t.subs, NEW y \in t.subs, x.name = y.name PROVE x = y
  BY <1>1, <1>3 DEF NamesApart
<1>4. CASE \E t \in Declared(b) : s = TopDecl(t) /\ s.name = <<t.name>>
  <2>1. PICK t \in Declared(b) : s = TopDecl(t) /\ s.name = <<t.name>> BY <1>4
  <2>2. \E u \in Declared(b) : r = TopDecl(u) /\ r.name = <<u.name>> BY <2>1, Names
  <2> QED BY <2>1, <2>2, <1>2
<1>5. CASE \E t \in Declared(b) : \E x \in t.subs : s = SubDecl(t, x) /\ s.name = <<t.name, x.name>>
  <2>1. PICK t \in Declared(b) : \E x \in t.subs : s = SubDecl(t, x) /\ s.name = <<t.name, x.name>> BY <1>5
  <2>2. PICK x \in t.subs : s = SubDecl(t, x) /\ s.name = <<t.name, x.name>> BY <2>1
  <2>3. PICK u \in Declared(b) : \E y \in u.subs : r = SubDecl(u, y) /\ r.name = <<u.name, y.name>>
    BY <2>2, Names
  <2>4. PICK y \in u.subs : r = SubDecl(u, y) /\ r.name = <<u.name, y.name>> BY <2>3
  <2>5. t = u /\ x.name = y.name BY <2>2, <2>4, <1>2
  <2> QED BY <2>2, <2>4, <2>5, <1>3
<1> QED BY <1>4, <1>5, Names

\* A load that gives a skill gives one declared under that name.
LEMMA LoadedIs ==
    ASSUME NEW b, NEW manifest, NEW name, load(b, manifest, name) # None
    PROVE  \E s \in manifest : s.name = name /\ load(b, manifest, name) = LoadedSkill(s, manifest)
<1> DEFINE found == {s \in skill(manifest, name) : Loads(b, manifest, s)}
<1>1. found # {} /\ load(b, manifest, name) = LoadedSkill(CHOOSE s \in found : TRUE, manifest)
  BY Zenon DEF load
<1>2. (CHOOSE s \in found : TRUE) \in found BY <1>1, Zenon
<1> QED BY <1>1, <1>2, Zenon DEF skill

\* What a loaded skill has of its declaration.
LEMMA LoadedFields ==
    ASSUME NEW s, NEW manifest
    PROVE  LET k == LoadedSkill(s, manifest)
           IN  /\ k.name = s.name /\ k.input_schema = s.input_schema
               /\ k.output_schema = s.output_schema
               /\ k.tools = [i \in DOMAIN s.tools |-> _load_tool(s.tools[i], s, manifest)]
BY DEF LoadedSkill

\* A skill tool shows its target's schemas.
LEMMA ToolFields ==
    ASSUME NEW t, NEW decl, NEW manifest, _load_tool(t, decl, manifest).skill_ref # None
    PROVE  LET target == CHOOSE s \in ToolTarget(t.skill_ref, decl, manifest) : TRUE
               tool == _load_tool(t, decl, manifest)
           IN  /\ t.skill_ref # None
               /\ tool.skill_ref = target.name
               /\ tool.input_schema = target.input_schema
               /\ tool.output_schema = target.output_schema
<1>1. CASE t.skill_ref = None BY <1>1 DEF _load_tool
<1>2. CASE t.skill_ref # None
  <2> DEFINE target == CHOOSE s \in ToolTarget(t.skill_ref, decl, manifest) : TRUE
  <2>1. _load_tool(t, decl, manifest) = [name |-> t.name, description |-> OrElse(t.description, target.description),
              skill_ref |-> target.name, file |-> <<>>, func |-> None,
              input_schema |-> target.input_schema, output_schema |-> target.output_schema,
              confirm |-> t.confirm]
    BY <1>2, Zenon DEF _load_tool
  <2> HIDE DEF target
  <2>2. /\ _load_tool(t, decl, manifest).skill_ref = target.name
        /\ _load_tool(t, decl, manifest).input_schema = target.input_schema
        /\ _load_tool(t, decl, manifest).output_schema = target.output_schema
    BY <2>1
  <2> QED BY <1>2, <2>2 DEF target
<1> QED BY <1>1, <1>2

\* A skill tool's target is the caller's own subskill or a top one, and the
\* dispatch of its ref, bare or in full, runs it.
LEMMA TargetRuns ==
    ASSUME NEW b, NamesApart(b), \A t \in b : NamesApart(t.subs),
           NEW decl \in parse_bundle_dir(b),
           Loads(b, parse_bundle_dir(b), decl), is_agentic(decl.entrypoint),
           NEW i \in DOMAIN decl.tools, decl.tools[i].skill_ref # None,
           NEW target \in ToolTarget(decl.tools[i].skill_ref, decl, parse_bundle_dir(b)),
           load(b, parse_bundle_dir(b), target.name) # None,
           NEW ref \in {target.name, <<decl.tools[i].skill_ref>>},
           NEW caller, caller.name = decl.name
    PROVE  /\ SkillNamed(b, parse_bundle_dir(b), caller, ref)
                = LoadedSkill(target, parse_bundle_dir(b))
           /\ \A s \in skill(parse_bundle_dir(b), target.name) :
                s.parent_skill \in {None, decl.name[1]}
<1> DEFINE manifest == parse_bundle_dir(b)
           top == decl.name[1]
           bare == decl.tools[i].skill_ref
           own == skill(manifest, <<top, bare>>)
           Reachable == {s \in own : s.parent_skill \in {None, top}}
<1>2. target \in ToolTarget(bare, decl, manifest) OBVIOUS
<1>3. ToolTarget(bare, decl, manifest) = IF Reachable # {} THEN Reachable ELSE skill(manifest, <<bare>>)
  BY Zenon DEF ToolTarget
<1>4. target \in manifest
  BY <1>2, <1>3 DEF skill
<1>5. load(b, manifest, target.name) = LoadedSkill(target, manifest)
  <2> DEFINE n == target.name
  <2>1. load(b, manifest, n) # None OBVIOUS
  <2>2. \E s \in manifest : s.name = n /\ load(b, manifest, n) = LoadedSkill(s, manifest)
    <3> HIDE DEF n, manifest
    <3> QED BY <2>1, LoadedIs
  <2>3. PICK s \in manifest : s.name = n /\ load(b, manifest, n) = LoadedSkill(s, manifest)
    BY <2>2
  <2>4. s = target BY <2>3, <1>4, OneOfAName, Zenon
  <2> QED BY <2>3, <2>4, Zenon
<1>6. \A s \in own : s.parent_skill = top
  <2> SUFFICES ASSUME NEW s \in manifest, s.name = <<top, bare>> PROVE s.parent_skill = top
    BY Zenon DEF skill
  <2> HIDE DEF top, bare
  <2> QED BY Names
<1>7. CASE Reachable # {}
  <2>1. target.name = <<top, bare>> /\ target.parent_skill \in {None, top}
    BY <1>2, <1>3, <1>7, Zenon DEF skill
  <2>2. \A s \in skill(manifest, target.name) : s = target
    BY <1>4, OneOfAName, Zenon DEF skill
  <2>3. CASE ref = target.name
    <3>1. Candidates(caller, ref) = <<target.name>>
      <4>1. Len(ref) = 2 
        <5> HIDE DEF top, bare
        <5> QED BY <2>1, <2>3
      <4>2. Len(ref) # 1 BY <4>1
      <4> QED BY <4>2, <2>3, Zenon DEF Candidates
    <3>2. 1 \in DOMAIN Candidates(caller, ref) /\ Candidates(caller, ref)[1] = target.name 
      BY <3>1
    <3>3. SkillNamed(b, manifest, caller, ref) = load(b, manifest, target.name)
      BY <3>2, <2>1, FirstLoads, Zenon
    <3> QED BY <3>3, <1>5, <2>1, <2>2, Zenon
  <2>4. CASE ref = <<bare>>
    <3>1. Candidates(caller, ref) = <<target.name, <<bare>>>>
      <4>1. Len(ref) = 1 /\ <<top>> \o ref = <<top, bare>>
        <5> HIDE DEF top, bare
        <5> QED BY <2>4, Joined
      <4> QED BY <4>1, <2>4, <2>1, Zenon DEF Candidates
    <3>2. 1 \in DOMAIN Candidates(caller, ref) /\ Candidates(caller, ref)[1] = target.name 
      BY <3>1
    <3>3. SkillNamed(b, manifest, caller, ref) = load(b, manifest, target.name)
      BY <3>2, <2>1, FirstLoads, Zenon
    <3> QED BY <3>3, <1>5, <2>1, <2>2, Zenon
  <2> QED BY <2>3, <2>4, Zenon
<1>8. CASE Reachable = {}
  <2>1. target.name = <<bare>>
    BY <1>2, <1>3, <1>8, Zenon DEF skill
  <2>2. own = {} BY <1>6, <1>8
  <2>3. ref = <<bare>> BY <2>1, Zenon
  <2>4. Candidates(caller, ref) = <<<<top, bare>>, target.name>>
    <3>1. Len(ref) = 1 /\ <<top>> \o ref = <<top, bare>>
      <4> HIDE DEF top, bare
      <4> QED BY <2>3, Joined
    <3> QED BY <3>1, <2>1, <2>3, Zenon DEF Candidates
  <2>5. /\ 2 \in DOMAIN Candidates(caller, ref) /\ Candidates(caller, ref)[2] = target.name
        /\ Candidates(caller, ref)[1] = <<top, bare>>
    <3> HIDE DEF top, bare
    <3> QED BY <2>4
  <2>6. load(b, manifest, <<top, bare>>) = None
    <3>1. {s \in skill(manifest, <<top, bare>>) : Loads(b, manifest, s)} = {} BY <2>2
    <3> QED BY <3>1, Zenon DEF load
  <2>7. SkillNamed(b, manifest, caller, ref) = load(b, manifest, target.name)
    BY <2>5, <2>6, SecondLoads, Zenon
  <2>8. \A s \in skill(manifest, target.name) : s.parent_skill = None
    <3> SUFFICES ASSUME NEW s \in manifest, s.name = <<bare>> PROVE s.parent_skill = None
      BY <2>1, Zenon DEF skill
    <3> HIDE DEF bare
    <3> QED BY Names
  <2> QED BY <2>7, <2>8, <1>5, Zenon
<1> QED BY <1>7, <1>8, Zenon

\* A prompt file of the caller's is the one in its own directory.
LEMMA OwnPrompt ==
    ASSUME NEW b, NEW caller, NEW file, PromptNamed(b, caller, <<file>>) # None
    PROVE  PromptNamed(b, caller, <<file>>).prompt = <<caller.name[1], file>>
<1> DEFINE top == caller.name[1]
           rel == IF file = top THEN <<file>> ELSE <<top, file>>
<1>1. PromptNamed(b, caller, <<file>>) = load_adhoc(b, rel)
  <2>1. <<file>>[1] = file /\ <<top>> \o <<file>> = <<top, file>>
    <3> HIDE DEF top
    <3> QED BY Joined
  <2> QED BY <2>1, Zenon DEF PromptNamed
<1> HIDE DEF rel
<1>2. Len(rel) = 2 /\ load_adhoc(b, rel) = Adhoc(rel, <<rel[1]>>, rel) BY <1>1, Zenon DEF load_adhoc
<1>3. rel = <<top, file>>
  <2> HIDE DEF top
  <2> QED BY <1>2 DEF rel
<1>4. Adhoc(rel, <<rel[1]>>, rel).prompt = rel BY DEF Adhoc
<1> QED BY <1>1, <1>2, <1>3, <1>4, Zenon

\* Whatever bundle is pushed, a skill tool shows what its call runs.
LEMMA ToolsAreFaithful == 
    ToolsRunWhatTheyShow(Bundles)
<1> SUFFICES ASSUME NEW b \in Bundles, NEW decl \in parse_bundle_dir(b),
             Loads(b, parse_bundle_dir(b), decl), is_agentic(decl.entrypoint)
    PROVE LET manifest == parse_bundle_dir(b)
              caller == LoadedSkill(decl, manifest)
                    Run(is, ref) ==
                        _resolve_local_subagent(b, manifest, caller, [is |-> is, ref |-> ref])
                    Shown(i) == caller.tools[i]
                    Faithful(run, tool) ==
                        /\ run.name = tool.skill_ref
                        /\ run.input_schema = tool.input_schema /\ run.output_schema = tool.output_schema
                        /\ \A s \in skill(manifest, run.name) : s.parent_skill \in {None, decl.name[1]}
                IN  /\ \A i \in DOMAIN caller.tools :
                        Shown(i).skill_ref # None /\ load(b, manifest, Shown(i).skill_ref) # None =>
                            /\ Faithful(Run("skill", Shown(i).skill_ref), Shown(i))
                            /\ Faithful(Run("skill", <<decl.tools[i].skill_ref>>), Shown(i))
                    /\ \A file \in UNION {t.files : t \in b} :
                        LET prompt == Run("file", <<file>>)
                        IN  prompt # None => prompt.prompt = <<decl.name[1], file>>
  BY ZenonT(40) DEF ToolsRunWhatTheyShow
<1> DEFINE manifest == parse_bundle_dir(b)
           caller == LoadedSkill(decl, manifest)
           Run(is, ref) == _resolve_local_subagent(b, manifest, caller, [is |-> is, ref |-> ref])
           Shown(i) == caller.tools[i]
           Faithful(run, tool) ==
                /\ run.name = tool.skill_ref
                /\ run.input_schema = tool.input_schema /\ run.output_schema = tool.output_schema
                /\ \A s \in skill(manifest, run.name) : s.parent_skill \in {None, decl.name[1]}
<1>1. NamesApart(b) /\ \A t \in b : NamesApart(t.subs) BY BundlesAssumption
<1>2. /\ caller.name = decl.name
      /\ caller.tools = [i \in DOMAIN decl.tools |-> _load_tool(decl.tools[i], decl, manifest)]
  BY LoadedFields
<1>3. \A ref : /\ Run("skill", ref) = SkillNamed(b, manifest, caller, ref)
               /\ Run("file", ref) = PromptNamed(b, caller, ref)
  <2> HIDE DEF manifest, caller
  <2> QED BY DEF _resolve_local_subagent
<1>4. ASSUME NEW i \in DOMAIN caller.tools,
             Shown(i).skill_ref # None, load(b, manifest, Shown(i).skill_ref) # None,
             NEW ref \in {Shown(i).skill_ref, <<decl.tools[i].skill_ref>>}
      PROVE  Faithful(Run("skill", ref), Shown(i))
  <2> DEFINE target == CHOOSE s \in ToolTarget(decl.tools[i].skill_ref, decl, manifest) : TRUE
  <2>1. i \in DOMAIN decl.tools /\ Shown(i) = _load_tool(decl.tools[i], decl, manifest)
    <3> HIDE DEF caller, manifest
    <3> QED BY <1>2
  <2>2. /\ decl.tools[i].skill_ref # None
        /\ Shown(i).skill_ref = target.name
        /\ Shown(i).input_schema = target.input_schema
        /\ Shown(i).output_schema = target.output_schema
    <3>1. _load_tool(decl.tools[i], decl, manifest).skill_ref # None BY <1>4, <2>1, Zenon
    <3> DEFINE t == decl.tools[i]
    <3>2. /\ t.skill_ref # None
          /\ _load_tool(t, decl, manifest).skill_ref
                = (CHOOSE s \in ToolTarget(t.skill_ref, decl, manifest) : TRUE).name
          /\ _load_tool(t, decl, manifest).input_schema
                = (CHOOSE s \in ToolTarget(t.skill_ref, decl, manifest) : TRUE).input_schema
          /\ _load_tool(t, decl, manifest).output_schema
                = (CHOOSE s \in ToolTarget(t.skill_ref, decl, manifest) : TRUE).output_schema
      <4>1. _load_tool(t, decl, manifest).skill_ref # None BY <3>1, Zenon
      <4> HIDE DEF t, manifest
      <4> QED BY <4>1, ToolFields
    <3> QED BY <2>1, <3>2, Zenon
  <2>3. /\ SkillNamed(b, manifest, caller, ref) = LoadedSkill(target, manifest)
        /\ \A s \in skill(manifest, target.name) : s.parent_skill \in {None, decl.name[1]}
    <3>1. load(b, manifest, target.name) # None BY <1>4, <2>2, Zenon
    <3>2. ref \in {target.name, <<decl.tools[i].skill_ref>>} BY <2>2, <1>4, Zenon
    <3>3. caller.name = decl.name /\ i \in DOMAIN decl.tools /\ decl.tools[i].skill_ref # None
      BY <1>2, <2>1, <2>2, Zenon
    <3>4. ToolTarget(decl.tools[i].skill_ref, decl, manifest) # {}
      BY <3>3, Zenon DEF Loads, ToSet
    <3>5. target \in ToolTarget(decl.tools[i].skill_ref, decl, manifest)
      BY <3>4, Zenon
    <3> HIDE DEF caller, target
    <3> QED BY <1>1, <3>1, <3>2, <3>3, <3>5, TargetRuns
  <2>4. /\ LoadedSkill(target, manifest).name = target.name
        /\ LoadedSkill(target, manifest).input_schema = target.input_schema
        /\ LoadedSkill(target, manifest).output_schema = target.output_schema
    BY LoadedFields
  <2> QED BY <1>3, <2>2, <2>3, <2>4, ZenonT(40)
<1>5. ASSUME NEW file, Run("file", <<file>>) # None
      PROVE  Run("file", <<file>>).prompt = <<decl.name[1], file>>
  <2>1. PromptNamed(b, caller, <<file>>) # None /\ caller.name = decl.name BY <1>2, <1>3, <1>5, Zenon
  <2>2. PromptNamed(b, caller, <<file>>).prompt = <<caller.name[1], file>>
    <3> HIDE DEF caller
    <3> QED BY <2>1, OwnPrompt
  <2> QED BY <1>3, <2>1, <2>2, Zenon
<1> QED BY <1>4, <1>5, Zenon

-----------------------------------------------------------------------------
(* The stored manifest.                                                    *)

\* A set of naturals that is not empty has a least one.
LEMMA Least ==
    ASSUME NEW S \in SUBSET Nat, S # {}
    PROVE  \E k \in S : \A j \in S : ~ (j < k)
<1> DEFINE Segments == {0 .. k : k \in S}
<1>1. Segments \subseteq FiniteSubsetsOf(Nat) /\ Segments # {}
  <2>1. ASSUME NEW k \in S PROVE 0 .. k \in FiniteSubsetsOf(Nat)
    <3>1. k \in Nat OBVIOUS
    <3>2. IsFiniteSet(0 .. k) BY <3>1, FS_Interval
    <3> QED BY <3>1, <3>2 DEF FiniteSubsetsOf
  <2> QED BY <2>1
<1>2. PICK x \in Segments :
          \A y \in Segments : <<y, x>> \notin StrictSubsetOrdering(Nat)
  <2> HIDE DEF Segments
  <2> QED BY <1>1, FS_StrictSubsetOrderingWellFounded, WFMin
<1>3. PICK k \in S : x = 0 .. k BY <1>2
<1>4. ASSUME NEW j \in S, j < k PROVE FALSE
  <2>1. 0 .. j \in Segments OBVIOUS
  <2>2. 0 .. j \subseteq 0 .. k /\ k \notin 0 .. j /\ k \in 0 .. k BY <1>4
  <2>3. ASSUME NEW A \in SUBSET Nat, NEW B \in SUBSET Nat, NEW e \in B,
               A \subseteq B, e \notin A
        PROVE  <<A, B>> \in StrictSubsetOrdering(Nat)
    BY <2>3 DEF StrictSubsetOrdering
  <2>4. 0 .. j \in SUBSET Nat /\ 0 .. k \in SUBSET Nat BY <1>4
  <2>5. <<0 .. j, 0 .. k>> \in StrictSubsetOrdering(Nat) BY <2>2, <2>3, <2>4
  <2> QED BY <1>2, <1>3, <2>1, <2>5
<1> QED BY <1>4

\* The rule by which Kept goes through a list.
PrefixRule(upTo, items, places) ==
    upTo = [n \in 0 .. Len(items) |->
                IF n = 0 THEN <<>>
                ELSE IF n \in places THEN Append(upTo[n - 1], items[n]) ELSE upTo[n - 1]]

\* Kept follows it.
LEMMA KeptFollows ==
    ASSUME NEW items, NEW places
    PROVE  Kept(items, places) = (CHOOSE upTo : PrefixRule(upTo, items, places))[Len(items)]
BY DEF Kept, PrefixRule

\* Where every place is kept, the list is.  (By the least place at which a prefix
\* would differ.)
LEMMA AllKept ==
    ASSUME NEW S, NEW items \in Seq(S) PROVE Kept(items, DOMAIN items) = items
<1> DEFINE Rule(f) == PrefixRule(f, items, DOMAIN items)
           prefixes == [n \in 0 .. Len(items) |-> SubSeq(items, 1, n)]
<1>1. \A n \in 1 .. Len(items) : Append(SubSeq(items, 1, n - 1), items[n]) = SubSeq(items, 1, n)
  OBVIOUS
<1>2. SubSeq(items, 1, 0) = <<>> OBVIOUS
<1>3. Rule(prefixes)
  <2>1. ASSUME NEW n \in 0 .. Len(items)
        PROVE  prefixes[n] = IF n = 0 THEN <<>>
                ELSE IF n \in DOMAIN items THEN Append(prefixes[n - 1], items[n]) ELSE prefixes[n - 1]
    <3>1. CASE n = 0 BY <3>1, <1>2
    <3>2. CASE n # 0
      <4>1. n \in DOMAIN items /\ n - 1 \in 0 .. Len(items) BY <3>2
      <4> QED BY <4>1, <3>2, <1>1
    <3> QED BY <3>1, <3>2
  <2> HIDE DEF prefixes
  <2>2. prefixes = [n \in 0 .. Len(items) |-> prefixes[n]] BY DEF prefixes
  <2> QED BY <2>1, <2>2 DEF PrefixRule
<1> DEFINE upTo == CHOOSE f : Rule(f)
<1>4. Rule(upTo) 
  <2> HIDE DEF Rule
  <2> QED BY <1>3
<1> HIDE DEF upTo
<1> DEFINE Bad == {n \in 0 .. Len(items) : upTo[n] # SubSeq(items, 1, n)}
<1>5. ASSUME Bad # {} PROVE FALSE
  <2>1. Len(items) \in Nat OBVIOUS
  <2>2. Bad \in SUBSET Nat BY <2>1
  <2>3. PICK n \in Bad : \A m \in Bad : ~ (m < n)
    <3> HIDE DEF Bad
    <3> QED BY <1>5, <2>2, Least
  <2>4. n # 0 
    <3>1. upTo[0] = <<>> BY <1>4, <2>1 DEF PrefixRule
    <3> QED BY <3>1, <1>2
  <2>5. n - 1 \in 0 .. Len(items) /\ n - 1 < n /\ n \in DOMAIN items BY <2>1, <2>4
  <2>6. upTo[n - 1] = SubSeq(items, 1, n - 1) BY <2>3, <2>5
  <2>7. upTo[n] = Append(upTo[n - 1], items[n]) BY <1>4, <2>4, <2>5 DEF PrefixRule
  <2>8. n \in 1 .. Len(items) /\ upTo[n] # SubSeq(items, 1, n) BY <2>3, <2>5
  <2>9. Append(SubSeq(items, 1, n - 1), items[n]) = SubSeq(items, 1, n) BY <1>1, <2>8
  <2> HIDE DEF Bad
  <2> QED BY <2>6, <2>7, <2>8, <2>9, Zenon
<1>6. upTo[Len(items)] = SubSeq(items, 1, Len(items)) BY <1>5
<1>7. SubSeq(items, 1, Len(items)) = items OBVIOUS
<1> QED BY <1>6, <1>7, KeptFollows DEF upTo

\* A tool comes back as it was declared.
LEMMA ToolRestored == ASSUME NEW t PROVE RestoredTool(ToolDecl(t)) = ToolDecl(t)
BY Zenon DEF RestoredTool, ToolDecl

\* A grader with a weight keeps it.
LEMMA WeightKept ==
    ASSUME NEW g, g.weight \in Int, g.weight > 0
    PROVE  [EvalDecl(g) EXCEPT !.weight = IF @ = 0 THEN 1 ELSE @] = EvalDecl(g)
<1> DEFINE e == EvalDecl(g)
<1>1. e = [x \in DOMAIN e |-> e[x]] /\ e.weight = g.weight BY DEF EvalDecl
<1> HIDE DEF e
<1>2. e.weight # 0 BY <1>1
<1>3. [e EXCEPT !.weight = IF @ = 0 THEN 1 ELSE @] = e BY <1>1, <1>2
<1> QED BY <1>3, Zenon DEF e

\* A list, item by item, is a list.
LEMMA Mapped ==
    ASSUME NEW s, IsList(s), NEW r, DOMAIN r = DOMAIN s, r = [i \in DOMAIN r |-> r[i]]
    PROVE  r \in Seq(ToSet(r))
<1>1. DOMAIN s = 1 .. Len(s) /\ Len(s) \in Nat BY DEF IsList
<1> QED BY <1>1 DEF ToSet

\* No example and no grader that was accepted is dropped on the way back.
LEMMA RowsKept ==
    ASSUME NEW d, IsList(d.examples), IsList(d.evals),
           \A i \in DOMAIN d.evals : d.evals[i].weight \in Int,
           Acceptable(d)
    PROVE  LET examples == [i \in DOMAIN d.examples |-> SkillExample(d.examples[i])]
               evals == [i \in DOMAIN d.evals |-> EvalDecl(d.evals[i])]
           IN  RestoredExamples(examples) = examples /\ RestoredEvals(evals) = evals
<1> DEFINE examples == [i \in DOMAIN d.examples |-> SkillExample(d.examples[i])]
           evals == [i \in DOMAIN d.evals |-> EvalDecl(d.evals[i])]
<1>1. RestoredExamples(examples) = examples
  <2>1. \A i \in DOMAIN d.examples : d.examples[i].inputs # None
    BY Zenon DEF Acceptable, AcceptableExample, ToSet
  <2>2. \A i \in DOMAIN examples : examples[i].inputs # None
    BY <2>1 DEF SkillExample
  <2>3. {i \in DOMAIN examples : examples[i].inputs # None} = DOMAIN examples
    <3> HIDE DEF examples
    <3> QED BY <2>2
  <2>4. examples \in Seq(ToSet(examples))
    <3>1. DOMAIN examples = DOMAIN d.examples /\ examples = [i \in DOMAIN examples |-> examples[i]] OBVIOUS
    <3> HIDE DEF examples
    <3> QED BY <3>1, Mapped
  <2> HIDE DEF examples
  <2> QED BY <2>3, <2>4, AllKept, Zenon DEF RestoredExamples
<1>2. RestoredEvals(evals) = evals
  <2>1. \A i \in DOMAIN d.evals : AcceptableGrader(d.evals[i])
    BY Zenon DEF Acceptable, ToSet
  <2>2. \A i \in DOMAIN evals : evals[i].kind \in {"check", "rubric", "exact_match", "schema"}
    BY <2>1 DEF EvalDecl, AcceptableGrader
  <2>3. {i \in DOMAIN evals : evals[i].kind \in {"check", "rubric", "exact_match", "schema"}} = DOMAIN evals
    <3> HIDE DEF evals
    <3> QED BY <2>2
  <2>4. evals \in Seq(ToSet(evals))
    <3>1. DOMAIN evals = DOMAIN d.evals /\ evals = [i \in DOMAIN evals |-> evals[i]] OBVIOUS
    <3> HIDE DEF evals
    <3> QED BY <3>1, Mapped
  <2>5. ASSUME NEW i \in DOMAIN evals
        PROVE  [evals[i] EXCEPT !.weight = IF @ = 0 THEN 1 ELSE @] = evals[i]
    <3>1. d.evals[i].weight \in Int /\ d.evals[i].weight > 0 /\ evals[i] = EvalDecl(d.evals[i])
      BY <2>1 DEF AcceptableGrader
    <3> QED BY <3>1, WeightKept, Zenon
  <2>6. evals = [i \in DOMAIN evals |-> evals[i]] OBVIOUS
  <2> HIDE DEF evals
  <2>7. Kept(evals, DOMAIN evals) = evals BY <2>4, AllKept
  <2>8. RestoredEvals(evals) = [i \in DOMAIN evals |-> [evals[i] EXCEPT !.weight = IF @ = 0 THEN 1 ELSE @]]
    BY <2>3, <2>7, Zenon DEF RestoredEvals
  <2> QED BY <2>5, <2>6, <2>8, Zenon
<1> QED BY <1>1, <1>2, Zenon

\* A declaration as the record of its fields.
Fields(decl) ==
    [name |-> decl.name, path |-> decl.path, parent_skill |-> decl.parent_skill,
     title |-> decl.title, description |-> decl.description,
     entrypoint |-> decl.entrypoint, input_schema |-> decl.input_schema,
     output_schema |-> decl.output_schema,
     model |-> decl.model, image_model |-> decl.image_model,
     video_model |-> decl.video_model, audio_model |-> decl.audio_model,
     media_kinds |-> decl.media_kinds, disable_bash |-> decl.disable_bash,
     tools |-> decl.tools, examples |-> decl.examples, evals |-> decl.evals,
     eval_dataset |-> decl.eval_dataset, routing |-> decl.routing,
     marketing |-> decl.marketing, allowed_tools |-> decl.allowed_tools,
     tool_limits |-> decl.tool_limits, cache_ttl |-> decl.cache_ttl]

\* What _build_decl makes is such a record.
LEMMA DeclIsItsFields == ASSUME NEW slug, NEW path, NEW d PROVE
    LET decl == _build_decl(slug, path, d) IN
      /\ decl = Fields(decl)
      /\ decl.tools = [i \in DOMAIN d.tools |-> ToolDecl(d.tools[i])]
      /\ decl.examples = [i \in DOMAIN d.examples |-> SkillExample(d.examples[i])]
      /\ decl.evals = [i \in DOMAIN d.evals |-> EvalDecl(d.evals[i])]
      /\ decl.cache_ttl = OrElse(d.cache_ttl, "5m")
BY DEF _build_decl, Fields

\* The JSON of a declaration has its fields.
LEMMA StoredHasFields == ASSUME NEW decl, decl = Fields(decl) PROVE 
    LET row == to_dict(decl) IN Fields(row) = decl
<1> DEFINE row == to_dict(decl)
<1>1. DOMAIN decl = {"name", "path", "parent_skill", "title", "description", "entrypoint", "input_schema", "output_schema", "model", "image_model", "video_model", "audio_model", "media_kinds", "disable_bash", "tools", "examples", "evals", "eval_dataset", "routing", "marketing", "allowed_tools", "tool_limits", "cache_ttl"}
  BY Zenon DEF Fields
<1>2. \A key \in DOMAIN decl : row[key] = decl[key]
  BY <1>1 DEF to_dict
<1> HIDE DEF row
<1>3. Fields(row) = Fields(decl) BY <1>1, <1>2 DEF Fields
<1> QED BY <1>3 DEF row

\* A row whose lists are restored as they are is read back field by field.
LEMMA BackAgain ==
    ASSUME NEW row,
           row.tools = [i \in DOMAIN row.tools |-> RestoredTool(row.tools[i])],
           RestoredExamples(row.examples) = row.examples,
           RestoredEvals(row.evals) = row.evals,
           row.cache_ttl \in {"5m", "1h"}
    PROVE  from_stored_dict(row) = Fields(row)
BY DEF from_stored_dict, Fields

\* Whatever an author declares, its stored manifest gives it back.
LEMMA ManifestSurvives ==
    StoredManifestSurvives(Yamls)
<1> SUFFICES ASSUME NEW d \in Yamls, Acceptable(d)
             PROVE  LET decl == _build_decl(<<"a">>, <<"a">>, d)
                    IN  from_stored_dict(to_dict(decl)) = decl
  BY Zenon DEF StoredManifestSurvives
<1> DEFINE slug == <<"a">>
           decl == _build_decl(slug, slug, d)
           row == to_dict(decl)
<1>1. /\ decl = Fields(decl)
      /\ decl.tools = [i \in DOMAIN d.tools |-> ToolDecl(d.tools[i])]
      /\ decl.examples = [i \in DOMAIN d.examples |-> SkillExample(d.examples[i])]
      /\ decl.evals = [i \in DOMAIN d.evals |-> EvalDecl(d.evals[i])]
      /\ decl.cache_ttl = OrElse(d.cache_ttl, "5m")
  <2> HIDE DEF slug
  <2> QED BY DeclIsItsFields
<1>2. Fields(row) = decl BY <1>1, StoredHasFields, Zenon
<1>3. RestoredExamples(decl.examples) = decl.examples /\ RestoredEvals(decl.evals) = decl.evals
  <2> HIDE DEF decl
  <2> QED BY <1>1, RowsKept, YamlsAssumption
<1>4. decl.tools = [i \in DOMAIN decl.tools |-> RestoredTool(decl.tools[i])]
  <2> HIDE DEF decl
  <2> QED BY <1>1, ToolRestored
<1>5. decl.cache_ttl \in {"5m", "1h"}
  <2> HIDE DEF decl
  <2> QED BY <1>1 DEF Acceptable, AcceptableTtl, OrElse
<1> HIDE DEF row, decl
<1>6. /\ row.tools = decl.tools /\ row.examples = decl.examples
      /\ row.evals = decl.evals /\ row.cache_ttl = decl.cache_ttl
  BY <1>2 DEF Fields
<1>7. from_stored_dict(row) = Fields(row)
  BY <1>3, <1>4, <1>5, <1>6, BackAgain
<1> QED BY <1>2, <1>7, Zenon DEF row, decl

-----------------------------------------------------------------------------

\* A job that uses a cached deployment calls the skills its tools show: the two
\* resolvers of skill_loader and agent_runner agree on every bundle.
THEOREM CallersCallWhatTheySee == Spec => []UsersCallWhatTheySee
<1>1. UsersCallWhatTheySee BY ToolsAreFaithful DEF UsersCallWhatTheySee, ToolsFaithful
<1> QED BY <1>1, PTL

\* A job that uses a cached deployment finds in it the skills the API found in
\* the zip: the two parsers of manifest.py agree on every bundle.
THEOREM CallersFindWhatWasPushed == Spec => []UsersFindWhatWasPushed
<1>1. UsersFindWhatWasPushed BY BothParsersAgree DEF UsersFindWhatWasPushed, ParsersAgree
<1> QED BY <1>1, PTL

\* A job that uses a cached deployment is held to every gate and limit its author
\* wrote: to_dict and from_stored_dict lose nothing of any manifest.
THEOREM CallersKeepTheManifest == Spec => []UsersKeepTheManifest
<1>1. UsersKeepTheManifest BY ManifestSurvives DEF UsersKeepTheManifest, StorageFaithful
<1> QED BY <1>1, PTL
=============================================================================
