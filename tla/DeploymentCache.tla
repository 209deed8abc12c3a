-------------------------- MODULE DeploymentCache ---------------------------
(***************************************************************************)
(* The bundle and venv caches of worker/deployment.py.  _ensure_bundle and *)
(* _build_venv follow one protocol over a directory, a `.ready` sentinel   *)
(* in it and an exclusive flock beside it; an entry is a deployment id or  *)
(* the hash of a requirements file.  A caller is a thread or event loop of *)
(* one of the processes that share deployments_root.                       *)
(*                                                                         *)
(* pc is where a caller is:                                                *)
(*   idle                     no call under way                            *)
(*   test                     before the unlocked test of the sentinel     *)
(*   blocked                  in flock                                     *)
(*   locked                   before the second test                       *)
(*   clearing                 rmtree of what an earlier build left         *)
(*   building                 download and extraction, or venv and pip     *)
(*   built                    before sentinel.touch()                      *)
(*   touched                  before the lock is given back                *)
(*   using                    the job uses the returned path               *)
(***************************************************************************)
CONSTANTS
    Entries,
    Callers,
    Processes,
    ProcessOf,      \* the process of a caller
    NoCaller, NoEntry

ASSUME CacheAssumption ==
    /\ ProcessOf \in [Callers -> Processes]
    /\ NoCaller \notin Callers
    /\ NoEntry \notin Entries

VARIABLES
    sentinel,       \* the entries whose directory holds .ready
    dir,            \* what the directory of an entry holds
    lock,           \* who holds the flock of an entry
    pc, entry       \* of each caller

diskVars == <<sentinel, dir>>
vars == <<sentinel, dir, lock, pc, entry>>

\* The places where the caller holds the lock.
Inside == {"locked", "clearing", "building", "built", "touched"}
PC == {"idle", "test", "blocked", "using"} \cup Inside

TypeOK ==
    /\ sentinel \subseteq Entries
    /\ dir \in [Entries -> {"absent", "partial", "complete"}]
    /\ lock \in [Entries -> Callers \cup {NoCaller}]
    /\ pc \in [Callers -> PC]
    /\ entry \in [Callers -> Entries \cup {NoEntry}]
    /\ \A c \in Callers : pc[c] # "idle" => entry[c] \in Entries

Init ==
    /\ sentinel = {}
    /\ dir = [e \in Entries |-> "absent"]
    /\ lock = [e \in Entries |-> NoCaller]
    /\ pc = [c \in Callers |-> "idle"]
    /\ entry = [c \in Callers |-> NoEntry]

Goto(c, from, to) == pc[c] = from /\ pc' = [pc EXCEPT ![c] = to]
Unlock(c) == lock' = [lock EXCEPT ![entry[c]] = NoCaller]

-----------------------------------------------------------------------------
(* A call.                                                                 *)

\* A job needs an entry.
Call(c, e) ==
    /\ Goto(c, "idle", "test")
    /\ entry' = [entry EXCEPT ![c] = e]
    /\ UNCHANGED <<diskVars, lock>>

\* The sentinel is there: no lock is taken.
Hit(c) ==
    /\ Goto(c, "test", "using")
    /\ entry[c] \in sentinel
    /\ UNCHANGED <<diskVars, lock, entry>>

Miss(c) ==
    /\ Goto(c, "test", "blocked")
    /\ entry[c] \notin sentinel
    /\ UNCHANGED <<diskVars, lock, entry>>

\* Mutant: the lock excludes other processes only (fcntl.lockf).
LockPerProcess(c) ==
    /\ Goto(c, "blocked", "locked")
    /\ \A d \in Callers : lock[entry[c]] = d => ProcessOf[d] = ProcessOf[c]
    /\ lock' = [lock EXCEPT ![entry[c]] = c]
    /\ UNCHANGED <<diskVars, entry>>

\* flock(LOCK_EX): each call opens the lock file itself, so threads of one
\* process exclude one another too.
Lock(c) ==
    /\ Goto(c, "blocked", "locked")
    /\ lock[entry[c]] = NoCaller
    /\ lock' = [lock EXCEPT ![entry[c]] = c]
    /\ UNCHANGED <<diskVars, entry>>

\* Someone else has built it meanwhile.
HitLocked(c) ==
    /\ Goto(c, "locked", "using")
    /\ entry[c] \in sentinel
    /\ Unlock(c)
    /\ UNCHANGED <<diskVars, entry>>

\* Mutant: the sentinel is not tested again under the lock.
MissUntested(c) ==
    /\ Goto(c, "locked", "clearing")
    /\ UNCHANGED <<diskVars, lock, entry>>

MissLocked(c) ==
    /\ Goto(c, "locked", "clearing")
    /\ entry[c] \notin sentinel
    /\ UNCHANGED <<diskVars, lock, entry>>

\* rmtree removes one file after the other.
ClearSome(c) ==
    /\ pc[c] = "clearing" /\ dir[entry[c]] # "absent"
    /\ dir' = [dir EXCEPT ![entry[c]] = "partial"]
    /\ sentinel' = sentinel \ {entry[c]}
    /\ UNCHANGED <<lock, pc, entry>>

ClearAll(c) ==
    /\ Goto(c, "clearing", "building")
    /\ dir' = [dir EXCEPT ![entry[c]] = "absent"]
    /\ sentinel' = sentinel \ {entry[c]}
    /\ UNCHANGED <<lock, entry>>

BuildSome(c) ==
    /\ pc[c] = "building"
    /\ dir' = [dir EXCEPT ![entry[c]] = "partial"]
    /\ UNCHANGED <<sentinel, lock, pc, entry>>

BuildAll(c) ==
    /\ Goto(c, "building", "built")
    /\ dir' = [dir EXCEPT ![entry[c]] = "complete"]
    /\ UNCHANGED <<sentinel, lock, entry>>

\* Mutant: the sentinel is touched when the build starts.
TouchEarly(c) ==
    /\ pc[c] \in {"clearing", "building", "built"}
    /\ pc' = [pc EXCEPT ![c] = IF @ = "built" THEN "touched" ELSE @]
    /\ sentinel' = sentinel \cup {entry[c]}
    /\ UNCHANGED <<dir, lock, entry>>

Touch(c) ==
    /\ Goto(c, "built", "touched")
    /\ sentinel' = sentinel \cup {entry[c]}
    /\ UNCHANGED <<dir, lock, entry>>

Return(c) ==
    /\ Goto(c, "touched", "using")
    /\ Unlock(c)
    /\ UNCHANGED <<diskVars, entry>>

\* Mutant: an exception leaves the lock held.
RaiseLocked(c) ==
    /\ pc[c] \in Inside
    /\ pc' = [pc EXCEPT ![c] = "idle"]
    /\ UNCHANGED <<diskVars, lock, entry>>

\* The download, the extraction, rmtree or a subprocess fails: the lock file is
\* closed, the directory stays as it is.
Raise(c) ==
    /\ pc[c] \in Inside
    /\ pc' = [pc EXCEPT ![c] = "idle"]
    /\ Unlock(c)
    /\ UNCHANGED <<diskVars, entry>>

\* The job is over.
Leave(c) ==
    /\ Goto(c, "using", "idle")
    /\ UNCHANGED <<diskVars, lock, entry>>

\* A process dies with its subprocesses and another takes its place: the locks
\* its callers held are free, what they were building stays half-built.
Crash(p) ==
    /\ pc' = [c \in Callers |-> IF ProcessOf[c] = p THEN "idle" ELSE pc[c]]
    /\ lock' = [e \in Entries |->
                   IF \E c \in Callers : lock[e] = c /\ ProcessOf[c] = p
                       THEN NoCaller ELSE lock[e]]
    /\ UNCHANGED <<diskVars, entry>>

\* The steps of a call, once it is made.
CallStep(c) ==
    \/ Hit(c) \/ Miss(c) \/ Lock(c) \/ HitLocked(c) \/ MissLocked(c)
    \/ ClearSome(c) \/ ClearAll(c) \/ BuildSome(c) \/ BuildAll(c)
    \/ Touch(c) \/ Return(c) \/ Raise(c)

Next ==
    \/ \E c \in Callers : \/ \E e \in Entries : Call(c, e)
                          \/ CallStep(c) \/ Leave(c)
    \/ \E p \in Processes : Crash(p)

Spec == Init /\ [][Next]_vars

\* The steps that bring a call to its end.
Ends(c) ==
    \/ Hit(c) \/ Miss(c) \/ HitLocked(c) \/ MissLocked(c)
    \/ ClearAll(c) \/ BuildAll(c) \/ Touch(c) \/ Return(c) \/ Raise(c)

\* Threads are scheduled, subprocesses and downloads end, and flock wakes every
\* waiter in its turn.
FairSpec == Spec /\ \A c \in Callers : WF_vars(Ends(c)) /\ SF_vars(Lock(c))

-----------------------------------------------------------------------------
(* Properties.                                                             *)

\* A sentinel marks a whole directory: no crash, failure or second builder
\* leaves .ready in a half-built or half-removed one.
ReadyIsComplete == \A e \in sentinel : dir[e] = "complete"

\* What a job uses stays whole under it: "without exclusion one job rmtree's the
\* half-built venv out from under the other's" (deployment.py, _build_venv).
UsersHaveAll == \A c \in Callers : pc[c] = "using" => entry[c] \in sentinel

\* Two callers are never inside the lock of one entry.
Exclusive ==
    \A c, d \in Callers :
        pc[c] \in Inside /\ pc[d] \in Inside /\ entry[c] = entry[d] => c = d

\* The caches implement their promise.
Published == {e \in sentinel : dir[e] = "complete"}
Holds == [c \in Callers |-> IF pc[c] = "using" THEN entry[c] ELSE NoEntry]
Once == INSTANCE BuildOnce WITH published <- Published, holds <- Holds
BuildsOnce == Once!Spec

\* Every call ends: no failure or crash of a builder leaves the others waiting.
CallsEnd ==
    \A c \in Callers : pc[c] = "test" ~> pc[c] \in {"using", "idle"}

-----------------------------------------------------------------------------
(* The inductive invariant.                                                *)

\* Who is inside has the lock, and who has the lock is inside.
LockHeld ==
    \A e \in Entries, c \in Callers :
        lock[e] = c <=> pc[c] \in Inside /\ entry[c] = e

\* Who clears or builds an entry found no sentinel, and none has come since.
Unmarked ==
    \A c \in Callers :
        /\ pc[c] \in {"clearing", "building", "built"} => entry[c] \notin sentinel
        /\ pc[c] = "built" => dir[entry[c]] = "complete"
        /\ pc[c] = "touched" => entry[c] \in sentinel

IInv == TypeOK /\ LockHeld /\ Unmarked /\ ReadyIsComplete /\ UsersHaveAll
=============================================================================
