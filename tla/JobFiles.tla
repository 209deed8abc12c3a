------------------------------ MODULE JobFiles ------------------------------
(***************************************************************************)
(* The files of a workspace's runs: the drive of each machine (a cache of  *)
(* plain files), the bucket the API serves from, and the end of a run,     *)
(* where its deliverable is filed under the run's own folder, pushed and   *)
(* listed.  worker/storage.py, worker/drive.py, the file tools of          *)
(* worker/agent_runner.py and the calls in main._process_one.              *)
(*                                                                         *)
(* A path is a directory, a base name and the -N's the code put after it.  *)
(* A job names a file by a string, with or without a leading "drive/" (a   *)
(* run sees the workspace's drive as drive/), by such a string in a list,  *)
(* or by {drive_path: ...}.                                                *)
(* A file's content is the run that wrote it and the number of its write.  *)
(* A run writes in its own folder and in the workspace's Work directories. *)
(* A run that dies is one that takes no more steps.                        *)
(***************************************************************************)
EXTENDS Integers, FiniteSets, Sequences, SequencesExt, FiniteSetsExt, Functions

CONSTANTS
    Runs,         \* attempts of jobs, each on one machine
    Machine,      \* [Runs -> machine]
    Base,         \* [Runs -> "<skill>/<first segment of the job id>"]
    Inputs,       \* [Runs -> values of the file inputs its schema declares]
    Uploads,      \* uploaded paths
    Stages,       \* runs of agents that do not resume from a checkpoint
    Spells,       \* [Runs -> the forms its results are spelled in]
    Writes,       \* [Runs -> how many files the run writes], a bound
    Values,       \* [Runs -> length of its deliverable], a bound
    MaxFaults,    \* transfers and moves that fail, a bound
    Work, Names,  \* directories outside run folders; base names
    NoRun, None

Machines == {Machine[r] : r \in Runs}
Path(dir, name) == [dir |-> dir, name |-> name, suffix |-> <<>>]
Root == <<>>                       \* the directory of a path with no "/"
Forms == {"string", "drive/", "list", "dict"}
Value(p, form) == [path |-> p, form |-> form]
Paths(vs) == {v.path : v \in vs}
Content(r, k) == [by |-> r, no |-> k]
EmptyFile == Content(NoRun, 0)

VARIABLES
    disk,         \* [Machines -> files on the local drive]
    folders,      \* [Machines -> run folders that exist]
    bucket,       \* the objects of the workspace
    memo,         \* [Machines -> what each path held when it was pushed]
    run,          \* [Runs -> the run's locals]
    faults
vars == <<disk, folders, bucket, memo, run, faults>>

ASSUME FileConstants ==
    /\ \A r \in Runs : Writes[r] \in Nat /\ Values[r] \in Nat
    /\ \A r \in Runs : Spells[r] \subseteq {"string", "drive/"}
    /\ \A r \in Runs : \A v \in Inputs[r] : v.form \in Forms
    /\ Stages \subseteq Runs /\ MaxFaults \in Nat /\ NoRun \notin Runs

\* The folders resolve_output_dir makes.  One is named after its job, which is
\* created after the uploads; and None is the absence of a folder or a file.
RunFolders == {Base[r] : r \in Runs} \X (0..Cardinality(Runs))

IsPath(p) == p = [dir |-> p.dir, name |-> p.name, suffix |-> p.suffix] /\ p.suffix \in Seq(Nat)

ASSUME PathConstants ==
    /\ \A r \in Runs : IsFiniteSet(Inputs[r]) /\ \A p \in Paths(Inputs[r]) : IsPath(p)
    /\ \A p \in Uploads : p.dir \notin RunFolders
    /\ RunFolders \cap (Work \cup {Root, None}) = {}
    /\ \A r \in Runs : \A k \in 1..Writes[r] : Content(r, k) # None
    /\ None \notin {EmptyFile, Content(NoRun, 1)}

Init ==
    /\ disk = [m \in Machines |-> <<>>]
    /\ folders = [m \in Machines |-> {}]
    /\ bucket \in [Uploads -> {EmptyFile, Content(NoRun, 1)}]
    /\ memo = [m \in Machines |-> <<>>]
    /\ run = [r \in Runs |->
                [pc |-> "inputs", out |-> None, wrote |-> {}, count |-> 0,
                 deliverable |-> <<>>, meant |-> <<>>, result |-> <<>>, i |-> 1,
                 moved |-> <<>>, used |-> {}, dst |-> None,
                 failed |-> {}, manifest |-> {}]]
    /\ faults = 0

Put(f, p, c) == [q \in DOMAIN f \cup {p} |-> IF q = p THEN c ELSE f[q]]
Drop(f, p) == [q \in DOMAIN f \ {p} |-> f[q]]
At(f, p) == IF p \in DOMAIN f THEN f[p] ELSE None

Fails(n) == faults + n <= MaxFaults /\ faults' = faults + n

\* ensure_local_drive_file: files on the machine after every path of ps it
\* lacks has been pulled.  An existing file is never refreshed.
PulledFrom(m, ps) ==
    LET new == {p \in ps : p \notin DOMAIN disk[m] /\ p \in DOMAIN bucket}
    IN  [q \in DOMAIN disk[m] \cup new |-> IF q \in new THEN bucket[q] ELSE disk[m][q]]

\* _ensure_local_object_uploaded: push what the machine has at each of ps,
\* unless it has pushed exactly that before.
NeedsPush(m, files, p) == p \in DOMAIN files /\ At(memo[m], p) # files[p]

Pushed(m, files, ps) ==
    LET new == {p \in ps : NeedsPush(m, files, p)}
        With(f) == [q \in DOMAIN f \cup new |-> IF q \in new THEN files[q] ELSE f[q]]
    IN  bucket' = With(bucket) /\ memo' = [memo EXCEPT ![m] = With(@)]

Push(r, files, p) ==
    \/ Pushed(Machine[r], files, {p}) /\ UNCHANGED faults
    \/ NeedsPush(Machine[r], files, p) /\ Fails(1) /\ UNCHANGED <<bucket, memo>>
-----------------------------------------------------------------------------
\* _candidate_drive_paths: a {drive_path: ...}, or a string with a "/" in a list; its
\* walk() passes over the strings that are fields.  One spelled drive/... is looked
\* for in a folder drive, and not found.
Candidates(vs) == Paths({v \in vs : v.form = "dict" \/ (v.form = "list" /\ v.path.dir # Root)})

\* ensure_input_files: every candidate is pulled; one that cannot be is
\* skipped.
EnsureInputs(r) ==
    /\ run[r].pc = "inputs"
    /\ \E ps \in SUBSET Candidates(Inputs[r]) :
          /\ Fails(Cardinality(Candidates(Inputs[r]) \ ps))
          /\ disk' = [disk EXCEPT ![Machine[r]] = PulledFrom(Machine[r], ps)]
    /\ run' = [run EXCEPT ![r].pc = "preflight"]
    /\ UNCHANGED <<folders, bucket, memo>>

\* validate_input_files: the bytes of every declared file input are read,
\* pulled on a miss; a miss is left to the run, an empty file fails the job.
ReadableAsSpelled(vs) == Paths({v \in vs : v.form # "drive/"})
ReadablePaths(vs) == Paths(vs)

Preflight(r) ==
    /\ run[r].pc = "preflight"
    /\ LET named == ReadablePaths(Inputs[r])
           missing == named \ DOMAIN disk[Machine[r]]
       IN  \E lost \in SUBSET missing :
              LET files == PulledFrom(Machine[r], named \ lost)
              IN  /\ Fails(Cardinality(lost))
                  /\ disk' = [disk EXCEPT ![Machine[r]] = files]
                  /\ run' = [run EXCEPT ![r].failed = lost,
                               ![r].pc = IF \E p \in named : At(files, p) = EmptyFile
                                         THEN "failed" ELSE "reserve"]
    /\ UNCHANGED <<folders, bucket, memo>>

\* resolve_output_dir: the first name that is free is taken; the event loop runs no
\* other run of the process between the test and the mkdir.
FreeUntested(m, base) == 0
Free(m, base) == CHOOSE k \in 0..Cardinality(Runs) :
    /\ <<base, k>> \notin folders[m]
    /\ \A j \in 0..(k - 1) : <<base, j>> \in folders[m]

Reserve(r) ==
    /\ run[r].pc = "reserve"
    /\ LET dir == <<Base[r], Free(Machine[r], Base[r])>>
       IN  /\ folders' = [folders EXCEPT ![Machine[r]] = @ \cup {dir}]
           /\ run' = [run EXCEPT ![r].out = dir,
                                 ![r].pc = IF r \in Stages THEN "stage" ELSE "work"]
    /\ UNCHANGED <<disk, bucket, memo, faults>>

\* _stage_file_inputs: the agent is given a signed URL of each file input,
\* pulled on a miss and pushed first.  One that cannot be fails the job, with those
\* before it staged.
Stage(r) ==
    /\ run[r].pc = "stage"
    /\ LET named == Paths(Inputs[r])
           files == PulledFrom(Machine[r], named)
       IN  \/ /\ named \subseteq DOMAIN files
              /\ disk' = [disk EXCEPT ![Machine[r]] = files]
              /\ Pushed(Machine[r], files, named)
              /\ run' = [run EXCEPT ![r].pc = "work"]
              /\ UNCHANGED faults
           \/ /\ IF named \subseteq DOMAIN files THEN Fails(1) ELSE UNCHANGED faults
              /\ \E pulled \in SUBSET named, staged \in (SUBSET named) \ {named} :
                    LET some == PulledFrom(Machine[r], pulled)
                    IN  /\ staged \subseteq DOMAIN some
                        /\ disk' = [disk EXCEPT ![Machine[r]] = some]
                        /\ Pushed(Machine[r], some, staged)
              /\ run' = [run EXCEPT ![r].pc = "failed"]
    /\ UNCHANGED folders
-----------------------------------------------------------------------------
\* A tool writes p on a machine that has files.
Wrote(r, p, files) ==
    /\ disk' = [disk EXCEPT ![Machine[r]] = Put(files, p, Content(r, run[r].count + 1))]
    /\ run' = [run EXCEPT ![r].wrote = @ \cup {p}, ![r].count = @ + 1]

\* file_write, download_url or an offloaded result: the file is pushed at once.
WriteFile(r) ==
    /\ run[r].pc = "work" /\ run[r].count < Writes[r]
    /\ \E dir \in Work \cup {run[r].out}, name \in Names :
          /\ Wrote(r, Path(dir, name), disk[Machine[r]])
          /\ Push(r, disk'[Machine[r]], Path(dir, name))
    /\ UNCHANGED folders

\* bash and python write in the drive behind the platform's back.
RunCode(r) ==
    /\ run[r].pc = "work" /\ run[r].count < Writes[r]
    /\ \E dir \in Work \cup {run[r].out}, name \in Names :
          Wrote(r, Path(dir, name), disk[Machine[r]])
    /\ UNCHANGED <<folders, bucket, memo, faults>>

\* A generate verb pushes the files it refers to, by candidate paths, and lands its
\* output, as a rule, in the run's folder.
Generate(r) ==
    /\ run[r].pc = "work" /\ run[r].count < Writes[r]
    /\ \E name \in Names, refs \in SUBSET (run[r].wrote \cup Paths(Inputs[r])) :
          LET p == Path(run[r].out, name)
          IN  /\ refs # {}
              /\ Wrote(r, p, disk[Machine[r]])
              /\ \E unpushed \in SUBSET (refs \cup {p}) :
                    /\ Fails(Cardinality(unpushed))
                    /\ Pushed(Machine[r], disk'[Machine[r]], (refs \cup {p}) \ unpushed)
    /\ UNCHANGED folders

\* _run_file_edit: read through the bucket on a local miss, write back, push.
EditFile(r) ==
    /\ run[r].pc = "work" /\ run[r].count < Writes[r]
    /\ \E p \in run[r].wrote \cup Paths(Inputs[r]) :
          LET files == PulledFrom(Machine[r], {p})
          IN  /\ p \in DOMAIN files
              /\ Wrote(r, p, files)
              /\ Push(r, disk'[Machine[r]], p)
    /\ UNCHANGED folders

\* A file is handed to something outside the process (drive_pull,
\* drive_url, a subagent's input): it is pulled if missing and pushed if new.
HandOver(r) ==
    /\ run[r].pc = "work"
    /\ \E p \in run[r].wrote \cup Paths(Inputs[r]) :
          LET files == PulledFrom(Machine[r], {p})
          IN  /\ p \in DOMAIN files
              /\ disk' = [disk EXCEPT ![Machine[r]] = files]
              /\ Push(r, files, p)
    /\ UNCHANGED <<folders, run>>

\* The skill records its output: files it wrote, inputs it echoes, results of
\* runs that are done (its subagents').
Results == UNION {ToSet(run[q].result) : q \in {q \in Runs : run[q].pc = "done"}}

Deliverables(r) ==
    SeqOf([path : run[r].wrote \cup Paths(Inputs[r]), form : Spells[r]] \cup Results,
          Values[r]) \ {<<>>}

Holds(r, p) == LET here == At(disk[Machine[r]], p)
               IN  IF here # None THEN here ELSE At(bucket, p)

SetOutput(r) ==
    /\ run[r].pc = "work"
    /\ \E d \in Deliverables(r) :
          run' = [run EXCEPT ![r].pc = "aim", ![r].deliverable = d, ![r].result = d,
                             ![r].meant = [j \in DOMAIN d |-> Holds(r, d[j].path)]]
    /\ UNCHANGED <<disk, folders, bucket, memo, faults>>
-----------------------------------------------------------------------------
\* relocate_outputs_to_run_dir, one value at a time: where its file will go.
ValueAt(r) == run[r].result[run[r].i]

Renamed(r, p, k) ==
    [p EXCEPT !.dir = run[r].out, !.suffix = IF k = 0 THEN @ ELSE Append(@, k)]

DestUnused(r, files, p) ==
    Renamed(r, p, CHOOSE k \in 0..Values[r] :
        /\ Renamed(r, p, k) \notin run[r].used
        /\ \A j \in 0..(k - 1) : Renamed(r, p, j) \in run[r].used)

\* _dest_rel: the first of name, name-1, ... neither promised to another
\* value nor on the disk.
Dest(r, files, p) ==
    LET taken == run[r].used \cup DOMAIN files
    IN  Renamed(r, p, CHOOSE k \in 0..Cardinality(taken) :
            /\ Renamed(r, p, k) \notin taken
            /\ \A j \in 0..(k - 1) : Renamed(r, p, j) \in taken)

\* A value with no "/", or in the run folder, is left alone; one spelled
\* drive/... never counts as in the run folder.
LeftAlone(r, v) == v.form = "string" /\ v.path.dir \in {Root, run[r].out}
Known(r, v) == v.form = "string" /\ v.path \in DOMAIN run[r].moved

Aim(r) ==
    /\ run[r].pc = "aim" /\ run[r].i <= Len(run[r].result)
    /\ LET v == ValueAt(r)
           passed == [run EXCEPT ![r].i = @ + 1]
       IN  IF LeftAlone(r, v) \/ Known(r, v)
           THEN /\ run' = IF Known(r, v)
                          THEN [passed EXCEPT ![r].result[run[r].i].path = run[r].moved[v.path]]
                          ELSE passed
                /\ UNCHANGED <<disk, faults>>
           ELSE \E ps \in SUBSET {v.path} :
                  LET files == PulledFrom(Machine[r], ps)
                      dst == Dest(r, files, v.path)
                  IN  /\ Fails(1 - Cardinality(ps))
                      /\ disk' = [disk EXCEPT ![Machine[r]] = files]
                      /\ run' = IF v.path \in DOMAIN files
                                THEN [run EXCEPT ![r].used = @ \cup {dst}, ![r].dst = dst,
                                                 ![r].pc = "move"]
                                ELSE passed
    /\ UNCHANGED <<folders, bucket, memo>>

\* shutil.move: replaces whatever is at the destination by then.  The value
\* stays as it was when the move fails, its file has gone, or it is spelled
\* drive/...: the file is looked for in a folder drive.
Move(r) ==
    LET v == ValueAt(r)
        files == disk[Machine[r]]
        found == v.form = "string" /\ v.path \in DOMAIN files
        next == [run EXCEPT ![r].pc = "aim", ![r].i = @ + 1, ![r].dst = None]
    IN  /\ run[r].pc = "move"
        /\ \/ /\ found
              /\ disk' = [disk EXCEPT ![Machine[r]] =
                            Put(Drop(files, v.path), run[r].dst, files[v.path])]
              /\ run' = [next EXCEPT ![r].moved = Put(@, v.path, run[r].dst),
                                     ![r].result[run[r].i].path = run[r].dst]
              /\ UNCHANGED faults
           \/ /\ found /\ Fails(1)
              /\ run' = [next EXCEPT ![r].failed = @ \cup {v.path}]
              /\ UNCHANGED disk
           \/ ~found /\ run' = next /\ UNCHANGED <<disk, faults>>
        /\ UNCHANGED <<folders, bucket, memo>>

\* _output_drive_paths: a string with a "/".
IsDrivePath(v) == v.form = "drive/" \/ v.path.dir # Root

StartSync(r) ==
    /\ run[r].pc = "aim" /\ run[r].i > Len(run[r].result)
    /\ run' = [run EXCEPT ![r].pc = "sync", ![r].i = 1]
    /\ UNCHANGED <<disk, folders, bucket, memo, faults>>

\* sync_output_files: push every file of the rewritten result, best effort; a
\* leading drive/ is dropped.  It is given run_agent's whole result, the output and a
\* number of steps.
SyncOne(r) ==
    /\ run[r].pc = "sync" /\ run[r].i <= Len(run[r].result)
    /\ LET v == ValueAt(r)
       IN  /\ IF IsDrivePath(v) THEN Push(r, disk[Machine[r]], v.path)
                                ELSE UNCHANGED <<bucket, memo, faults>>
           /\ run' = [run EXCEPT ![r].i = @ + 1,
                         ![r].failed = IF faults' > faults THEN @ \cup {v.path} ELSE @]
    /\ UNCHANGED <<disk, folders>>

\* build_output_manifest: the result's files, pulled on a miss, each once.
\* One spelled drive/... is pulled without the drive/, then looked for with
\* it, and left out.
List(r) ==
    /\ run[r].pc = "sync" /\ run[r].i > Len(run[r].result)
    /\ LET named == Paths({v \in ToSet(run[r].result) : IsDrivePath(v)})
           missing == named \ DOMAIN disk[Machine[r]]
           shown == Paths({v \in ToSet(run[r].result) : IsDrivePath(v) /\ v.form = "string"})
       IN  \E lost \in SUBSET missing :
              LET files == PulledFrom(Machine[r], named \ lost)
              IN  /\ Fails(Cardinality(lost))
                  /\ disk' = [disk EXCEPT ![Machine[r]] = files]
                  /\ run' = [run EXCEPT ![r].pc = "done", ![r].i = 1,
                                ![r].moved = <<>>, ![r].used = {},
                                ![r].manifest = shown \cap DOMAIN files,
                                ![r].failed = @ \cup lost]
    /\ UNCHANGED <<folders, bucket, memo>>

Next == \E r \in Runs :
    \/ EnsureInputs(r) \/ Preflight(r) \/ Reserve(r) \/ Stage(r)
    \/ WriteFile(r) \/ RunCode(r) \/ Generate(r) \/ EditFile(r) \/ HandOver(r) \/ SetOutput(r)
    \/ Aim(r) \/ Move(r) \/ StartSync(r) \/ SyncOne(r) \/ List(r)

Spec == Init /\ [][Next]_vars
-----------------------------------------------------------------------------
Touched(q) == run[q].wrote \cup Paths(ToSet(run[q].deliverable) \cup ToSet(run[q].result))

\* A run that is working has every file input it declares on its disk, and
\* none was uploaded empty, however the input is spelled (main.py:323,
\* agent_runner.py:1808, 2030).  Excused: an input the preflight could not
\* pull, which may then be missing in a run that does not stage its inputs,
\* or empty; one that another run of the machine delivered, which moves it.
InputsThere ==
    \A r \in Runs : run[r].pc = "work" =>
        \A p \in Paths(Inputs[r]) \cap Uploads :
            \/ \E q \in Runs \ {r} : Machine[q] = Machine[r] /\ p \in Touched(q)
            \/ /\ p \in DOMAIN disk[Machine[r]] \/ (p \in run[r].failed /\ r \notin Stages)
               /\ At(disk[Machine[r]], p) # EmptyFile \/ p \in run[r].failed

\* No two runs of a machine ever file into one folder, whatever each has gone
\* through since: "we reserve the next free" name "instead of commingling two runs"
\* (drive.py:57).  So a retry of a job, whose id names the same folder, never files
\* into the folder of the attempt before it, which may still be writing there.
OwnFolder ==
    \A r, q \in Runs :
        r # q /\ Machine[r] = Machine[q] /\ run[r].out # None => run[r].out # run[q].out

\* Every file a run that is done handed over is served as it was handed over:
\* the bucket holds that content under the path the result now gives, for ever
\* after, and the path is listed unless it is spelled drive/... (storage.py:270,
\* 340).  Excused: a push, pull or move of it that failed; a source some other
\* run wrote or delivered too; a place another run is given as an input, if that
\* run changes or delivers the file, or had pulled it before this run wrote it and
\* pushes its stale copy; a file of the drive's root; one the result names both
\* with drive/ and without; a folder two runs on two machines share, which do not see
\* each other's.
SharesFolder(r) == \E q \in Runs : Machine[q] # Machine[r] /\ run[q].out = run[r].out

Excused(r, j) ==
    LET source == run[r].deliverable[j].path
    IN  \/ SharesFolder(r) \/ run[r].meant[j] = None
        \/ {source, run[r].result[j].path} \cap run[r].failed # {}
        \/ source.dir = Root
        \/ \E v \in ToSet(run[r].deliverable) :
              v.path = source /\ v.form # run[r].deliverable[j].form
        \/ \E q \in Runs \ {r} :
              \/ source \in Touched(q)
              \/ run[r].result[j].path \in Paths(Inputs[q]) \cap (run[r].wrote \cup Touched(q))

EveryOutputServed ==
    \A r \in Runs : run[r].pc = "done" =>
        \A j \in DOMAIN run[r].result :
            LET v == run[r].result[j]
            IN  \/ Excused(r, j)
                \/ /\ At(bucket, v.path) = run[r].meant[j]
                   /\ v.form = "string" => v.path \in run[r].manifest

\* The manifest does not silently drop a real deliverable (storage.py:366),
\* however the skill spells it.
EveryOutputListed ==
    \A r \in Runs : run[r].pc = "done" =>
        \A j \in DOMAIN run[r].result :
            Excused(r, j) \/ run[r].result[j].path \in run[r].manifest

\* What a run serves from its own folder is write-once (storage.py:46), and is cached
\* for an hour as such: nobody replaces it once the run is done.
OutputsAreWriteOnce ==
    [][\A r \in Runs : run[r].pc = "done" /\ ~ SharesFolder(r) =>
          \A p \in Paths(ToSet(run[r].result)) \cap DOMAIN bucket :
              p.dir = run[r].out => bucket'[p] = bucket[p]]_vars
=============================================================================
