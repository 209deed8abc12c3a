------------------------------- MODULE Recall -------------------------------
(***************************************************************************)
(* A workspace's memory over successive jobs: a job stores a record about  *)
(* its subject under the identity it was handed, records grow stale and    *)
(* old, a later job is given what is about its own subject, an agent       *)
(* searches (run_agent's injection and the memory tools, agent_runner.py;  *)
(* the stores; memory.py).                                                 *)
(***************************************************************************)
EXTENDS MemorySearch, MemoryDigest

CONSTANTS
    JobInputs,      \* bound: the inputs jobs come with
    Styles,         \* bound: what a record may be besides its subject
    Queries,        \* bound: what an agent may search for
    MaxRows         \* bound: the rows of the table

ASSUME TableBound ==    \* no arm of a search is cut, at 50, nor a table, at 2000
    /\ MaxRows \in 0 .. 50 /\ PinnedLimit \in Nat /\ EntityLimit \in Nat /\ UrlCap \in Nat
    /\ Over \in Nat \ {0} /\ \A rank \in 1 .. MaxRows : Over % (60 + rank) = 0

IsList(s) == s \in Seq(ToSet(s))

ASSUME InputsAssumption ==
    \A inputs \in JobInputs :
        /\ IsList(inputs)
        /\ \A i \in DOMAIN inputs : inputs[i].is \in {"files", "text"} => IsList(inputs[i].of)

ASSUME StylesAssumption ==
    \A style \in Styles :
        /\ style.mtype \in {"semantic", "episodic", "procedural"}
        /\ style.weight \in Nat /\ style.pinned \in BOOLEAN
        /\ {style.line, style.head, style.record, style.pointer} \subseteq Nat

ASSUME QueriesAssumption ==
    \A query \in Queries : IsFiniteSet(query.words) /\ query.limit \in Int

VARIABLES
    table,      \* rows of workspace_memory that are not deleted
    asked       \* what was asked of it last: a job's start, a search or nothing

recallVars == <<table, asked>>

\* What a job of each inputs is known by.
Identity == [inputs \in JobInputs |-> derive_identity(inputs)]

Nothing == [by |-> "nobody"]

RecallInit == table = <<>> /\ asked = Nothing

\* The record of a job that keys it as its first turn told it to.
Stored(inputs, style) ==
    [key |-> Identity[inputs].primary, aliases |-> {},
     hash |-> Identity[inputs].fingerprint,
     fresh |-> TRUE, aged |-> FALSE, from |-> inputs,
     mtype |-> style.mtype, weight |-> style.weight, pinned |-> style.pinned,
     words |-> style.words, tags |-> style.tags, line |-> style.line,
     head |-> style.head, record |-> style.record, pointer |-> style.pointer]

SameKey(row, new) ==
    /\ row.key # NoKey /\ row.key = new.key
    /\ row.mtype \in {"semantic", "procedural"} /\ new.mtype \in {"semantic", "procedural"}

memory_put(inputs, style) ==
    LET new == Stored(inputs, style)
        others == Selected(table, {i \in DOMAIN table : ~SameKey(table[i], new)})
    IN  /\ Len(others) < MaxRows
        /\ table' = Append(others, new)
        /\ asked' = Nothing

\* stale_at passes; the recency of a row decays to its floor.
Expire(i) == table[i].fresh /\ table' = [table EXCEPT ![i].fresh = FALSE] /\ asked' = Nothing
Fade(i) == ~table[i].aged /\ table' = [table EXCEPT ![i].aged = TRUE] /\ asked' = Nothing

\* The injection at a job's start; the rows given to it count as used just now.
memory_context(inputs) ==
    LET given == ToSet(Entity(table, Identity[inputs]))
    IN  /\ table' = [i \in DOMAIN table |->
                        IF i \in given THEN [table[i] EXCEPT !.aged = FALSE] ELSE table[i]]
        /\ asked' = [by |-> "job", inputs |-> inputs]

memory_search(query) ==
    asked' = [by |-> "agent", query |-> query] /\ UNCHANGED table

RecallNext ==
    \/ \E inputs \in JobInputs, style \in Styles : memory_put(inputs, style)
    \/ \E i \in DOMAIN table : Expire(i) \/ Fade(i)
    \/ \E inputs \in JobInputs : memory_context(inputs)
    \/ \E query \in Queries : memory_search(query)

RecallSpec == RecallInit /\ [][RecallNext]_recallVars

-----------------------------------------------------------------------------
(* Two jobs are about the same subject, said of their inputs alone.        *)

PagesOf(value) ==
    CASE value.is = "url" -> <<value.of>> [] value.is = "text" -> Extracted(value.of)
      [] OTHER -> <<>>

FilesIn(inputs) == FlattenSeq([i \in DOMAIN inputs |-> FilesOf(inputs[i])])

PagesIn(inputs) == FlattenSeq([i \in DOMAIN inputs |-> PagesOf(inputs[i])])

SamePage(u, v) ==
    /\ u.host = v.host /\ u.query = v.query
    /\ u.scheme = v.scheme

\* The later job has the first's strongest key: its first image or else its first page.
SameSubject(first, later) ==
    \/ first = later
    \/ FilesIn(first) # <<>> /\ Contains(FilesIn(later), Head(FilesIn(first)))
    \/ /\ FilesIn(first) = <<>> /\ PagesIn(first) # <<>>
       /\ \E i \in DOMAIN PagesIn(later) : SamePage(Head(PagesIn(first)), PagesIn(later)[i])

-----------------------------------------------------------------------------
(* Properties.                                                             *)

\* derive_identity, memory_put and memory_context together: a job finds the fresh
\* brief an earlier job stored about the same subject, however its URL was written
\* and wherever it stood, unless it is given EntityLimit others about it.
RecallsPriorWork ==
    asked.by = "job" =>
        \A i \in DOMAIN table :
            table[i].mtype # "procedural" /\ table[i].fresh
                /\ SameSubject(table[i].from, asked.inputs) =>
            LET given == Entity(table, Identity[asked.inputs])
            IN  Contains(given, i) \/ Len(given) = EntityLimit

RowsAt(positions) == [k \in DOMAIN positions |-> table[positions[k]]]

\* The memory block of a first turn stays within its budget whatever the records
\* hold: headers, glue, truncation notes and pointers are paid for.
DigestFits ==
    asked.by = "job" =>
        LET identity == Identity[asked.inputs]
            section == 400 + 80 * Cardinality(identity.keys)
        IN  Room(section) >= 0 =>
                format_memory_digest(RowsAt(Pinned(table)), RowsAt(Entity(table, identity)), section)
                    <= Budget

\* What Postgres may answer, whichever ranks it gives to the rows its words find.
HostedAnswers(query) ==
    {hosted_search(table, query, ts_rank) :
        ts_rank \in [HostedLexical(table, query) -> 1 .. MaxRows]}

\* The 28th exact match weighs less than the first that only words find: 10/88 < 7/61.
FewMatches == Cardinality(Exact(table, asked.query)) =< 27

\* SIGNAL_WEIGHTS says that exact identity matches dominate, and they do while they
\* are few: in the answer of either store, a row that only words found has before it
\* every row alike in age, importance and pin that is the subject, none of them cut
\* off by the limit.
IdentityDominates ==
    asked.by = "agent" /\ FewMatches =>
        \A given \in {local_search(table, asked.query)} \cup HostedAnswers(asked.query) :
        \A i \in Exact(table, asked.query), q \in DOMAIN given :
            /\ given[q] \notin Exact(table, asked.query)
            /\ Shape(table[i]) = Shape(table[given[q]])
            => \E p \in 1 .. q - 1 : given[p] = i

\* The offline store mirrors the hosted one: what a plain-word search returns on
\* Postgres (without vectors) it returns in SQLite, unless the rows that only some
\* of the words find have filled the answer up to the limit.
HostedFoundLocally ==
    asked.by = "agent" =>
        LET local == local_search(table, asked.query)
        IN  \A hosted \in HostedAnswers(asked.query) : \A q \in DOMAIN hosted :
                Contains(local, hosted[q]) \/ Len(local) = Limit(asked.query)
=============================================================================
