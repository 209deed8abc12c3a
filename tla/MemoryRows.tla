----------------------------- MODULE MemoryRows -----------------------------
(***************************************************************************)
(* The rows of workspace_memory and what one statement does to a row       *)
(* (worker/memory_store.py, worker/memory_store_sqlite.py).                *)
(*                                                                         *)
(* The unique index on (workspace_id, kind, entity_key) gives a keyed      *)
(* record one row for ever, deleted or not, so its key stands for its id.  *)
(* A keyless or episodic record has an id of its own.  `summary` stands    *)
(* for every column an upsert keeps when the new value is omitted (title,  *)
(* summary, aliases, tags, source_url, importance), `record` for those it  *)
(* always replaces.                                                        *)
(***************************************************************************)
EXTENDS Naturals, FiniteSets

CONSTANTS
    Keys,       \* (kind, entity_key) of the keyed records
    Episodes,   \* ids of keyless and episodic records
    Values,     \* what a column may hold
    None        \* SQL null, an omitted argument

Ids == Keys \cup Episodes

Row == [live : BOOLEAN, sup : Ids \cup {None}, summary : Values \cup {None},
        record : Values, version : Nat \ {0}, hits : Nat]

IsTable(t) == DOMAIN t \subseteq Ids /\ \A id \in DOMAIN t : t[id] \in Row

Put == [id : Ids, record : Values, summary : Values \cup {None},
        old : Ids \cup {None}]

\* Ids, values, rows, puts and nulls are told apart.
ASSUME RowsAssumption ==
    /\ Keys \cap Episodes = {}
    /\ None \notin Keys \cup Episodes \cup Values
    /\ None \notin Row /\ None \notin Put
    /\ \A id \in Keys \cup Episodes : id \notin Put

Inserted(put) ==
    [live |-> TRUE, sup |-> None, summary |-> put.summary, record |-> put.record,
     version |-> 1, hits |-> 0]

\* Mutant: a re-put revives the row and leaves its pointer.
RevisedPointing(row, put) ==
    [row EXCEPT !.live = TRUE, !.record = put.record,
                !.summary = IF put.summary = None THEN @ ELSE put.summary,
                !.version = @ + 1]

\* What an upsert makes of the row it found: alive again, superseded by nobody.
Revised(row, put) ==
    [row EXCEPT !.live = TRUE, !.sup = None, !.record = put.record,
                !.summary = IF put.summary = None THEN @ ELSE put.summary,
                !.version = @ + 1]

\* The row of put.id after an upsert.
Upserted(table, put) ==
    IF put.id \in DOMAIN table THEN Revised(table[put.id], put) ELSE Inserted(put)

Superseded(row, new) == [row EXCEPT !.live = FALSE, !.sup = new]

Forgotten(row) == [row EXCEPT !.live = FALSE]

Bumped(row) == [row EXCEPT !.hits = @ + 1]

\* The table once `row` is written.
With(table, id, row) ==
    [i \in DOMAIN table \cup {id} |-> IF i = id THEN row ELSE table[i]]

\* Whether the statement that supersedes `put.old` finds a row to update.
Supersedes(table, put) ==
    put.old \in DOMAIN table \ {put.id} /\ table[put.old].live
=============================================================================
