---------------------------- MODULE MemoryDigest ----------------------------
(***************************************************************************)
(* How long the memory block of a job's first turn is:                     *)
(* format_memory_digest (worker/memory.py).  A row is the lengths of what  *)
(* it renders to: its line when pinned, the head, the record and the       *)
(* one-line pointer of its block.                                          *)
(***************************************************************************)
EXTENDS Integers, Sequences, SequencesExt

CONSTANTS
    Budget,         \* DIGEST_CHAR_BUDGET
    RecordCap,      \* RECORD_CHAR_CAP
    Caution         \* length of the caution

ASSUME DigestAssumption == Budget \in Nat /\ RecordCap \in Nat /\ Caution \in Nat

PinnedHeader == 52      \* "## Workspace preferences ..." and its newline
EntityHeader == 303     \* "## Relevant memory ..." and the blank line
Truncated == 53         \* "...(truncated; memory_get this id ...)"
Floor == 400

\* Mutant: nothing is set aside for the headers and the blank lines.
RoomTight(identity) == Budget - identity - Caution

\* What is left for the rows once the identity section is paid for.
Room(identity) == Budget - identity - Caution - 64

Block(row, cap) == row.head + (IF row.record > cap THEN cap + Truncated ELSE row.record)

\* The block that goes in: whole, shrunk to what fits, or a pointer.
Fitted(row, room) ==
    LET whole == Block(row, RecordCap)
        shrunk == IF room > Floor
                  THEN Block(row, IF room - 400 > Floor THEN room - 400 ELSE Floor)
                  ELSE whole
    IN  IF whole <= room THEN whole ELSE IF shrunk <= room THEN shrunk ELSE row.pointer

Glue(section) == IF section = "pinned" THEN 1 ELSE 2

Length(section, row, room) == IF section = "pinned" THEN row.line ELSE Fitted(row, room)

\* One more row, unless one has not fitted.
Take(section, t, row) ==
    LET length == Length(section, row, t.room)
    IN  IF t.full \/ length > t.room THEN [t EXCEPT !.full = TRUE]
        ELSE [room |-> t.room - length - Glue(section),
              length |-> t.length + length + (IF t.count = 0 THEN 0 ELSE Glue(section)),
              count |-> t.count + 1,
              full |-> FALSE]

\* Rows taken in order until the first that does not fit.
Taken(section, rows, room) ==
    FoldLeft(LAMBDA t, row : Take(section, t, row),
             [room |-> room, length |-> 0, count |-> 0, full |-> FALSE], rows)

TakenPinned(pinned, identity) ==
    Taken("pinned", pinned, Room(identity))

TakenEntity(pinned, entity, identity) ==
    Taken("entity", entity, TakenPinned(pinned, identity).room - EntityHeader)

\* The length of the whole block: its sections, a blank line between them.
format_memory_digest(pinned, entity, identity) ==
    LET p == TakenPinned(pinned, identity)
        e == TakenEntity(pinned, entity, identity)
    IN  (IF p.count > 0 THEN PinnedHeader + p.length + 2 ELSE 0)
        + (IF e.count > 0 THEN EntityHeader + e.length + 2 ELSE 0)
        + identity + 2 + Caution
=============================================================================
