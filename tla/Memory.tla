------------------------------- MODULE Memory -------------------------------
(***************************************************************************)
(* What the workspace memory promises its agents: every operation takes    *)
(* place at once on the table as it is at that moment.  A put inserts the  *)
(* record or bumps its version by one and keeps what it omits; it may      *)
(* supersede one other record in the same step.                            *)
(***************************************************************************)
EXTENDS MemoryRows

VARIABLE rows

MemoryInit == rows = <<>>

PutOnly(put) == With(rows, put.id, Upserted(rows, put))

DoPut(put) ==
    /\ put.id \in Episodes => put.id \notin DOMAIN rows
    /\ \/ rows' = PutOnly(put)
       \/ /\ Supersedes(rows, put)
          /\ rows' = With(PutOnly(put), put.old, Superseded(rows[put.old], put.id))

DoForget(id) ==
    /\ id \in DOMAIN rows /\ rows[id].live
    /\ rows' = [rows EXCEPT ![id] = Forgotten(@)]

DoUse(found) ==
    rows' = [id \in DOMAIN rows |->
                IF id \in found THEN Bumped(rows[id]) ELSE rows[id]]

MemoryNext ==
    \/ \E put \in Put : DoPut(put)
    \/ \E id \in Ids : DoForget(id)
    \/ \E found \in SUBSET DOMAIN rows : DoUse(found)

MemorySpec == MemoryInit /\ [][MemoryNext]_rows
=============================================================================
