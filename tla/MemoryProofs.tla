---------------------------- MODULE MemoryProofs ----------------------------
(***************************************************************************)
(* For any number of sessions, calls, records and values, over either      *)
(* store and under any failing statement or crash: the chains of           *)
(* superseded records end, a version counts the acknowledged puts, and     *)
(* every change of the table is one step of Memory.  For any inputs,       *)
(* records and queries of Recall: what a job finds, how long the block it  *)
(* is given may be, what a search finds and in which order.                *)
(*                                                                         *)
(* The count and the steps rest on what a session may still believe of the *)
(* table when it writes: hosted, that the rows it has written are locked   *)
(* until its commit (HostedInv); local, that nobody of its store has come  *)
(* between its SELECT and its UPDATE (LocalInv).  Recall rests on what a   *)
(* row is: what a put stored (RecallInv).                                  *)
(***************************************************************************)
EXTENDS WorkspaceMemory, Recall, FiniteSetTheorems, SequenceTheorems,
        WellFoundedInduction, TLAPS

Places == {"idle", "put", "supersede", "get", "forget", "context", "bump", "finish",
           "decide", "touch", "aborted", "broken", "gone"}

\* Types of a session.
SessionTypes(s) ==
    /\ pc[s] \in Places /\ call[s] \in Puts \cup Ids \cup {None}
    /\ left[s] \in 0 .. MaxCalls /\ IsTable(pend[s])
    /\ pc[s] \in {"put", "supersede", "decide"} => call[s] \in Put
    /\ pc[s] \in {"get", "forget"} => call[s] \in Ids
    /\ pc[s] \in {"context", "bump", "touch", "aborted", "broken"} => call[s] = None

Functions ==
    /\ pc \in [Sessions -> Places]
    /\ call \in [Sessions -> Puts \cup Ids \cup {None}]
    /\ left \in [Sessions -> 0 .. MaxCalls]
    /\ DOMAIN pend = Sessions /\ DOMAIN todo = Sessions /\ DOMAIN found = Sessions

Types ==
    /\ IsTable(rows) /\ IsFiniteSet(DOMAIN rows) /\ acked \in [Ids -> Nat]
    /\ backend \in {"hosted", "local"}
    /\ Functions
    /\ \A s \in Sessions : SessionTypes(s)

\* The upsert of a put is written, and its supersede if it found a row.
PutDone(s) ==
    /\ pend[s][call[s].id] = Upserted(rows, call[s])
    /\ \/ DOMAIN pend[s] = {call[s].id}
       \/ /\ DOMAIN pend[s] = {call[s].id, call[s].old}
          /\ Supersedes(rows, call[s])
          /\ pend[s][call[s].old] = Superseded(rows[call[s].old], call[s].id)

\* A get or a forget has written its row, if there is one.
IdDone(s) ==
    \/ DOMAIN pend[s] = {}
    \/ /\ DOMAIN pend[s] = {call[s]} /\ call[s] \in DOMAIN rows
       /\ \/ pend[s][call[s]] = Bumped(rows[call[s]])
          \/ rows[call[s]].live /\ pend[s][call[s]] = Forgotten(rows[call[s]])

\* A memory_context has bumped some of its rows.
UseDone(s) ==
    \A id \in DOMAIN pend[s] : id \in DOMAIN rows /\ pend[s][id] = Bumped(rows[id])

\* What a hosted session has written is still what its statements make of the rows.
HostedOwn(s) ==
    /\ pc[s] \notin {"decide", "touch"}
    /\ pc[s] \notin {"supersede", "bump", "finish"} => DOMAIN pend[s] = {}
    /\ pc[s] = "supersede" => DOMAIN pend[s] = {call[s].id} /\ PutDone(s)
    /\ pc[s] = "bump" => /\ todo[s] # <<>> /\ todo[s] \in Seq(DOMAIN rows)
                         /\ UseDone(s)
    /\ pc[s] = "finish" => /\ call[s] \in Put => PutDone(s)
                           /\ call[s] \in Ids => IdDone(s)
                           /\ call[s] = None => UseDone(s)

\* No row is locked twice.
Locks ==
    \A s, t \in Sessions : s # t => DOMAIN pend[s] \cap DOMAIN pend[t] = {}

HostedInv == backend = "hosted" => Locks /\ \A s \in Sessions : HostedOwn(s)

\* What a local session has found: a row or none, and with one connection the one
\* that is there.
LocalOwn(s) ==
    /\ pc[s] \in {"idle", "put", "get", "forget", "context", "decide", "touch"}
    /\ pc[s] = "decide" => /\ found[s] \in Row \cup {None}
                           /\ found[s] # None => call[s].id \in DOMAIN rows
    /\ OneConnection /\ pc[s] = "decide" =>
           found[s] = IF call[s].id \in DOMAIN rows THEN rows[call[s].id] ELSE None

\* One connection serves one call.
Served ==
    OneConnection =>
        \A s, t \in Sessions : s # t => ~({pc[s], pc[t]} \subseteq {"decide", "touch"})

LocalInv == backend = "local" => Served /\ \A s \in Sessions : LocalOwn(s)

\* An episode's id is in one call, and not in the table before it ends.
Minted ==
    /\ \A s, t \in Sessions :
           s # t /\ call[s] \in Put /\ call[t] \in Put /\ call[s].id = call[t].id
               => call[s].id \notin Episodes
    /\ \A s \in Sessions :
           call[s] \in Put /\ call[s].id \in Episodes => call[s].id \notin DOMAIN rows

IInv == Types /\ HostedInv /\ LocalInv /\ Minted

-----------------------------------------------------------------------------
(* Rows and tables.                                                        *)

\* A put is a put, and nothing else is.
LEMMA PutFacts ==
    /\ \A put \in Put : /\ put.id \in Ids /\ put.old \in Ids \cup {None}
                        /\ put.summary \in Values \cup {None} /\ put.record \in Values
                        /\ put \notin Ids /\ put # None
    /\ None \notin Ids /\ None \notin Row /\ Puts \subseteq Put
<1>1. \A put \in Put : /\ put.id \in Ids /\ put.old \in Ids \cup {None}
                       /\ put.summary \in Values \cup {None} /\ put.record \in Values
  BY DEF Put
<1>2. \A put \in Put : put \notin Ids /\ put # None BY RowsAssumption DEF Ids
<1> QED BY <1>1, <1>2, RowsAssumption, CallsAssumption DEF Ids

\* A row of a table is a row.
LEMMA RowFacts ==
    ASSUME NEW row \in Row
    PROVE  /\ row.live \in BOOLEAN /\ row.sup \in Ids \cup {None}
           /\ row.summary \in Values \cup {None} /\ row.record \in Values
           /\ row.version \in Nat /\ row.version # 0 /\ row.hits \in Nat /\ row # None
BY RowsAssumption DEF Row

\* What the statements make of a row.
LEMMA InsertedRow ==
    ASSUME NEW put \in Put
    PROVE  /\ Inserted(put) \in Row /\ Inserted(put).sup = None
           /\ Inserted(put).version = 1 /\ Inserted(put).live
BY PutFacts DEF Inserted, Row

\* An upsert of a row that is there.
LEMMA RevisedRow ==
    ASSUME NEW row \in Row, NEW put \in Put
    PROVE  /\ Revised(row, put) \in Row /\ Revised(row, put).sup = None
           /\ Revised(row, put).version = row.version + 1 /\ Revised(row, put).live
           /\ Revised(row, put).hits = row.hits
<1>1. /\ row.live \in BOOLEAN /\ row.summary \in Values \cup {None}
      /\ row.version \in Nat /\ row.version + 1 \in Nat \ {0} /\ row.hits \in Nat
      /\ row = [live |-> row.live, sup |-> row.sup, summary |-> row.summary,
                record |-> row.record, version |-> row.version, hits |-> row.hits]
  BY RowFacts DEF Row
<1>2. PICK v \in Values \cup {None} :
          v = IF put.summary = None THEN row.summary ELSE put.summary
  BY <1>1, PutFacts
<1>3. Revised(row, put) =
          [row EXCEPT !.live = TRUE, !.sup = None, !.record = put.record,
                      !.summary = v, !.version = row.version + 1]
  BY <1>2 DEF Revised
<1>4. Revised(row, put) =
          [live |-> TRUE, sup |-> None, summary |-> v, record |-> put.record,
           version |-> row.version + 1, hits |-> row.hits]
  BY <1>1, <1>3
<1> QED BY <1>1, <1>4, PutFacts DEF Row

\* The UPDATE of the local store, with the hits the row has by then.
LEMMA OverwrittenRow ==
    ASSUME NEW row \in Row, NEW put \in Put, NEW h \in Nat
    PROVE  /\ [Revised(row, put) EXCEPT !.hits = h] \in Row
           /\ [Revised(row, put) EXCEPT !.hits = h].sup = None
           /\ h = row.hits => [Revised(row, put) EXCEPT !.hits = h] = Revised(row, put)
<1>1. Revised(row, put) \in Row /\ Revised(row, put).sup = None
      /\ Revised(row, put).hits = row.hits
  BY RevisedRow
<1>2. ASSUME NEW r \in Row
      PROVE  /\ [r EXCEPT !.hits = h] \in Row /\ [r EXCEPT !.hits = h].sup = r.sup
             /\ h = r.hits => [r EXCEPT !.hits = h] = r
  BY DEF Row
<1> QED BY <1>1, <1>2

\* The other statements keep the version.
LEMMA MarkedRow ==
    ASSUME NEW row \in Row
    PROVE  /\ Forgotten(row) \in Row /\ Bumped(row) \in Row
           /\ Forgotten(row).sup = row.sup /\ Forgotten(row).version = row.version
           /\ Bumped(row).sup = row.sup /\ Bumped(row).version = row.version
           /\ \A new \in Ids : /\ Superseded(row, new) \in Row
                               /\ Superseded(row, new).sup = new
                               /\ Superseded(row, new).version = row.version
<1>1. Forgotten(row) \in Row /\ Forgotten(row).sup = row.sup
      /\ Forgotten(row).version = row.version
  BY DEF Forgotten, Row
<1>2. Bumped(row) \in Row /\ Bumped(row).sup = row.sup /\ Bumped(row).version = row.version
  BY DEF Bumped, Row
<1>3. \A new \in Ids : /\ Superseded(row, new) \in Row
                       /\ Superseded(row, new).sup = new
                       /\ Superseded(row, new).version = row.version
  BY DEF Superseded, Row
<1> QED BY <1>1, <1>2, <1>3

\* An upsert into a table.
LEMMA UpsertedRow ==
    ASSUME NEW base, IsTable(base), NEW put \in Put
    PROVE  /\ Upserted(base, put) \in Row /\ Upserted(base, put).sup = None
           /\ Upserted(base, put).version =
                  IF put.id \in DOMAIN base THEN base[put.id].version + 1 ELSE 1
<1>1. CASE put.id \in DOMAIN base
  <2>1. base[put.id] \in Row BY <1>1 DEF IsTable
  <2> QED BY <1>1, <2>1, RevisedRow DEF Upserted
<1>2. CASE put.id \notin DOMAIN base BY <1>2, InsertedRow DEF Upserted
<1> QED BY <1>1, <1>2

\* A table with a row written.
LEMMA WithRow ==
    ASSUME NEW base, NEW id, NEW row
    PROVE  /\ DOMAIN With(base, id, row) = DOMAIN base \cup {id}
           /\ With(base, id, row)[id] = row
           /\ \A i \in DOMAIN base : i # id => With(base, id, row)[i] = base[i]
           /\ IsTable(base) /\ id \in Ids /\ row \in Row => IsTable(With(base, id, row))
BY DEF With, IsTable

-----------------------------------------------------------------------------
(* Chains of superseded records.                                           *)

Linked(base) ==
    /\ \A id \in DOMAIN base : base[id].sup \in DOMAIN base \cup {None}
    /\ \A S \in SUBSET DOMAIN base : S # {} => \E id \in S : base[id].sup \notin S

\* A record that nobody supersedes closes no circle.
LEMMA PutLinks ==
    ASSUME NEW base, IsTable(base), Linked(base),
           NEW id \in Ids, NEW row, row.sup = None
    PROVE  Linked(With(base, id, row))
<1> DEFINE after == With(base, id, row)
<1>1. /\ DOMAIN after = DOMAIN base \cup {id} /\ after[id] = row
      /\ \A i \in DOMAIN base : i # id => after[i] = base[i]
  BY DEF With
<1>2. None \notin DOMAIN after BY <1>1, PutFacts DEF IsTable
<1> HIDE DEF after
<1>3. \A i \in DOMAIN after : after[i].sup \in DOMAIN after \cup {None}
  BY <1>1 DEF Linked
<1>4. ASSUME NEW S \in SUBSET DOMAIN after, S # {}
      PROVE  \E i \in S : after[i].sup \notin S
  <2>1. CASE id \in S
    <3>1. after[id].sup \notin S BY <1>1, <1>2
    <3> QED BY <2>1, <3>1
  <2>2. CASE id \notin S
    <3>1. S \in SUBSET DOMAIN base BY <1>1, <2>2
    <3>2. PICK i \in S : base[i].sup \notin S BY <3>1, <1>4 DEF Linked
    <3>3. after[i] = base[i] BY <1>1, <2>2, <3>1
    <3> QED BY <3>2, <3>3
  <2> QED BY <2>1, <2>2
<1>5. Linked(after) BY <1>3, <1>4 DEF Linked
<1> QED BY <1>5 DEF after

\* Nor does one that points to a record nobody supersedes.
LEMMA SupersedeLinks ==
    ASSUME NEW base, IsTable(base), Linked(base),
           NEW old \in DOMAIN base, NEW id \in DOMAIN base,
           old # id, base[id].sup = None
    PROVE  Linked(With(base, old, Superseded(base[old], id)))
<1> DEFINE after == With(base, old, Superseded(base[old], id))
<1>1. id \in Ids /\ base[old] \in Row BY DEF IsTable
<1>2. /\ DOMAIN after = DOMAIN base
      /\ after[old] = Superseded(base[old], id)
      /\ \A i \in DOMAIN base : i # old => after[i] = base[i]
  BY DEF With
<1>3. after[old].sup = id BY <1>1, <1>2, MarkedRow
<1>4. after[id].sup = None BY <1>2
<1>5. None \notin DOMAIN after BY <1>2, PutFacts DEF IsTable
<1> HIDE DEF after
<1>6. \A i \in DOMAIN after : after[i].sup \in DOMAIN after \cup {None}
  BY <1>2, <1>3 DEF Linked
<1>7. ASSUME NEW S \in SUBSET DOMAIN after, S # {}
      PROVE  \E i \in S : after[i].sup \notin S
  <2>1. CASE id \in S BY <2>1, <1>4, <1>5
  <2>2. CASE id \notin S /\ old \in S BY <2>2, <1>3
  <2>3. CASE old \notin S
    <3>1. S \in SUBSET DOMAIN base BY <1>2
    <3>2. PICK i \in S : base[i].sup \notin S BY <3>1, <1>7 DEF Linked
    <3>3. after[i] = base[i] BY <1>2, <2>3, <3>1
    <3> QED BY <3>2, <3>3
  <2> QED BY <2>1, <2>2, <2>3
<1>8. Linked(after) BY <1>6, <1>7 DEF Linked
<1> QED BY <1>8 DEF after

\* Nor a statement that keeps the pointers.
LEMMA SameLinks ==
    ASSUME NEW base, NEW after, DOMAIN after = DOMAIN base, Linked(base),
           \A id \in DOMAIN base : after[id].sup = base[id].sup
    PROVE  Linked(after)
BY DEF Linked

-----------------------------------------------------------------------------
(* The steps of the table.                                                 *)

\* Rows that nobody superseded.
Heads == {row \in Row : row.sup = None}

\* A table after a put whose upsert wrote `row`, with its supersede or without.
IsPut(base, put, row, after) ==
    \/ after = With(base, put.id, row)
    \/ /\ Supersedes(base, put)
       /\ after = With(With(base, put.id, row), put.old, Superseded(base[put.old], put.id))

\* A table after a forget.
IsForget(base, id, after) ==
    /\ id \in DOMAIN base /\ base[id].live
    /\ after = [base EXCEPT ![id] = Forgotten(@)]

\* A table after a get or a memory_context.
IsUse(base, used, after) ==
    after = [id \in DOMAIN base |-> IF id \in used THEN Bumped(base[id]) ELSE base[id]]

\* A put keeps the chains and the versions of the other records.
LEMMA PutResult ==
    ASSUME NEW base, IsTable(base), NEW put \in Put, NEW row \in Heads,
           NEW after, IsPut(base, put, row, after)
    PROVE  /\ IsTable(after)
           /\ Linked(base) => Linked(after)
           /\ DOMAIN after = DOMAIN base \cup {put.id}
           /\ after[put.id] = row
           /\ \A i \in DOMAIN base : i # put.id => after[i].version = base[i].version
<1> DEFINE first == With(base, put.id, row)
<1>1. put.id \in Ids /\ row \in Row /\ row.sup = None BY PutFacts DEF Heads
<1>2. /\ DOMAIN first = DOMAIN base \cup {put.id} /\ first[put.id] = row
      /\ \A i \in DOMAIN base : i # put.id => first[i] = base[i]
  BY DEF With
<1>3. IsTable(first) BY <1>1, <1>2 DEF IsTable
<1>4. Linked(base) => Linked(first) BY <1>1, PutLinks
<1> HIDE DEF first
<1>5. CASE after = first BY <1>5, <1>2, <1>3, <1>4
<1>6. CASE Supersedes(base, put)
           /\ after = With(first, put.old, Superseded(base[put.old], put.id))
  <2>1. put.old \in DOMAIN base /\ put.old # put.id BY <1>6 DEF Supersedes
  <2>2. first[put.old] = base[put.old] /\ first[put.old] \in Row
    BY <2>1, <1>2 DEF IsTable
  <2>3. after = With(first, put.old, Superseded(first[put.old], put.id)) BY <1>6, <2>2
  <2>4. Linked(first) => Linked(after)
    <3>1. /\ put.old \in DOMAIN first /\ put.id \in DOMAIN first
          /\ put.old # put.id /\ first[put.id].sup = None
      BY <2>1, <1>1, <1>2
    <3> QED BY <3>1, <2>3, <1>3, SupersedeLinks
  <2>5. /\ DOMAIN after = DOMAIN first
        /\ after[put.old] = Superseded(first[put.old], put.id)
        /\ \A i \in DOMAIN first : i # put.old => after[i] = first[i]
    BY <2>1, <2>3, <1>2 DEF With
  <2>6. /\ Superseded(first[put.old], put.id) \in Row
        /\ Superseded(first[put.old], put.id).version = base[put.old].version
    <3>1. put.id \in Ids BY <1>1
    <3> QED BY ZenonT(40), <3>1, <2>2, MarkedRow
  <2>7. IsTable(after) BY <2>5, <2>6, <1>3 DEF IsTable
  <2>8. \A i \in DOMAIN base : i # put.id => after[i].version = base[i].version
    BY <2>5, <2>6, <1>2
  <2> QED BY <2>1, <2>4, <2>5, <2>7, <2>8, <1>2, <1>4
<1> QED BY <1>5, <1>6 DEF IsPut, first

\* A forget and a use keep the records, their pointers and their versions.
LEMMA MarkResult ==
    ASSUME NEW base, IsTable(base), NEW after, NEW x,
           IsForget(base, x, after) \/ IsUse(base, x, after)
    PROVE  /\ IsTable(after)
           /\ Linked(base) => Linked(after)
           /\ DOMAIN after = DOMAIN base
           /\ \A i \in DOMAIN base : after[i].version = base[i].version
<1>1. DOMAIN after = DOMAIN base BY DEF IsForget, IsUse
<1>2. ASSUME NEW i \in DOMAIN base
      PROVE  after[i] \in Row /\ after[i].sup = base[i].sup
             /\ after[i].version = base[i].version
  <2>1. base[i] \in Row BY DEF IsTable
  <2>2. after[i] \in {base[i], Forgotten(base[i]), Bumped(base[i])}
    BY DEF IsForget, IsUse
  <2> QED BY <2>1, <2>2, MarkedRow
<1>3. IsTable(after) BY <1>1, <1>2 DEF IsTable
<1>4. Linked(base) => Linked(after) BY <1>1, <1>2, SameLinks
<1> QED BY <1>1, <1>2, <1>3, <1>4

PutStep ==
    \E put \in Put, row \in Heads :
        /\ IsPut(rows, put, row, rows')
        /\ acked' = [acked EXCEPT ![put.id] = @ + 1]
        /\ Arbitrated => /\ row = Upserted(rows, put)
                         /\ put.id \in Episodes => put.id \notin DOMAIN rows

MarkStep ==
    /\ acked' = acked
    /\ \/ \E id \in DOMAIN rows : IsForget(rows, id, rows')
       \/ \E used \in SUBSET DOMAIN rows : IsUse(rows, used, rows')

\* What any step does to the table: a put that is acknowledged, a forget, a use or
\* nothing.
TableStep == PutStep \/ MarkStep \/ UNCHANGED <<rows, acked>>

\* The operators of the abstract memory are those of this one.
LEMMA SameStatements ==
    /\ Atomic!Put = Put /\ Atomic!Ids = Ids
    /\ \A base, put : /\ Atomic!Upserted(base, put) = Upserted(base, put)
                       /\ Atomic!Supersedes(base, put) = Supersedes(base, put)
    /\ \A base, id, row : Atomic!With(base, id, row) = With(base, id, row)
    /\ \A row, new : Atomic!Superseded(row, new) = Superseded(row, new)
    /\ \A row : Atomic!Forgotten(row) = Forgotten(row) /\ Atomic!Bumped(row) = Bumped(row)
<1>1. Atomic!Ids = Ids BY DEF Atomic!Ids, Ids
<1>2. Atomic!Put = Put BY <1>1 DEF Atomic!Put, Put
<1>3. ASSUME NEW row, NEW put PROVE Atomic!Revised(row, put) = Revised(row, put)
  BY Zenon DEF Atomic!Revised, Revised
<1>4. ASSUME NEW put PROVE Atomic!Inserted(put) = Inserted(put)
  BY DEF Atomic!Inserted, Inserted
<1>5. ASSUME NEW base, NEW put
      PROVE  Atomic!Upserted(base, put) = Upserted(base, put)
  BY <1>3, <1>4, Zenon DEF Atomic!Upserted, Upserted
<1>6. ASSUME NEW base, NEW put
      PROVE  Atomic!Supersedes(base, put) = Supersedes(base, put)
  BY DEF Atomic!Supersedes, Supersedes
<1>7. ASSUME NEW base, NEW id, NEW row
      PROVE  Atomic!With(base, id, row) = With(base, id, row)
  BY DEF Atomic!With, With
<1>8. ASSUME NEW row, NEW new PROVE Atomic!Superseded(row, new) = Superseded(row, new)
  BY DEF Atomic!Superseded, Superseded
<1>9. ASSUME NEW row
      PROVE  Atomic!Forgotten(row) = Forgotten(row) /\ Atomic!Bumped(row) = Bumped(row)
  BY DEF Atomic!Forgotten, Forgotten, Atomic!Bumped, Bumped
<1> QED BY <1>1, <1>2, <1>5, <1>6, <1>7, <1>8, <1>9

\* A put, a forget and a use are steps of Memory.
LEMMA StepsAreAtomic ==
    ASSUME IsTable(rows), TableStep
    PROVE  (Arbitrated => Atomic!MemoryNext) \/ rows' = rows
<1>1. ASSUME PutStep, Arbitrated PROVE Atomic!MemoryNext
  <2>1. PICK put \in Put :
            /\ IsPut(rows, put, Upserted(rows, put), rows')
            /\ put.id \in Episodes => put.id \notin DOMAIN rows
    BY <1>1 DEF PutStep
  <2>2. Atomic!PutOnly(put) = With(rows, put.id, Upserted(rows, put))
    BY SameStatements DEF Atomic!PutOnly
  <2>3. Atomic!DoPut(put)
    BY <2>1, <2>2, SameStatements DEF Atomic!DoPut, IsPut
  <2> QED BY <2>3, SameStatements DEF Atomic!MemoryNext
<1>2. ASSUME NEW id \in DOMAIN rows, IsForget(rows, id, rows') PROVE Atomic!MemoryNext
  <2>1. Atomic!DoForget(id) BY <1>2, SameStatements DEF Atomic!DoForget, IsForget
  <2> QED BY <2>1, SameStatements DEF Atomic!MemoryNext, IsTable
<1>3. ASSUME NEW used \in SUBSET DOMAIN rows, IsUse(rows, used, rows')
      PROVE  Atomic!MemoryNext
  <2>1. Atomic!DoUse(used) BY <1>3, SameStatements DEF Atomic!DoUse, IsUse
  <2> QED BY <2>1 DEF Atomic!MemoryNext
<1> QED BY <1>1, <1>2, <1>3 DEF TableStep, MarkStep

\* They keep the table a table and the chains ending.
LEMMA StepsKeepChains ==
    ASSUME IsTable(rows), acked \in [Ids -> Nat], TableStep
    PROVE  /\ IsTable(rows') /\ acked' \in [Ids -> Nat]
           /\ DOMAIN rows \subseteq DOMAIN rows'
           /\ IsFiniteSet(DOMAIN rows) => IsFiniteSet(DOMAIN rows')
           /\ Linked(rows) => Linked(rows')
<1>1. CASE PutStep
  <2>1. PICK put \in Put, row \in Heads :
            /\ IsPut(rows, put, row, rows')
            /\ acked' = [acked EXCEPT ![put.id] = @ + 1]
    BY <1>1 DEF PutStep
  <2>2. IsPut(rows, put, row, rows') BY <2>1
  <2>3. /\ IsTable(rows')
        /\ Linked(rows) => Linked(rows')
        /\ DOMAIN rows' = DOMAIN rows \cup {put.id}
    BY <2>2, PutResult
  <2>4. acked' \in [Ids -> Nat] BY <2>1, PutFacts
  <2>5. IsFiniteSet(DOMAIN rows) => IsFiniteSet(DOMAIN rows') BY <2>3, FS_AddElement
  <2> QED BY <2>3, <2>4, <2>5
<1>2. CASE MarkStep
  <2>1. PICK x : IsForget(rows, x, rows') \/ IsUse(rows, x, rows')
    BY <1>2 DEF MarkStep
  <2> QED BY <2>1, <1>2, MarkResult DEF MarkStep
<1>3. CASE UNCHANGED <<rows, acked>> BY <1>3
<1> QED BY <1>1, <1>2, <1>3 DEF TableStep

\* They keep the count of the puts.
LEMMA StepsCountPuts ==
    ASSUME IsTable(rows), acked \in [Ids -> Nat], TableStep,
           Arbitrated, VersionCountsPuts, NEW id \in Ids
    PROVE  acked'[id] = IF id \in DOMAIN rows' THEN rows'[id].version ELSE 0
<1>1. acked[id] = IF id \in DOMAIN rows THEN rows[id].version ELSE 0
  BY DEF VersionCountsPuts
<1>2. CASE PutStep
  <2>1. PICK put \in Put :
            /\ Upserted(rows, put) \in Heads
            /\ IsPut(rows, put, Upserted(rows, put), rows')
            /\ acked' = [acked EXCEPT ![put.id] = @ + 1]
    BY <1>2 DEF PutStep
  <2>2. /\ DOMAIN rows' = DOMAIN rows \cup {put.id}
        /\ rows'[put.id] = Upserted(rows, put)
        /\ \A i \in DOMAIN rows : i # put.id => rows'[i].version = rows[i].version
    BY <2>1, PutResult
  <2>3. CASE id = put.id
    <3>1. acked'[id] = acked[id] + 1 BY <2>1, <2>3
    <3>2. rows'[id].version = IF id \in DOMAIN rows THEN rows[id].version + 1 ELSE 1
      BY <2>2, <2>3, UpsertedRow
    <3> QED BY <3>1, <3>2, <1>1, <2>2, <2>3
  <2>4. CASE id # put.id
    <3>1. acked'[id] = acked[id] BY <2>1, <2>4
    <3> QED BY <3>1, <2>2, <2>4, <1>1
  <2> QED BY <2>3, <2>4
<1>3. CASE MarkStep
  <2>1. PICK x : IsForget(rows, x, rows') \/ IsUse(rows, x, rows')
    BY <1>3 DEF MarkStep
  <2>2. /\ DOMAIN rows' = DOMAIN rows
        /\ \A i \in DOMAIN rows : rows'[i].version = rows[i].version
    BY <2>1, MarkResult
  <2> QED BY <2>2, <1>1, <1>3 DEF MarkStep
<1>4. CASE UNCHANGED <<rows, acked>> BY <1>4, <1>1
<1> QED BY <1>2, <1>3, <1>4 DEF TableStep

-----------------------------------------------------------------------------
(* A step is one session's.                                                *)

\* The other sessions stay where they are, and the stores too.
Elsewhere(s) ==
    /\ \A t \in Sessions \ {s} :
           /\ pc'[t] = pc[t] /\ call'[t] = call[t] /\ left'[t] = left[t]
           /\ pend'[t] = pend[t] /\ todo'[t] = todo[t] /\ found'[t] = found[t]
    /\ UNCHANGED <<storeOf, backend>>

\* The session that moves goes to a place it may be in.
Moves(s) == Elsewhere(s) /\ Functions' /\ SessionTypes(s)'

\* So types are kept.
LEMMA TypesKept ==
    ASSUME Types, NEW s \in Sessions, Moves(s), TableStep
    PROVE  Types'
<1>1. IsTable(rows') /\ IsFiniteSet(DOMAIN rows') /\ acked' \in [Ids -> Nat]
  BY StepsKeepChains DEF Types
<1>2. backend' \in {"hosted", "local"} BY DEF Moves, Elsewhere, Types
<1>3. ASSUME NEW t \in Sessions, t # s PROVE SessionTypes(t)'
  <2>1. SessionTypes(t) BY DEF Types
  <2> QED BY <2>1, <1>3 DEF SessionTypes, Moves, Elsewhere
<1>4. \A t \in Sessions : SessionTypes(t)' BY <1>3 DEF Moves
<1> QED BY <1>1, <1>2, <1>4 DEF Types, Moves

\* A step that sends its session to `place` with what its call is about.
LEMMA MoveTypes ==
    ASSUME Functions, NEW s \in Sessions, NEW place \in Places, Goto(s, place),
           call' \in {call, [call EXCEPT ![s] = None]}, UNCHANGED left
    PROVE  /\ pc' \in [Sessions -> Places] /\ pc'[s] = place
           /\ call' \in [Sessions -> Puts \cup Ids \cup {None}]
           /\ call'[s] \in {call[s], None}
           /\ left' \in [Sessions -> 0 .. MaxCalls]
           /\ \A t \in Sessions \ {s} :
                  pc'[t] = pc[t] /\ call'[t] = call[t] /\ left'[t] = left[t]
BY DEF Functions, Goto

\* A call begins.
LEMMA BeginMoves ==
    ASSUME Types, NEW s \in Sessions, BeginCall(s),
           UNCHANGED <<hostedVars, sqliteVars, backend>>
    PROVE  /\ Moves(s) /\ UNCHANGED <<rows, acked>>
           /\ pc[s] = "idle" /\ pc'[s] \in {"put", "get", "forget", "context"}
<1>1. PICK place, about : /\ Begin(s, place, about)
                          /\ \/ place = "put" /\ about \in Puts
                             \/ place \in {"get", "forget"} /\ about \in Ids
                             \/ place = "context" /\ about = None
  BY DEF BeginCall, BeginPut, BeginGet, BeginForget, BeginContext
<1>2. Functions /\ SessionTypes(s) BY DEF Types
<1>3. place \in Places /\ about \in Puts \cup Ids \cup {None} BY <1>1 DEF Places
<1>4. /\ pc' = [pc EXCEPT ![s] = place] /\ call' = [call EXCEPT ![s] = about]
      /\ left' = [left EXCEPT ![s] = @ - 1] /\ left[s] > 0 /\ pc[s] = "idle"
      /\ UNCHANGED <<rows, acked>>
  BY <1>1 DEF Begin, Goto
<1>5. left[s] - 1 \in 0 .. MaxCalls BY <1>2, <1>4, CallsAssumption DEF SessionTypes
<1>6. /\ pc' \in [Sessions -> Places] /\ pc'[s] = place
      /\ call' \in [Sessions -> Puts \cup Ids \cup {None}] /\ call'[s] = about
      /\ left' \in [Sessions -> 0 .. MaxCalls]
      /\ \A t \in Sessions \ {s} :
             pc'[t] = pc[t] /\ call'[t] = call[t] /\ left'[t] = left[t]
  BY <1>2, <1>3, <1>4, <1>5 DEF Functions
<1>7. UNCHANGED <<pend, todo, found, storeOf, backend>> BY DEF hostedVars, sqliteVars
<1>8. Functions' BY <1>2, <1>6, <1>7 DEF Functions
<1>9. about \in Puts => about \in Put BY PutFacts
<1>10. SessionTypes(s)'
  BY <1>1, <1>2, <1>6, <1>7, <1>8, <1>9 DEF SessionTypes, Functions
<1>11. Elsewhere(s) BY <1>6, <1>7 DEF Elsewhere
<1> QED BY <1>1, <1>4, <1>6, <1>8, <1>10, <1>11 DEF Moves

-----------------------------------------------------------------------------
(* The hosted store.                                                       *)

\* What a session has written is its own.
Alone(s) ==
    /\ DOMAIN pend' = Sessions /\ IsTable(pend'[s])
    /\ \A t \in Sessions \ {s} :
           pend'[t] = pend[t] /\ DOMAIN pend'[s] \cap DOMAIN pend[t] = {}

\* A statement locks its row before it writes it.
LEMMA WriteAlone ==
    ASSUME Functions, Locks, NEW s \in Sessions, IsTable(pend[s]),
           NEW id \in Ids, NEW row \in Row, Free(s, id), Write(s, id, row)
    PROVE  Alone(s) /\ pend'[s] = With(pend[s], id, row)
<1>1. /\ DOMAIN pend' = Sessions /\ pend'[s] = With(pend[s], id, row)
      /\ \A t \in Sessions \ {s} : pend'[t] = pend[t]
  BY DEF Write, Functions
<1>2. DOMAIN With(pend[s], id, row) = DOMAIN pend[s] \cup {id} BY DEF With
<1>3. IsTable(With(pend[s], id, row)) BY <1>2 DEF IsTable, With
<1>4. \A t \in Sessions \ {s} :
          DOMAIN pend[s] \cap DOMAIN pend[t] = {} /\ id \notin DOMAIN pend[t]
  BY DEF Locks, Free
<1> QED BY <1>1, <1>2, <1>3, <1>4 DEF Alone

\* No statement, no row.
LEMMA StayAlone ==
    ASSUME Functions, Locks, NEW s \in Sessions, IsTable(pend[s]), UNCHANGED pend
    PROVE  Alone(s) /\ pend'[s] = pend[s]
BY DEF Alone, Functions, Locks

\* A transaction that ends lets go of its rows.
LEMMA DropAlone ==
    ASSUME Functions, NEW s \in Sessions, Drop(s)
    PROVE  /\ Alone(s) /\ DOMAIN pend'[s] = {} /\ DOMAIN todo' = Sessions
           /\ \A t \in Sessions \ {s} : todo'[t] = todo[t]
<1>1. DOMAIN <<>> = {} OBVIOUS
<1>2. IsTable(<<>>) BY <1>1 DEF IsTable
<1> QED BY <1>1, <1>2 DEF Drop, Alone, Functions

\* Where a hosted session that has moved may be.
LEMMA HostedMoves ==
    ASSUME Types, NEW s \in Sessions, Alone(s), DOMAIN todo' = Sessions,
           \A t \in Sessions \ {s} : todo'[t] = todo[t],
           UNCHANGED <<sqliteVars, backend>>,
           NEW place \in Places, Goto(s, place),
           call' \in {call, [call EXCEPT ![s] = None]}, UNCHANGED left,
           place \in {"supersede", "finish", "bump", "idle", "aborted", "broken", "gone"},
           place = "supersede" => call'[s] \in Put,
           place \in {"bump", "aborted", "broken"} => call'[s] = None
    PROVE  Moves(s)
<1>1. Functions /\ SessionTypes(s) BY DEF Types
<1>2. /\ pc' \in [Sessions -> Places] /\ pc'[s] = place
      /\ call' \in [Sessions -> Puts \cup Ids \cup {None}]
      /\ call'[s] \in {call[s], None}
      /\ left' \in [Sessions -> 0 .. MaxCalls]
      /\ \A t \in Sessions \ {s} :
             pc'[t] = pc[t] /\ call'[t] = call[t] /\ left'[t] = left[t]
  BY <1>1, MoveTypes
<1>3. UNCHANGED <<found, storeOf, backend>> BY DEF sqliteVars
<1>4. Functions' BY <1>1, <1>2, <1>3 DEF Functions, Alone
<1>5. SessionTypes(s)' BY <1>1, <1>2, <1>4 DEF SessionTypes, Functions, Alone
<1>6. Elsewhere(s) BY <1>2, <1>3 DEF Elsewhere, Alone
<1> QED BY <1>4, <1>5, <1>6 DEF Moves

\* A statement: the session keeps its call and its todo list.
HostedKeeps(s) ==
    Moves(s) /\ Alone(s) /\ HostedOwn(s)' /\ UNCHANGED <<rows, acked>>

\* The upsert writes what Upserted makes of the row.
LEMMA UpsertKeeps ==
    ASSUME Types, Locks, NEW s \in Sessions, HostedOwn(s), Upsert(s),
           UNCHANGED <<sqliteVars, backend>>
    PROVE  HostedKeeps(s)
<1> DEFINE put == call[s]
           row == Upserted(rows, put)
           place == IF put.old = None THEN "finish" ELSE "supersede"
<1>1. /\ Functions /\ SessionTypes(s) /\ IsTable(rows) BY DEF Types
<1>2. /\ pc[s] = "put" /\ Free(s, put.id) /\ Write(s, put.id, row) /\ Goto(s, place)
      /\ UNCHANGED <<rows, call, left, acked, todo>>
  BY DEF Upsert
<1>3. put \in Put /\ put.id \in Ids BY <1>1, <1>2, PutFacts DEF SessionTypes
<1>4. row \in Row BY <1>1, <1>3, UpsertedRow
<1>5. place \in {"finish", "supersede"} /\ place \in Places BY DEF Places
<1> HIDE DEF row, place
<1>6. Alone(s) /\ pend'[s] = With(pend[s], put.id, row)
  BY <1>1, <1>2, <1>3, <1>4, WriteAlone DEF SessionTypes
<1>7. DOMAIN todo' = Sessions /\ \A t \in Sessions \ {s} : todo'[t] = todo[t]
  BY <1>1, <1>2 DEF Functions
<1>8. Moves(s) BY <1>2, <1>3, <1>5, <1>6, <1>7, HostedMoves
<1>9. pc'[s] = place BY <1>1, <1>2 DEF Functions, Goto
<1>10. DOMAIN pend[s] = {} BY <1>2 DEF HostedOwn
<1>11. DOMAIN pend'[s] = {put.id} /\ pend'[s][put.id] = row BY <1>6, <1>10 DEF With
<1>12. PutDone(s)' BY <1>2, <1>11 DEF PutDone, row
<1>13. HostedOwn(s)'
  BY <1>2, <1>3, <1>5, <1>9, <1>11, <1>12, PutFacts DEF HostedOwn
<1> QED BY <1>2, <1>6, <1>8, <1>13 DEF HostedKeeps

\* The table as the superseding statement sees it.
LEMMA SeenByPut ==
    ASSUME Types, NEW s \in Sessions, call[s] \in Put,
           DOMAIN pend[s] = {call[s].id}, PutDone(s)
    PROVE  /\ Supersedes(Seen(s), call[s]) <=> Supersedes(rows, call[s])
           /\ Supersedes(rows, call[s]) => Seen(s)[call[s].old] = rows[call[s].old]
BY DEF Seen, Supersedes

\* The supersede writes the row it found, if it found one.
LEMMA SupersedeKeeps ==
    ASSUME Types, Locks, NEW s \in Sessions, HostedOwn(s), Supersede(s),
           UNCHANGED <<sqliteVars, backend>>
    PROVE  HostedKeeps(s)
<1> DEFINE put == call[s]
           row == Superseded(rows[put.old], put.id)
<1>1. /\ Functions /\ SessionTypes(s) /\ IsTable(rows) BY DEF Types
<1>2. /\ pc[s] = "supersede" /\ Goto(s, "finish")
      /\ UNCHANGED <<rows, call, left, acked, todo>>
  BY DEF Supersede
<1>3. put \in Put /\ put.id \in Ids BY <1>1, <1>2, PutFacts DEF SessionTypes
<1>4. DOMAIN pend[s] = {put.id} /\ PutDone(s) BY <1>2 DEF HostedOwn
<1>5. DOMAIN todo' = Sessions /\ \A t \in Sessions \ {s} : todo'[t] = todo[t]
  BY <1>1, <1>2 DEF Functions
<1>6. pc'[s] = "finish" BY <1>1, <1>2 DEF Functions, Goto
<1>7. Alone(s) /\ PutDone(s)'
  <2>1. CASE Supersedes(rows, put)
    <3>1. put.old \in DOMAIN rows /\ put.old # put.id BY <2>1 DEF Supersedes
    <3>2. put.old \in Ids /\ rows[put.old] \in Row BY <3>1, <1>1 DEF IsTable
    <3>3. row \in Row BY <3>2, <1>3, MarkedRow
    <3>4. Free(s, put.old) /\ Write(s, put.old, row)
      BY <2>1, <1>3, <1>4, SeenByPut DEF Supersede
    <3> HIDE DEF row
    <3>5. Alone(s) /\ pend'[s] = With(pend[s], put.old, row)
      BY <1>1, <3>2, <3>3, <3>4, WriteAlone DEF SessionTypes
    <3>6. /\ DOMAIN pend'[s] = {put.id, put.old} /\ pend'[s][put.old] = row
          /\ pend'[s][put.id] = pend[s][put.id]
      BY <3>1, <3>5, <1>4 DEF With
    <3> QED BY <2>1, <3>5, <3>6, <1>2, <1>4 DEF PutDone, row
  <2>2. CASE ~Supersedes(rows, put)
    <3>1. UNCHANGED pend BY <2>2, <1>3, <1>4, SeenByPut DEF Supersede
    <3>2. Alone(s) BY <3>1, <1>1, StayAlone DEF SessionTypes
    <3> QED BY <3>1, <3>2, <1>2, <1>4 DEF PutDone
  <2> QED BY <2>1, <2>2
<1>8. Moves(s) BY <1>2, <1>5, <1>7, HostedMoves DEF Places
<1>9. HostedOwn(s)' BY <1>2, <1>3, <1>6, <1>7, PutFacts DEF HostedOwn
<1> QED BY <1>2, <1>7, <1>8, <1>9 DEF HostedKeeps

\* Its savepoint rolled back, the upsert stands.
LEMMA SupersedeFailsKeeps ==
    ASSUME Types, Locks, NEW s \in Sessions, HostedOwn(s), SupersedeFails(s),
           UNCHANGED <<sqliteVars, backend>>
    PROVE  HostedKeeps(s)
<1>1. /\ Functions /\ SessionTypes(s) BY DEF Types
<1>2. /\ pc[s] = "supersede" /\ Goto(s, "finish")
      /\ UNCHANGED <<rows, call, left, acked, pend, todo>>
  BY DEF SupersedeFails
<1>3. call[s] \in Put BY <1>1, <1>2 DEF SessionTypes
<1>4. PutDone(s)' BY <1>2 DEF PutDone, HostedOwn
<1>5. DOMAIN todo' = Sessions /\ \A t \in Sessions \ {s} : todo'[t] = todo[t]
  BY <1>1, <1>2 DEF Functions
<1>6. pc'[s] = "finish" BY <1>1, <1>2 DEF Functions, Goto
<1>7. Alone(s) BY <1>1, <1>2, StayAlone DEF SessionTypes
<1>8. Moves(s) BY <1>2, <1>5, <1>7, HostedMoves DEF Places
<1>9. HostedOwn(s)' BY <1>2, <1>3, <1>4, <1>6, PutFacts DEF HostedOwn
<1> QED BY <1>2, <1>7, <1>8, <1>9 DEF HostedKeeps

\* A get bumps the row it found, and a forget deletes it.
LEMMA IdCallKeeps ==
    ASSUME Types, Locks, NEW s \in Sessions, HostedOwn(s), Get(s) \/ Forget(s),
           UNCHANGED <<sqliteVars, backend>>
    PROVE  HostedKeeps(s)
<1> DEFINE id == call[s]
<1>1. /\ Functions /\ SessionTypes(s) /\ IsTable(rows) BY DEF Types
<1>2. /\ pc[s] \in {"get", "forget"} /\ Goto(s, "finish")
      /\ UNCHANGED <<rows, call, left, acked, todo>>
  BY DEF Get, Forget
<1>3. id \in Ids /\ DOMAIN pend[s] = {} BY <1>1, <1>2 DEF SessionTypes, HostedOwn
<1>4. DOMAIN todo' = Sessions /\ \A t \in Sessions \ {s} : todo'[t] = todo[t]
  BY <1>1, <1>2 DEF Functions
<1>5. pc'[s] = "finish" BY <1>1, <1>2 DEF Functions, Goto
<1>6. \/ UNCHANGED pend
      \/ id \in DOMAIN rows /\ Free(s, id) /\ Write(s, id, Bumped(rows[id]))
      \/ /\ id \in DOMAIN rows /\ Free(s, id) /\ rows[id].live
         /\ Write(s, id, Forgotten(rows[id]))
  BY DEF Get, Forget
<1>7. Alone(s) /\ IdDone(s)'
  <2>1. CASE UNCHANGED pend
    BY <2>1, <1>1, <1>2, <1>3, StayAlone DEF SessionTypes, IdDone
  <2>2. ASSUME NEW row \in Row, Free(s, id), Write(s, id, row)
        PROVE  Alone(s) /\ DOMAIN pend'[s] = {id} /\ pend'[s][id] = row
    <3>1. Alone(s) /\ pend'[s] = With(pend[s], id, row)
      BY <1>1, <1>3, <2>2, WriteAlone DEF SessionTypes
    <3> QED BY <3>1, <1>3 DEF With
  <2>3. CASE id \in DOMAIN rows /\ Free(s, id) /\ Write(s, id, Bumped(rows[id]))
    <3>1. Bumped(rows[id]) \in Row BY <2>3, <1>1, MarkedRow DEF IsTable
    <3>2. Alone(s) /\ DOMAIN pend'[s] = {id} /\ pend'[s][id] = Bumped(rows[id])
      BY <2>2, <2>3, <3>1
    <3> QED BY <3>2, <2>3, <1>2 DEF IdDone
  <2>4. CASE id \in DOMAIN rows /\ Free(s, id) /\ rows[id].live
             /\ Write(s, id, Forgotten(rows[id]))
    <3>1. Forgotten(rows[id]) \in Row BY <2>4, <1>1, MarkedRow DEF IsTable
    <3>2. Alone(s) /\ DOMAIN pend'[s] = {id} /\ pend'[s][id] = Forgotten(rows[id])
      BY <2>2, <2>4, <3>1
    <3> QED BY <3>2, <2>4, <1>2 DEF IdDone
  <2> QED BY <2>1, <2>3, <2>4, <1>6
<1>8. Moves(s) BY <1>2, <1>4, <1>7, HostedMoves DEF Places
<1>9. HostedOwn(s)' BY <1>2, <1>3, <1>5, <1>7, PutFacts DEF HostedOwn
<1> QED BY <1>2, <1>7, <1>8, <1>9 DEF HostedKeeps

\* A function on 1 .. m is a sequence.
LEMMA Listed ==
    ASSUME NEW S, NEW m \in Nat, NEW s \in [1 .. m -> S]
    PROVE  s \in Seq(S)
OBVIOUS

\* memory_context chooses rows of the table; deleted ones it leaves out.
LEMMA HitsAreRows ==
    ASSUME IsFiniteSet(DOMAIN rows), NEW order \in Hits(rows)
    PROVE  order \in Seq(DOMAIN rows)
<1>1. PICK S \in SUBSET {id \in DOMAIN rows : rows[id].live} :
          order \in [1 .. Cardinality(S) -> S]
  BY DEF Hits
<1>2. S \subseteq DOMAIN rows OBVIOUS
<1>3. Cardinality(S) \in Nat BY <1>2, FS_Subset, FS_CardinalityType
<1> QED BY <1>1, <1>2, <1>3, Listed

\* The two SELECTs write nothing.
LEMMA ContextKeeps ==
    ASSUME Types, Locks, NEW s \in Sessions, HostedOwn(s), Context(s),
           UNCHANGED <<sqliteVars, backend>>
    PROVE  HostedKeeps(s)
<1>1. /\ Functions /\ SessionTypes(s) /\ IsTable(rows) BY DEF Types
<1>2. PICK order \in Hits(rows) :
          /\ todo' = [todo EXCEPT ![s] = order]
          /\ Goto(s, IF order = <<>> THEN "finish" ELSE "bump")
  BY DEF Context
<1>3. pc[s] = "context" /\ UNCHANGED <<rows, call, left, acked, pend>> BY DEF Context
<1>4. order \in Seq(DOMAIN rows) BY HitsAreRows DEF Types
<1> DEFINE place == IF order = <<>> THEN "finish" ELSE "bump"
<1>5. place \in {"finish", "bump"} /\ place \in Places BY DEF Places
<1>6. Goto(s, place) /\ (place = "bump" => order # <<>>) BY <1>2
<1> HIDE DEF place
<1>7. call[s] = None /\ DOMAIN pend[s] = {} BY <1>1, <1>3 DEF SessionTypes, HostedOwn
<1>8. /\ DOMAIN todo' = Sessions /\ todo'[s] = order
      /\ \A t \in Sessions \ {s} : todo'[t] = todo[t]
  BY <1>1, <1>2 DEF Functions
<1>9. pc'[s] = place BY <1>1, <1>6 DEF Functions, Goto
<1>10. Alone(s) /\ pend'[s] = pend[s] BY <1>1, <1>3, StayAlone DEF SessionTypes
<1>11. Moves(s) BY <1>3, <1>5, <1>6, <1>7, <1>8, <1>10, HostedMoves
<1>12. UseDone(s)' BY <1>7, <1>10 DEF UseDone
<1>13. HostedOwn(s)'
  BY <1>3, <1>4, <1>5, <1>6, <1>7, <1>8, <1>9, <1>12, PutFacts DEF HostedOwn
<1> QED BY <1>3, <1>10, <1>11, <1>13 DEF HostedKeeps

\* The rows yet to be bumped.
LEMMA HeadTail ==
    ASSUME NEW S, NEW q \in Seq(S), q # <<>>
    PROVE  Head(q) \in S /\ Tail(q) \in Seq(S)
OBVIOUS

\* The UPDATE after them reaches one more row.
LEMMA TouchOneKeeps ==
    ASSUME Types, Locks, NEW s \in Sessions, HostedOwn(s), TouchOne(s),
           UNCHANGED <<sqliteVars, backend>>
    PROVE  HostedKeeps(s)
<1> DEFINE id == Head(todo[s])
           rest == Tail(todo[s])
           row == Bumped(rows[id])
           place == IF rest = <<>> THEN "finish" ELSE "bump"
<1>1. /\ Functions /\ SessionTypes(s) /\ IsTable(rows) BY DEF Types
<1>2. /\ pc[s] = "bump" /\ Free(s, id) /\ Write(s, id, row)
      /\ todo' = [todo EXCEPT ![s] = Tail(@)] /\ Goto(s, place)
      /\ UNCHANGED <<rows, call, left, acked>>
  BY DEF TouchOne
<1>3. /\ todo[s] # <<>> /\ todo[s] \in Seq(DOMAIN rows)
      /\ UseDone(s) /\ call[s] = None
  BY <1>1, <1>2 DEF HostedOwn, SessionTypes
<1>4. id \in DOMAIN rows /\ rest \in Seq(DOMAIN rows) BY <1>3, HeadTail
<1>5. id \in Ids /\ row \in Row BY <1>1, <1>4, MarkedRow DEF IsTable
<1>6. place \in {"finish", "bump"} /\ place \in Places /\ (place = "bump" => rest # <<>>)
  BY DEF Places
<1>7. /\ DOMAIN todo' = Sessions /\ todo'[s] = rest
      /\ \A t \in Sessions \ {s} : todo'[t] = todo[t]
  BY <1>1, <1>2 DEF Functions
<1> HIDE DEF place, row, rest, id
<1>8. pc'[s] = place BY <1>1, <1>2 DEF Functions, Goto
<1>9. Alone(s) /\ pend'[s] = With(pend[s], id, row)
  BY <1>1, <1>2, <1>5, WriteAlone DEF SessionTypes
<1>10. Moves(s) BY <1>2, <1>3, <1>6, <1>7, <1>9, HostedMoves
<1>11. UseDone(s)' BY <1>2, <1>3, <1>4, <1>9 DEF UseDone, With, row
<1>12. HostedOwn(s)'
  BY <1>2, <1>3, <1>4, <1>6, <1>7, <1>8, <1>11, PutFacts DEF HostedOwn
<1> QED BY <1>2, <1>9, <1>10, <1>12 DEF HostedKeeps

\* Nothing is written when a transaction is dropped, or was before.
LEMMA EndKeeps ==
    ASSUME Types, Locks, NEW s \in Sessions, HostedOwn(s),
           CallFails(s) \/ ContextFails(s) \/ RunFails(s) \/ Crash(s),
           UNCHANGED <<sqliteVars, backend>>
    PROVE  HostedKeeps(s)
<1>1. Functions /\ SessionTypes(s) BY DEF Types
<1> DEFINE Ends(place) ==
               /\ Goto(s, place) /\ (place \in {"aborted", "broken"} => call[s] = None)
               /\ Drop(s) \/ (pc[s] = "aborted" /\ UNCHANGED <<pend, todo>>)
               /\ call' \in {call, [call EXCEPT ![s] = None]}
               /\ UNCHANGED <<rows, left, acked>>
<1>2. PICK place \in {"idle", "aborted", "broken", "gone"} : Ends(place)
  <2>1. CASE CallFails(s)
    <3>1. Ends("idle") BY <2>1 DEF CallFails, Return
    <3> QED BY <3>1
  <2>2. CASE ContextFails(s)
    <3>1. Ends("aborted") BY <2>2 DEF ContextFails
    <3> QED BY <3>1
  <2>3. CASE RunFails(s)
    <3>1. Ends("broken") BY <2>3, <1>1 DEF RunFails, SessionTypes
    <3> QED BY <3>1
  <2>4. CASE Crash(s)
    <3>1. Ends("gone") BY <2>4 DEF Crash
    <3> QED BY <3>1
  <2> QED BY <2>1, <2>2, <2>3, <2>4
<1>3. place \in Places BY <1>2 DEF Places
<1>4. call'[s] \in {call[s], None} BY <1>1, <1>2 DEF Functions
<1>5. /\ Alone(s) /\ DOMAIN pend'[s] = {} /\ DOMAIN todo' = Sessions
      /\ \A t \in Sessions \ {s} : todo'[t] = todo[t]
  <2>1. CASE Drop(s) BY <2>1, <1>1, DropAlone
  <2>2. CASE pc[s] = "aborted" /\ UNCHANGED <<pend, todo>>
    <3>1. DOMAIN pend[s] = {} BY <2>2 DEF HostedOwn
    <3> QED BY <2>2, <3>1, <1>1, StayAlone DEF SessionTypes, Functions
  <2> QED BY <2>1, <2>2, <1>2
<1>6. Moves(s) BY <1>2, <1>3, <1>4, <1>5, HostedMoves
<1>7. pc'[s] = place BY <1>1, <1>2 DEF Functions, Goto
<1>8. HostedOwn(s)' BY <1>2, <1>5, <1>7 DEF HostedOwn
<1> QED BY <1>2, <1>5, <1>6, <1>8 DEF HostedKeeps

\* Nor when a call begins.
LEMMA BeginKeeps ==
    ASSUME Types, Locks, NEW s \in Sessions, HostedOwn(s), BeginCall(s),
           UNCHANGED <<hostedVars, sqliteVars, backend>>
    PROVE  HostedKeeps(s)
<1>1. Functions /\ SessionTypes(s) BY DEF Types
<1>2. /\ Moves(s) /\ UNCHANGED <<rows, acked>>
      /\ pc[s] = "idle" /\ pc'[s] \in {"put", "get", "forget", "context"}
  BY BeginMoves
<1>3. UNCHANGED pend BY DEF hostedVars
<1>4. Alone(s) BY <1>1, <1>3, StayAlone DEF SessionTypes
<1>5. DOMAIN pend[s] = {} BY <1>2 DEF HostedOwn
<1>6. HostedOwn(s)' BY <1>2, <1>3, <1>5 DEF HostedOwn
<1> QED BY <1>2, <1>4, <1>6 DEF HostedKeeps

\* So every step but the commit.
LEMMA HostedStepKeeps ==
    ASSUME Types, Locks, NEW s \in Sessions, HostedOwn(s), HostedNext(s), ~Commit(s),
           UNCHANGED <<sqliteVars, backend>>
    PROVE  HostedKeeps(s)
<1>1. CASE BeginCall(s) /\ UNCHANGED hostedVars BY <1>1, BeginKeeps
<1>2. CASE Upsert(s) BY <1>2, UpsertKeeps
<1>3. CASE Supersede(s) BY <1>3, SupersedeKeeps
<1>4. CASE SupersedeFails(s) BY <1>4, SupersedeFailsKeeps
<1>5. CASE Get(s) \/ Forget(s) BY <1>5, IdCallKeeps
<1>6. CASE Context(s) BY <1>6, ContextKeeps
<1>7. CASE TouchOne(s) BY <1>7, TouchOneKeeps
<1>8. CASE CallFails(s) \/ ContextFails(s) \/ RunFails(s) \/ Crash(s)
  BY <1>8, EndKeeps
<1> QED
  BY <1>1, <1>2, <1>3, <1>4, <1>5, <1>6, <1>7, <1>8
  DEF HostedNext, HostedStep, Victim, DbFault

\* A transaction that commits makes its writes one step of the table.
LEMMA CommitIsPut ==
    ASSUME Types, Minted, NEW s \in Sessions, call[s] \in Put, PutDone(s),
           rows' = Seen(s), acked' = [acked EXCEPT ![call[s].id] = @ + 1]
    PROVE  PutStep
<1> DEFINE put == call[s]
           row == Upserted(rows, put)
<1>1. IsTable(rows) BY DEF Types
<1>2. row \in Heads BY <1>1, UpsertedRow DEF Heads
<1>3. pend[s][put.id] = row BY DEF PutDone
<1>4. put.id \in Episodes => put.id \notin DOMAIN rows BY DEF Minted
<1>5. IsPut(rows, put, row, rows')
  <2>1. CASE DOMAIN pend[s] = {put.id}
    <3> HIDE DEF row
    <3>1. Seen(s) = With(rows, put.id, row) BY <2>1, <1>3 DEF Seen, With
    <3> QED BY <3>1 DEF IsPut
  <2>2. CASE /\ DOMAIN pend[s] = {put.id, put.old}
             /\ Supersedes(rows, put)
             /\ pend[s][put.old] = Superseded(rows[put.old], put.id)
    <3> DEFINE sup == Superseded(rows[put.old], put.id)
    <3>1. put.old # put.id BY <2>2 DEF Supersedes
    <3>2. pend[s][put.old] = sup BY <2>2
    <3> HIDE DEF row, sup
    <3>3. Seen(s) = With(With(rows, put.id, row), put.old, sup)
      BY <2>2, <3>1, <3>2, <1>3 DEF Seen, With
    <3> QED BY <2>2, <3>3 DEF IsPut, sup
  <2> QED BY <2>1, <2>2 DEF PutDone
<1> HIDE DEF row
<1>6. PutStep BY <1>2, <1>4, <1>5 DEF PutStep, row
<1> QED BY <1>6

\* Whatever the call, a commit is one step of the table, and adds no record but
\* that of its put.
LEMMA CommitSteps ==
    ASSUME Types, Minted, NEW s \in Sessions, HostedOwn(s), Commit(s),
           UNCHANGED <<sqliteVars, backend>>
    PROVE  /\ TableStep /\ Moves(s) /\ Alone(s) /\ HostedOwn(s)'
           /\ DOMAIN rows' \subseteq
                  DOMAIN rows \cup (IF call[s] \in Put THEN {call[s].id} ELSE {})
           /\ \A id \in Ids \ DOMAIN pend[s] :
                  /\ id \in DOMAIN rows' <=> id \in DOMAIN rows
                  /\ id \in DOMAIN rows => rows'[id] = rows[id]
<1>1. Functions /\ SessionTypes(s) BY DEF Types
<1>2. /\ pc[s] = "finish" /\ rows' = Seen(s) /\ Acknowledge(s) /\ Drop(s)
      /\ Goto(s, "idle") /\ call' = [call EXCEPT ![s] = None] /\ UNCHANGED left
  BY DEF Commit, Return
<1>3. /\ Alone(s) /\ DOMAIN pend'[s] = {} /\ DOMAIN todo' = Sessions
      /\ \A t \in Sessions \ {s} : todo'[t] = todo[t]
  BY <1>1, <1>2, DropAlone
<1>4. Moves(s) BY <1>2, <1>3, HostedMoves DEF Places
<1>5. pc'[s] = "idle" BY <1>1, <1>2 DEF Functions, Goto
<1>6. HostedOwn(s)' BY <1>3, <1>5 DEF HostedOwn
<1>7. \A id \in Ids \ DOMAIN pend[s] :
          /\ id \in DOMAIN rows' <=> id \in DOMAIN rows
          /\ id \in DOMAIN rows => rows'[id] = rows[id]
  BY <1>2 DEF Seen
<1>8. TableStep
      /\ DOMAIN rows' \subseteq
             DOMAIN rows \cup (IF call[s] \in Put THEN {call[s].id} ELSE {})
  <2>1. CASE call[s] \in Put
    <3>1. PutDone(s) BY <2>1, <1>2 DEF HostedOwn
    <3>2. PutStep BY <2>1, <3>1, <1>2, CommitIsPut DEF Acknowledge
    <3>3. DOMAIN pend[s] \subseteq DOMAIN rows \cup {call[s].id}
      BY <3>1 DEF PutDone, Supersedes
    <3> QED BY <2>1, <3>2, <3>3, <1>2 DEF TableStep, Seen
  <2>2. CASE call[s] \in Ids
    <3>1. IdDone(s) /\ call[s] \notin Put BY <2>2, <1>2, PutFacts DEF HostedOwn
    <3>2. acked' = acked BY <3>1, <1>2 DEF Acknowledge
    <3>3. DOMAIN rows' = DOMAIN rows BY <3>1, <1>2 DEF IdDone, Seen
    <3>4. CASE DOMAIN pend[s] = {}
      <4>1. IsUse(rows, {}, rows') BY <3>4, <1>2 DEF IsUse, Seen
      <4> QED BY <4>1, <3>2, <3>3 DEF TableStep, MarkStep
    <3>5. CASE /\ DOMAIN pend[s] = {call[s]} /\ call[s] \in DOMAIN rows
               /\ pend[s][call[s]] = Bumped(rows[call[s]])
      <4>1. IsUse(rows, {call[s]}, rows') BY <3>5, <1>2 DEF IsUse, Seen
      <4> QED BY <4>1, <3>2, <3>3, <3>5 DEF TableStep, MarkStep
    <3>6. CASE /\ DOMAIN pend[s] = {call[s]} /\ call[s] \in DOMAIN rows
               /\ rows[call[s]].live /\ pend[s][call[s]] = Forgotten(rows[call[s]])
      <4>1. IsForget(rows, call[s], rows') BY <3>6, <1>2 DEF IsForget, Seen
      <4> QED BY <4>1, <3>2, <3>3, <3>6 DEF TableStep, MarkStep
    <3> QED BY <3>1, <3>4, <3>5, <3>6 DEF IdDone
  <2>3. CASE call[s] = None
    <3>1. UseDone(s) /\ call[s] \notin Put BY <2>3, <1>2, PutFacts DEF HostedOwn
    <3>2. acked' = acked BY <3>1, <1>2 DEF Acknowledge
    <3>3. DOMAIN pend[s] \subseteq DOMAIN rows BY <3>1 DEF UseDone
    <3>4. IsUse(rows, DOMAIN pend[s], rows') BY <3>1, <1>2 DEF IsUse, Seen, UseDone
    <3>5. DOMAIN rows' = DOMAIN rows BY <3>4 DEF IsUse
    <3> QED BY <3>2, <3>3, <3>4, <3>5 DEF TableStep, MarkStep
  <2> QED BY <2>1, <2>2, <2>3, <1>1, PutFacts DEF SessionTypes
<1> QED BY <1>3, <1>4, <1>6, <1>7, <1>8

\* What another session has written is locked, so it is still what it makes of the
\* rows.
LEMMA OthersOwn ==
    ASSUME Types, NEW s \in Sessions, NEW t \in Sessions, t # s, HostedOwn(t), Elsewhere(s),
           DOMAIN rows \subseteq DOMAIN rows',
           \A id \in DOMAIN pend[t] :
               /\ id \in DOMAIN rows' <=> id \in DOMAIN rows
               /\ id \in DOMAIN rows => rows'[id] = rows[id]
    PROVE  HostedOwn(t)'
<1>1. pc'[t] = pc[t] /\ call'[t] = call[t] /\ pend'[t] = pend[t] /\ todo'[t] = todo[t]
  BY DEF Elsewhere
<1>2. PutDone(t) => PutDone(t)'
  <2>1. SUFFICES ASSUME PutDone(t) PROVE PutDone(t)' OBVIOUS
  <2>2. call[t].id \in DOMAIN pend[t] BY <2>1 DEF PutDone
  <2>3. Upserted(rows, call[t]) = Upserted(rows', call[t]) BY <2>2 DEF Upserted
  <2>4. CASE DOMAIN pend[t] = {call[t].id} BY <2>1, <2>3, <2>4, <1>1 DEF PutDone
  <2>5. CASE /\ DOMAIN pend[t] = {call[t].id, call[t].old}
             /\ Supersedes(rows, call[t])
             /\ pend[t][call[t].old] = Superseded(rows[call[t].old], call[t].id)
    <3>1. rows'[call[t].old] = rows[call[t].old] /\ Supersedes(rows', call[t])
      BY <2>5 DEF Supersedes
    <3> QED BY <2>1, <2>3, <2>5, <3>1, <1>1 DEF PutDone
  <2> QED BY <2>1, <2>4, <2>5 DEF PutDone
<1>3. IdDone(t) => IdDone(t)' BY <1>1 DEF IdDone
<1>4. UseDone(t) => UseDone(t)' BY <1>1 DEF UseDone
<1>5. todo[t] \in Seq(DOMAIN rows) => todo[t] \in Seq(DOMAIN rows') OBVIOUS
<1> QED BY <1>1, <1>2, <1>3, <1>4, <1>5 DEF HostedOwn

-----------------------------------------------------------------------------
(* Minted ids.                                                             *)

\* A put that begins has an id of its own.
LEMMA BeginMinted ==
    ASSUME Types, Minted, NEW s \in Sessions, BeginCall(s)
    PROVE  Minted'
<1>1. Functions BY DEF Types
<1>2. PICK place, about :
          /\ Begin(s, place, about)
          /\ about \in Put /\ about.id \in Episodes =>
                 /\ about.id \notin DOMAIN rows
                 /\ \A t \in Sessions : call[t] \in Put => call[t].id # about.id
  <2>1. CASE BeginPut(s)
    <3>1. PICK put \in Puts :
              /\ put.id \in Episodes =>
                     /\ put.id \notin DOMAIN rows
                     /\ \A t \in Sessions : call[t] \in Put => call[t].id # put.id
              /\ Begin(s, "put", put)
      BY <2>1 DEF BeginPut
    <3> QED BY <3>1
  <2>2. CASE BeginGet(s)
    <3>1. PICK id \in Ids : Begin(s, "get", id) BY <2>2 DEF BeginGet
    <3>2. id \notin Put BY PutFacts
    <3> QED BY <3>1, <3>2
  <2>3. CASE BeginForget(s)
    <3>1. PICK id \in Ids : Begin(s, "forget", id) BY <2>3 DEF BeginForget
    <3>2. id \notin Put BY PutFacts
    <3> QED BY <3>1, <3>2
  <2>4. CASE BeginContext(s)
    <3>1. Begin(s, "context", None) BY <2>4 DEF BeginContext
    <3>2. None \notin Put BY RowsAssumption
    <3> QED BY <3>1, <3>2
  <2> QED BY <2>1, <2>2, <2>3, <2>4 DEF BeginCall
<1>3. call' = [call EXCEPT ![s] = about] /\ UNCHANGED rows BY <1>2 DEF Begin
<1>4. /\ call'[s] = about
      /\ \A t \in Sessions : t # s => call'[t] = call[t]
  BY <1>1, <1>3 DEF Functions
<1> QED BY <1>2, <1>3, <1>4 DEF Minted

\* A call that ends leaves the table at most the record of its put.
LEMMA OthersMinted ==
    ASSUME Types, Minted, NEW s \in Sessions,
           \/ /\ call' \in {call, [call EXCEPT ![s] = None]}
              /\ DOMAIN rows' \subseteq DOMAIN rows
           \/ /\ call' = [call EXCEPT ![s] = None]
              /\ DOMAIN rows' \subseteq
                     DOMAIN rows \cup (IF call[s] \in Put THEN {call[s].id} ELSE {})
    PROVE  Minted'
<1>1. Functions BY DEF Types
<1>2. None \notin Put BY RowsAssumption
<1>3. ASSUME NEW t \in Sessions, call'[t] \in Put
      PROVE  /\ call'[t] = call[t]
             /\ call[t].id \in Episodes => call[t].id \notin DOMAIN rows'
  <2>1. call'[t] = call[t] BY <1>1, <1>2, <1>3 DEF Functions
  <2>2. CASE DOMAIN rows' \subseteq DOMAIN rows BY <2>1, <2>2, <1>3 DEF Minted
  <2>3. CASE /\ call' = [call EXCEPT ![s] = None]
             /\ DOMAIN rows' \subseteq
                    DOMAIN rows \cup (IF call[s] \in Put THEN {call[s].id} ELSE {})
    <3>1. t # s BY <2>3, <1>1, <1>2, <1>3 DEF Functions
    <3> QED BY <3>1, <2>1, <2>3, <1>3 DEF Minted
  <2> QED BY <2>1, <2>2, <2>3
<1> QED BY <1>3 DEF Minted

\* Over the hosted store.
LEMMA HostedMinted ==
    ASSUME Types, Minted, NEW s \in Sessions, HostedNext(s),
           HostedOwn(s), UNCHANGED <<sqliteVars, backend>>
    PROVE  Minted'
<1>1. CASE BeginCall(s) BY <1>1, BeginMinted
<1>2. CASE Commit(s)
  <2>1. call' = [call EXCEPT ![s] = None] BY <1>2 DEF Commit, Return
  <2> QED BY <1>2, <2>1, CommitSteps, OthersMinted
<1>3. CASE ~BeginCall(s) /\ ~Commit(s)
  <2>1. UNCHANGED rows /\ call' \in {call, [call EXCEPT ![s] = None]}
    BY <1>3
    DEF HostedNext, HostedStep, Victim, DbFault, Crash, Upsert, Supersede, SupersedeFails,
        Get, Forget, Context, TouchOne, CallFails, ContextFails, RunFails, Return
  <2> QED BY <2>1, OthersMinted
<1> QED BY <1>1, <1>2, <1>3

\* The hosted invariant is kept, and the step is one of the table.
LEMMA HostedInvariant ==
    ASSUME IInv, backend = "hosted", NEW s \in Sessions, HostedNext(s),
           UNCHANGED <<sqliteVars, backend>>
    PROVE  TableStep /\ IInv'
<1>1. /\ Types /\ Minted /\ Locks /\ \A t \in Sessions : HostedOwn(t)
  BY DEF IInv, HostedInv
<1>2. /\ TableStep /\ Moves(s) /\ Alone(s) /\ HostedOwn(s)'
      /\ \A id \in Ids \ DOMAIN pend[s] :
             /\ id \in DOMAIN rows' <=> id \in DOMAIN rows
             /\ id \in DOMAIN rows => rows'[id] = rows[id]
  <2>1. CASE Commit(s) BY <2>1, <1>1, CommitSteps
  <2>2. CASE ~Commit(s)
    <3>1. HostedKeeps(s) BY <2>2, <1>1, HostedStepKeeps
    <3> QED BY <3>1 DEF HostedKeeps, TableStep
  <2> QED BY <2>1, <2>2
<1>3. Types' BY <1>1, <1>2, TypesKept
<1>4. Minted' BY <1>1, HostedMinted
<1>5. DOMAIN rows \subseteq DOMAIN rows' BY <1>1, <1>2, StepsKeepChains DEF Types
<1>6. ASSUME NEW t \in Sessions PROVE HostedOwn(t)'
  <2>1. CASE t = s BY <2>1, <1>2
  <2>2. CASE t # s
    <3>1. DOMAIN pend[t] \cap DOMAIN pend[s] = {} /\ DOMAIN pend[t] \subseteq Ids
      BY <2>2, <1>1 DEF Locks, Types, SessionTypes, IsTable
    <3>2. Elsewhere(s) BY <1>2 DEF Moves
    <3> QED BY <2>2, <3>1, <3>2, <1>1, <1>2, <1>5, OthersOwn
  <2> QED BY <2>1, <2>2
<1>7. Locks' BY <1>1, <1>2 DEF Locks, Alone
<1>8. backend' = "hosted" OBVIOUS
<1> QED BY <1>2, <1>3, <1>4, <1>6, <1>7, <1>8 DEF IInv, HostedInv, LocalInv

-----------------------------------------------------------------------------
(* The local store.                                                        *)

\* Where a local session that has moved may be.
LEMMA LocalMoves ==
    ASSUME Types, NEW s \in Sessions, DOMAIN found' = Sessions,
           \A t \in Sessions \ {s} : found'[t] = found[t],
           UNCHANGED <<hostedVars, storeOf, backend>>,
           NEW place \in {"idle", "decide", "touch"}, Goto(s, place),
           call' \in {call, [call EXCEPT ![s] = None]}, UNCHANGED left,
           place = "decide" => call'[s] \in Put,
           place = "touch" => call'[s] = None
    PROVE  Moves(s) /\ pc'[s] = place
<1>1. Functions /\ SessionTypes(s) BY DEF Types
<1>2. place \in Places BY DEF Places
<1>3. /\ pc' \in [Sessions -> Places] /\ pc'[s] = place
      /\ call' \in [Sessions -> Puts \cup Ids \cup {None}]
      /\ call'[s] \in {call[s], None}
      /\ left' \in [Sessions -> 0 .. MaxCalls]
      /\ \A t \in Sessions \ {s} :
             pc'[t] = pc[t] /\ call'[t] = call[t] /\ left'[t] = left[t]
  BY <1>1, <1>2, MoveTypes
<1>4. UNCHANGED <<pend, todo, storeOf, backend>> BY DEF hostedVars
<1>5. Functions' BY <1>1, <1>3, <1>4 DEF Functions
<1>6. SessionTypes(s)' BY <1>1, <1>3, <1>4, <1>5 DEF SessionTypes, Functions
<1>7. Elsewhere(s) BY <1>3, <1>4 DEF Elsewhere
<1> QED BY <1>3, <1>5, <1>6, <1>7 DEF Moves

\* With one connection, no other session holds the lock.
HoldsLock(s) ==
    OneConnection => \A t \in Sessions \ {s} : pc[t] \notin {"decide", "touch"}

\* A call holds it alone whether it has just found it free or took it before.
LEMMA LockHeld ==
    ASSUME NEW s \in Sessions, Served, LockFree(s) \/ pc[s] \in {"decide", "touch"}
    PROVE  HoldsLock(s)
<1>1. CASE LockFree(s) BY <1>1 DEF LockFree, OneConnection, HoldsLock
<1>2. CASE pc[s] \in {"decide", "touch"} BY <1>2 DEF Served, HoldsLock
<1> QED BY <1>1, <1>2

\* A step of a local session: it changes the table, or goes inside a call, only
\* with its store's lock.
LocalKeeps(s) ==
    /\ TableStep /\ Moves(s) /\ LocalOwn(s)'
    /\ HoldsLock(s) \/ (UNCHANGED rows /\ pc'[s] \notin {"decide", "touch"})

\* A call begins.
LEMMA BeginLocally ==
    ASSUME Types, NEW s \in Sessions, BeginCall(s),
           UNCHANGED <<hostedVars, sqliteVars, backend>>
    PROVE  LocalKeeps(s)
<1>1. /\ Moves(s) /\ UNCHANGED <<rows, acked>>
      /\ pc'[s] \in {"put", "get", "forget", "context"}
  BY BeginMoves
<1>2. LocalOwn(s)' BY <1>1 DEF LocalOwn
<1> QED BY <1>1, <1>2 DEF LocalKeeps, TableStep

\* memory_put looks for its row.
LEMMA DecideKeeps ==
    ASSUME Types, Served, NEW s \in Sessions, Decide(s),
           UNCHANGED <<hostedVars, backend>>
    PROVE  LocalKeeps(s)
<1> DEFINE seen == IF call[s].id \in DOMAIN rows THEN rows[call[s].id] ELSE None
<1>1. Functions /\ SessionTypes(s) /\ IsTable(rows) BY DEF Types
<1>2. /\ pc[s] = "put" /\ LockFree(s) /\ found' = [found EXCEPT ![s] = seen]
      /\ Goto(s, "decide") /\ UNCHANGED <<rows, call, left, acked, storeOf>>
  BY DEF Decide
<1>3. seen \in Row \cup {None} /\ (seen # None => call[s].id \in DOMAIN rows)
  BY <1>1 DEF IsTable
<1>4. call'[s] \in Put BY <1>1, <1>2 DEF SessionTypes
<1>5. /\ DOMAIN found' = Sessions /\ found'[s] = seen
      /\ \A t \in Sessions \ {s} : found'[t] = found[t]
  BY <1>1, <1>2 DEF Functions
<1>6. Moves(s) /\ pc'[s] = "decide" BY <1>2, <1>4, <1>5, LocalMoves
<1>7. LocalOwn(s)' BY <1>2, <1>3, <1>5, <1>6 DEF LocalOwn
<1> QED BY <1>2, <1>6, <1>7, LockHeld DEF LocalKeeps, TableStep

\* The write is a put of the row the SELECT returned, which is the row there is
\* when nobody has come between.
LEMMA SqlitePutIsPut ==
    ASSUME Types, Minted, backend = "local", NEW s \in Sessions, LocalOwn(s), SqlitePut(s)
    PROVE  PutStep /\ DOMAIN rows' \subseteq DOMAIN rows \cup {call[s].id}
<1> DEFINE put == call[s]
           row == IF found[s] = None THEN Inserted(put) ELSE Overwritten(s)
<1>1. SessionTypes(s) /\ IsTable(rows) BY DEF Types
<1>2. /\ pc[s] = "decide" /\ (found[s] = None => put.id \notin DOMAIN rows)
      /\ rows' = IF Supersedes(WithPut(s), put)
                 THEN With(WithPut(s), put.old, Superseded(rows[put.old], put.id))
                 ELSE WithPut(s)
      /\ Acknowledge(s)
  BY DEF SqlitePut
<1>3. put \in Put BY <1>1, <1>2 DEF SessionTypes
<1>4. /\ found[s] \in Row \cup {None} /\ (found[s] # None => put.id \in DOMAIN rows)
      /\ OneConnection =>
             found[s] = IF put.id \in DOMAIN rows THEN rows[put.id] ELSE None
  BY <1>2 DEF LocalOwn
<1>5. row \in Heads
  <2>1. CASE found[s] = None BY <2>1, <1>3, InsertedRow DEF Heads
  <2>2. CASE found[s] # None
    <3>1. rows[put.id] \in Row /\ found[s] \in Row BY <2>2, <1>1, <1>4 DEF IsTable
    <3>2. rows[put.id].hits \in Nat BY <3>1, RowFacts
    <3>3. Overwritten(s) \in Row /\ Overwritten(s).sup = None
      BY <3>1, <3>2, <1>3, OverwrittenRow DEF Overwritten
    <3> QED BY <2>2, <3>3 DEF Heads
  <2> QED BY <2>1, <2>2
<1>6. Arbitrated => row = Upserted(rows, put)
  <2>1. SUFFICES ASSUME OneConnection PROVE row = Upserted(rows, put)
    BY DEF Arbitrated
  <2>2. CASE put.id \notin DOMAIN rows BY <2>1, <2>2, <1>4 DEF Upserted
  <2>3. CASE put.id \in DOMAIN rows
    <3>1. rows[put.id] \in Row /\ found[s] = rows[put.id]
      BY <2>1, <2>3, <1>1, <1>4 DEF IsTable
    <3>2. found[s] # None /\ rows[put.id].hits \in Nat BY <3>1, RowFacts
    <3>3. Overwritten(s) = Revised(found[s], put)
      BY <3>1, <3>2, <1>3, OverwrittenRow DEF Overwritten
    <3> QED BY <2>3, <3>1, <3>2, <3>3 DEF Upserted
  <2> QED BY <2>2, <2>3
<1>7. WithPut(s) = With(rows, put.id, row) BY DEF WithPut
<1> HIDE DEF row
<1>8. Supersedes(WithPut(s), put) <=> Supersedes(rows, put)
  BY <1>7 DEF Supersedes, With
<1>9. IsPut(rows, put, row, rows') BY <1>2, <1>7, <1>8 DEF IsPut
<1>10. acked' = [acked EXCEPT ![put.id] = @ + 1] BY <1>2, <1>3 DEF Acknowledge
<1>11. put.id \in Episodes => put.id \notin DOMAIN rows BY <1>3 DEF Minted
<1>12. PutStep BY <1>3, <1>5, <1>6, <1>9, <1>10, <1>11 DEF PutStep
<1>13. DOMAIN rows' \subseteq DOMAIN rows \cup {put.id}
  BY <1>9 DEF IsPut, With, Supersedes
<1> QED BY <1>12, <1>13

\* A call that returns is one step of the table, whichever it was.
LEMMA ReturnKeeps ==
    ASSUME Types, Minted, Served, backend = "local", NEW s \in Sessions, LocalOwn(s),
           SqlitePut(s) \/ SqliteGet(s) \/ SqliteForget(s) \/ TouchAll(s) \/ SqliteFails(s),
           UNCHANGED <<hostedVars, backend>>
    PROVE  /\ LocalKeeps(s) /\ call' = [call EXCEPT ![s] = None]
           /\ DOMAIN rows' \subseteq
                  DOMAIN rows \cup (IF call[s] \in Put THEN {call[s].id} ELSE {})
<1>1. Functions /\ SessionTypes(s) /\ IsTable(rows) BY DEF Types
<1>2. /\ Goto(s, "idle") /\ call' = [call EXCEPT ![s] = None] /\ UNCHANGED <<left, storeOf>>
      /\ found' = [found EXCEPT ![s] = None] \/ UNCHANGED found
  BY DEF SqlitePut, SqliteGet, SqliteForget, TouchAll, SqliteFails, Return, sqliteVars
<1>3. DOMAIN found' = Sessions /\ \A t \in Sessions \ {s} : found'[t] = found[t]
  BY <1>1, <1>2 DEF Functions
<1>4. Moves(s) /\ pc'[s] = "idle" BY <1>2, <1>3, LocalMoves
<1>5. LocalOwn(s)' BY <1>4 DEF LocalOwn
<1>6. /\ TableStep
      /\ DOMAIN rows' \subseteq
             DOMAIN rows \cup (IF call[s] \in Put THEN {call[s].id} ELSE {})
      /\ HoldsLock(s) \/ UNCHANGED rows
  <2>1. CASE SqlitePut(s)
    <3>1. call[s] \in Put /\ pc[s] = "decide" BY <2>1, <1>1 DEF SqlitePut, SessionTypes
    <3>2. PutStep /\ DOMAIN rows' \subseteq DOMAIN rows \cup {call[s].id}
      BY <2>1, SqlitePutIsPut
    <3> QED BY <3>1, <3>2, LockHeld DEF TableStep
  <2>2. CASE SqliteGet(s)
    <3>1. LockFree(s) /\ acked' = acked
          /\ rows' = IF call[s] \in DOMAIN rows
                     THEN [rows EXCEPT ![call[s]] = Bumped(@)] ELSE rows
      BY <2>2 DEF SqliteGet
    <3>2. CASE call[s] \in DOMAIN rows
      <4>1. IsUse(rows, {call[s]}, rows') BY <3>1, <3>2 DEF IsUse
      <4> QED BY <4>1, <3>1, <3>2, LockHeld DEF TableStep, MarkStep
    <3>3. CASE call[s] \notin DOMAIN rows BY <3>1, <3>3 DEF TableStep
    <3> QED BY <3>2, <3>3
  <2>3. CASE SqliteForget(s)
    <3>1. LockFree(s) /\ acked' = acked
          /\ rows' = IF call[s] \in DOMAIN rows /\ rows[call[s]].live
                     THEN [rows EXCEPT ![call[s]] = Forgotten(@)] ELSE rows
      BY <2>3 DEF SqliteForget
    <3>2. CASE call[s] \in DOMAIN rows /\ rows[call[s]].live
      <4>1. IsForget(rows, call[s], rows') BY <3>1, <3>2 DEF IsForget
      <4> QED BY <4>1, <3>1, <3>2, LockHeld DEF TableStep, MarkStep
    <3>3. CASE ~(call[s] \in DOMAIN rows /\ rows[call[s]].live)
      BY <3>1, <3>3 DEF TableStep
    <3> QED BY <3>2, <3>3
  <2>4. CASE TouchAll(s)
    <3> DEFINE used == {id \in DOMAIN rows : \E i \in DOMAIN found[s] : found[s][i] = id}
    <3>1. /\ pc[s] = "touch" /\ acked' = acked
          /\ rows' = [id \in DOMAIN rows |->
                         IF \E i \in DOMAIN found[s] : found[s][i] = id
                         THEN Bumped(rows[id]) ELSE rows[id]]
      BY <2>4 DEF TouchAll
    <3>2. IsUse(rows, used, rows') BY <3>1 DEF IsUse
    <3>3. DOMAIN rows' = DOMAIN rows BY <3>1
    <3>4. used \in SUBSET DOMAIN rows OBVIOUS
    <3> QED BY <3>1, <3>2, <3>3, <3>4, LockHeld DEF TableStep, MarkStep
  <2>5. CASE SqliteFails(s) BY <2>5 DEF SqliteFails, TableStep
  <2> QED BY <2>1, <2>2, <2>3, <2>4, <2>5
<1> QED BY <1>2, <1>4, <1>5, <1>6 DEF LocalKeeps

\* memory_context has chosen its rows.
LEMMA SqliteContextKeeps ==
    ASSUME Types, Served, NEW s \in Sessions, SqliteContext(s),
           UNCHANGED <<hostedVars, backend>>
    PROVE  LocalKeeps(s)
<1>1. Functions /\ SessionTypes(s) BY DEF Types
<1>2. /\ pc[s] = "context" /\ LockFree(s) /\ Goto(s, "touch")
      /\ UNCHANGED <<rows, call, left, acked, storeOf>>
  BY DEF SqliteContext
<1>3. DOMAIN found' = Sessions /\ \A t \in Sessions \ {s} : found'[t] = found[t]
  BY <1>1 DEF SqliteContext, Functions
<1>4. call'[s] = None BY <1>1, <1>2 DEF SessionTypes
<1>5. Moves(s) /\ pc'[s] = "touch" BY <1>2, <1>3, <1>4, LocalMoves
<1>6. LocalOwn(s)' BY <1>5 DEF LocalOwn
<1> QED BY <1>2, <1>5, <1>6, LockHeld DEF LocalKeeps, TableStep

\* The local invariant is kept, and the step is one of the table.
LEMMA LocalInvariant ==
    ASSUME IInv, backend = "local", NEW s \in Sessions, SqliteNext(s),
           UNCHANGED <<hostedVars, backend>>
    PROVE  TableStep /\ IInv'
<1>1. /\ Types /\ Minted /\ Served /\ \A t \in Sessions : LocalOwn(t)
  BY DEF IInv, LocalInv
<1>2. LocalKeeps(s) /\ Minted'
  <2>1. CASE BeginCall(s) /\ UNCHANGED sqliteVars
    BY <2>1, <1>1, BeginLocally, BeginMinted
  <2>2. CASE Decide(s)
    <3>1. UNCHANGED <<rows, call>> BY <2>2 DEF Decide
    <3> QED BY <2>2, <3>1, <1>1, DecideKeeps, OthersMinted
  <2>3. CASE SqliteContext(s)
    <3>1. UNCHANGED <<rows, call>> BY <2>3 DEF SqliteContext
    <3> QED BY <2>3, <3>1, <1>1, SqliteContextKeeps, OthersMinted
  <2>4. CASE SqlitePut(s) \/ SqliteGet(s) \/ SqliteForget(s) \/ TouchAll(s) \/ SqliteFails(s)
    BY <2>4, <1>1, ReturnKeeps, OthersMinted
  <2> QED
    BY <2>1, <2>2, <2>3, <2>4 DEF SqliteNext, SqliteStep, KeyTaken, FileLocked
<1>3. TableStep /\ Moves(s) /\ LocalOwn(s)' BY <1>2 DEF LocalKeeps
<1>4. Types' BY <1>1, <1>3, TypesKept
<1>5. DOMAIN rows \subseteq DOMAIN rows' BY <1>1, <1>3, StepsKeepChains DEF Types
<1>6. /\ UNCHANGED storeOf
      /\ \A t \in Sessions \ {s} :
             pc'[t] = pc[t] /\ call'[t] = call[t] /\ found'[t] = found[t]
  BY <1>3 DEF Moves, Elsewhere
<1>7. OneConnection' <=> OneConnection BY <1>6 DEF OneConnection
<1>8. ASSUME NEW t \in Sessions PROVE LocalOwn(t)'
  <2>1. CASE t = s BY <2>1, <1>3
  <2>2. CASE t # s
    <3>1. OneConnection /\ pc[t] = "decide" => UNCHANGED rows
      BY <2>2, <1>2 DEF LocalKeeps, HoldsLock
    <3> QED BY <2>2, <3>1, <1>1, <1>5, <1>6, <1>7 DEF LocalOwn
  <2> QED BY <2>1, <2>2
<1>9. Served'
  <2>1. SUFFICES ASSUME OneConnection, NEW t \in Sessions, NEW u \in Sessions, t # u
                 PROVE  ~({pc'[t], pc'[u]} \subseteq {"decide", "touch"})
    BY <1>7 DEF Served
  <2>2. CASE t # s /\ u # s BY <2>1, <2>2, <1>1, <1>6 DEF Served
  <2>3. CASE t = s BY <2>1, <2>3, <1>2, <1>6 DEF LocalKeeps, HoldsLock, Served
  <2>4. CASE u = s BY <2>1, <2>4, <1>2, <1>6 DEF LocalKeeps, HoldsLock, Served
  <2> QED BY <2>2, <2>3, <2>4
<1>10. backend' = "local" OBVIOUS
<1> QED BY <1>2, <1>3, <1>4, <1>8, <1>9, <1>10 DEF IInv, HostedInv, LocalInv

-----------------------------------------------------------------------------
(* The theorems.                                                           *)

\* The invariant holds of the empty store.
LEMMA InitInvariant == Init => IInv
<1> SUFFICES ASSUME Init PROVE IInv OBVIOUS
<1>1. /\ rows = <<>> /\ pc = [s \in Sessions |-> "idle"]
      /\ call = [s \in Sessions |-> None] /\ left = [s \in Sessions |-> MaxCalls]
      /\ acked = [id \in Ids |-> 0]
      /\ pend = [s \in Sessions |-> <<>>] /\ todo = [s \in Sessions |-> <<>>]
      /\ found = [s \in Sessions |-> None] /\ backend \in Backends
  BY DEF Init, CallsInit, HostedInit, SqliteInit
<1>2. DOMAIN <<>> = {} OBVIOUS
<1>3. IsTable(<<>>) BY <1>2 DEF IsTable
<1>4. IsFiniteSet(DOMAIN rows) BY <1>1, <1>2, FS_EmptySet
<1>5. MaxCalls \in 0 .. MaxCalls BY CallsAssumption
<1>6. Functions BY <1>1, <1>5 DEF Functions, Places
<1>7. \A s \in Sessions : SessionTypes(s)
  BY <1>1, <1>3, <1>5 DEF SessionTypes, Places
<1>8. Types BY <1>1, <1>3, <1>4, <1>6, <1>7, BackendsAssumption DEF Types
<1>9. HostedInv BY <1>1, <1>2 DEF HostedInv, Locks, HostedOwn
<1>10. LocalInv BY <1>1 DEF LocalInv, Served, LocalOwn
<1>11. Minted BY <1>1, RowsAssumption DEF Minted
<1> QED BY <1>8, <1>9, <1>10, <1>11 DEF IInv

\* Every step keeps it, and is a step of the table.
LEMMA NextInvariant == IInv /\ [Next]_vars => IInv' /\ TableStep
<1>1. ASSUME IInv, Next PROVE IInv' /\ TableStep
  <2>1. PICK s \in Sessions :
            /\ \/ backend = "hosted" /\ HostedNext(s) /\ UNCHANGED sqliteVars
               \/ backend = "local" /\ SqliteNext(s) /\ UNCHANGED hostedVars
            /\ UNCHANGED backend
    BY <1>1 DEF Next
  <2> QED BY <2>1, <1>1, HostedInvariant, LocalInvariant
<1>2. ASSUME IInv, UNCHANGED vars PROVE IInv' /\ TableStep
  <2>1. UNCHANGED <<rows, pc, call, left, acked, pend, todo, storeOf, found, backend>>
    BY <1>2 DEF vars, callVars, hostedVars, sqliteVars
  <2>2. Types' BY <2>1, <1>2 DEF IInv, Types, Functions, SessionTypes
  <2>3. HostedInv'
    BY <2>1, <1>2
    DEF IInv, HostedInv, Locks, HostedOwn, PutDone, IdDone, UseDone
  <2>4. LocalInv' BY <2>1, <1>2 DEF IInv, LocalInv, Served, LocalOwn, OneConnection
  <2>5. Minted' BY <2>1, <1>2 DEF IInv, Minted
  <2>6. TableStep BY <2>1 DEF TableStep
  <2> QED BY <2>2, <2>3, <2>4, <2>5, <2>6 DEF IInv
<1> QED BY <1>1, <1>2

\* Whose store it is does not change.
LEMMA StoresStay == IInv /\ [Next]_vars => UNCHANGED <<backend, storeOf>>
BY DEF Next, HostedNext, SqliteNext, SqliteStep, KeyTaken, FileLocked, Decide, SqlitePut,
       SqliteGet, SqliteForget, SqliteContext, TouchAll, SqliteFails, sqliteVars, vars

\* Over either store, in every reachable state.
THEOREM Invariant == Spec => []IInv
<1> QED BY InitInvariant, NextInvariant, PTL DEF Spec

\* The variables keep their types.
THEOREM TypeCorrect == Spec => []TypeOK
<1>1. IInv => TypeOK BY DEF IInv, Types, SessionTypes, Functions, TypeOK
<1> QED BY <1>1, Invariant, PTL

\* ChainsEnd, for any number of records, sessions and calls over either store
\* (_apply_supersede and the upserts of memory_store.py and
\* memory_store_sqlite.py): following superseded_by ends at a record that exists
\* and that nobody superseded.
THEOREM ChainsAlwaysEnd == Spec => []ChainsEnd
<1>1. Init => ChainsEnd
  <2>1. DOMAIN <<>> = {} OBVIOUS
  <2> QED BY <2>1 DEF Init, CallsInit, ChainsEnd
<1>2. IInv /\ [Next]_vars /\ ChainsEnd => ChainsEnd'
  <2>1. ChainsEnd <=> Linked(rows) BY DEF ChainsEnd, Linked
  <2>2. ChainsEnd' <=> Linked(rows') BY DEF ChainsEnd, Linked
  <2> QED BY <2>1, <2>2, NextInvariant, StepsKeepChains DEF IInv, Types
<1> QED BY <1>1, <1>2, Invariant, PTL DEF Spec

\* VersionCountsPuts: hosted, or locally with one connection, the version of a
\* record is the number of puts of it that were reported to their agents.
THEOREM VersionsCountPuts == Spec => []VersionCountsPuts
<1>1. Init => VersionCountsPuts
  <2>1. DOMAIN <<>> = {} OBVIOUS
  <2> QED BY <2>1 DEF Init, CallsInit, VersionCountsPuts
<1>2. IInv /\ [Next]_vars /\ VersionCountsPuts => VersionCountsPuts'
  <2> SUFFICES ASSUME IInv, [Next]_vars, VersionCountsPuts, Arbitrated', NEW id \in Ids
               PROVE  acked'[id] = IF id \in DOMAIN rows' THEN rows'[id].version ELSE 0
    BY DEF VersionCountsPuts
  <2>1. UNCHANGED <<backend, storeOf>> BY StoresStay
  <2>2. Arbitrated BY <2>1 DEF Arbitrated, OneConnection
  <2> QED BY <2>2, NextInvariant, StepsCountPuts DEF IInv, Types
<1> QED BY <1>1, <1>2, Invariant, PTL DEF Spec

\* MemoryIsAtomic: both stores implement the abstract memory, every change of the
\* table being one put, forget or use of it as it was at that moment.
THEOREM StoresAreAtomic == Spec => MemoryIsAtomic
<1>1. IInv /\ [Next]_vars => [Arbitrated => Atomic!MemoryNext]_rows
  BY NextInvariant, StepsAreAtomic DEF IInv, Types
<1> QED BY <1>1, Invariant, PTL DEF Spec, MemoryIsAtomic

-----------------------------------------------------------------------------
(* What the memory is for: a job finds what an earlier one stored about its *)
(* subject, the block it is given fits, a search finds and orders what it   *)
(* should.  The lists and the sets behind it are put together by folds and  *)
(* orders: InOrder, Selected, FlattenSeq and FoldLeft first.                *)

\* A set of naturals that is not empty has a least one.
LEMMA Least ==
    ASSUME NEW S \in SUBSET Nat, S # {}
    PROVE  \E k \in S : \A j \in S : ~ (j < k)
<1> DEFINE Segments == {0 .. k : k \in S}
<1>1. Segments \subseteq FiniteSubsetsOf(Nat) /\ Segments # {}
  <2>1. ASSUME NEW k \in S PROVE 0 .. k \in FiniteSubsetsOf(Nat)
    <3>1. k \in Nat OBVIOUS
    <3>2. IsFiniteSet(0 .. k) BY <3>1, FS_Interval
    <3> QED BY <3>1, <3>2 DEF FiniteSubsetsOf
  <2> QED BY <2>1
<1>2. PICK x \in Segments :
          \A y \in Segments : <<y, x>> \notin StrictSubsetOrdering(Nat)
  <2> HIDE DEF Segments
  <2> QED BY <1>1, FS_StrictSubsetOrderingWellFounded, WFMin
<1>3. PICK k \in S : x = 0 .. k BY <1>2
<1>4. ASSUME NEW j \in S, j < k PROVE FALSE
  <2>1. 0 .. j \in Segments OBVIOUS
  <2>2. 0 .. j \subseteq 0 .. k /\ k \notin 0 .. j /\ k \in 0 .. k BY <1>4
  <2>3. ASSUME NEW A \in SUBSET Nat, NEW B \in SUBSET Nat, NEW e \in B,
               A \subseteq B, e \notin A
        PROVE  <<A, B>> \in StrictSubsetOrdering(Nat)
    BY <2>3 DEF StrictSubsetOrdering
  <2>4. 0 .. j \in SUBSET Nat /\ 0 .. k \in SUBSET Nat BY <1>4
  <2>5. <<0 .. j, 0 .. k>> \in StrictSubsetOrdering(Nat) BY <2>2, <2>3, <2>4
  <2> QED BY <1>2, <1>3, <2>1, <2>5
<1> QED BY <1>4

\* A relation that puts a set in one order.
Orders(ahead, S) ==
    /\ \A x \in S : <<x, x>> \notin ahead
    /\ \A x, y, z \in S : <<x, y>> \in ahead /\ <<y, z>> \in ahead => <<x, z>> \in ahead
    /\ \A x, y \in S : x = y \/ <<x, y>> \in ahead \/ <<y, x>> \in ahead

\* A finite set is put in that order, all of it: the number of those ahead of an
\* element is its place.
LEMMA OrderedIs ==
    ASSUME NEW S, IsFiniteSet(S), NEW ahead, Orders(ahead, S)
    PROVE  /\ Cardinality(S) \in Nat
           /\ InOrder(S, ahead) \in [1 .. Cardinality(S) -> S]
           /\ \A x \in S : \E k \in 1 .. Cardinality(S) : InOrder(S, ahead)[k] = x
           /\ \A j, k \in 1 .. Cardinality(S) :
                 j < k => <<InOrder(S, ahead)[j], InOrder(S, ahead)[k]>> \in ahead
<1> DEFINE n == Cardinality(S)
           Ahead(x) == {y \in S : <<y, x>> \in ahead}
           Rank(x) == Cardinality(Ahead(x))
           f == InOrder(S, ahead)
<1>1. n \in Nat BY FS_CardinalityType
<1>2. ASSUME NEW x \in S
      PROVE  IsFiniteSet(Ahead(x)) /\ Rank(x) \in Nat /\ Rank(x) < n
  <2>1. Ahead(x) \in SUBSET S /\ x \notin Ahead(x) BY DEF Orders
  <2>2. IsFiniteSet(Ahead(x)) /\ Rank(x) =< n /\ Rank(x) # n BY <2>1, FS_Subset
  <2>3. Rank(x) \in Nat BY <2>2, FS_CardinalityType
  <2> HIDE DEF n, Rank, Ahead
  <2> QED BY <1>1, <2>2, <2>3
<1>3. ASSUME NEW x \in S, NEW y \in S, <<x, y>> \in ahead PROVE Rank(x) < Rank(y)
  <2>1. Ahead(x) \in SUBSET Ahead(y) BY <1>3 DEF Orders
  <2>2. x \in Ahead(y) \ Ahead(x) BY <1>3 DEF Orders
  <2>3. IsFiniteSet(Ahead(y)) /\ Rank(x) \in Nat /\ Rank(y) \in Nat BY <1>2
  <2>4. Rank(x) =< Rank(y) /\ Rank(x) # Rank(y) BY <2>1, <2>2, <2>3, FS_Subset
  <2> HIDE DEF Rank
  <2> QED BY <2>3, <2>4
<1>4. ASSUME NEW x \in S, NEW y \in S, Rank(x) = Rank(y) PROVE x = y
  <2> HIDE DEF Rank
  <2>1. Rank(x) \in Nat /\ Rank(y) \in Nat BY <1>2 DEF Rank
  <2>2. ASSUME <<x, y>> \in ahead PROVE FALSE
    <3>1. Rank(x) < Rank(y) BY <1>3, <2>2
    <3> QED BY <1>4, <2>1, <3>1
  <2>3. ASSUME <<y, x>> \in ahead PROVE FALSE
    <3>1. Rank(y) < Rank(x) BY <1>3, <2>3
    <3> QED BY <1>4, <2>1, <3>1
  <2> QED BY <2>2, <2>3 DEF Orders
<1>5. ASSUME NEW k \in 1 .. n PROVE \E x \in S : Rank(x) = k - 1
  <2> DEFINE T == 0 .. (n - 1)
             rank == [x \in S |-> Rank(x)]
  <2> HIDE DEF Rank
  <2>1. IsFiniteSet(T) /\ Cardinality(T) = n
    <3> HIDE DEF n
    <3>1. n - 1 \in Int /\ 0 \in Int BY <1>1
    <3> QED BY <1>1, <3>1, FS_Interval
  <2>2. rank \in [S -> T]
    <3>1. ASSUME NEW x \in S PROVE Rank(x) \in T
      <4>1. Rank(x) \in Nat /\ Rank(x) < n BY <1>2 DEF Rank
      <4> HIDE DEF n
      <4> QED BY <1>1, <4>1
    <3> HIDE DEF T
    <3> QED BY <3>1
  <2>3. \A x, y \in S : rank[x] = rank[y] => x = y BY <1>4
  <2> HIDE DEF rank
  <2>4. rank \in Injection(S, T) BY <2>2, <2>3 DEF Injection, IsInjective
  <2>5. rank \in Surjection(S, T) BY <2>1, <2>4, FS_Injection
  <2>6. k - 1 \in T BY <1>1
  <2>7. \E x \in S : rank[x] = k - 1 BY <2>5, <2>6 DEF Surjection
  <2> QED BY <2>7 DEF rank
<1>6. ASSUME NEW k \in 1 .. n PROVE f[k] \in S /\ Rank(f[k]) = k - 1
  <2>1. f[k] = CHOOSE x \in S : Rank(x) = k - 1 BY DEF InOrder
  <2>2. \E x \in S : Rank(x) = k - 1 BY <1>5
  <2> HIDE DEF Rank, f, n
  <2> QED BY <2>1, <2>2
<1>7. f = [k \in 1 .. n |-> f[k]]
  <2>1. DOMAIN f = 1 .. n BY DEF InOrder
  <2>2. f \in [1 .. n -> {f[k] : k \in 1 .. n}] BY DEF InOrder
  <2> HIDE DEF f
  <2> QED BY <2>1, <2>2
<1>8. ASSUME NEW x \in S PROVE \E k \in 1 .. n : f[k] = x
  <2> HIDE DEF f, Rank, n
  <2>1. Rank(x) \in Nat /\ Rank(x) < n BY <1>2 DEF Rank
  <2>2. Rank(x) + 1 \in 1 .. n /\ (Rank(x) + 1) - 1 = Rank(x) BY <1>1, <2>1
  <2>3. f[Rank(x) + 1] \in S /\ Rank(f[Rank(x) + 1]) = Rank(x) BY <1>6, <2>2
  <2>4. f[Rank(x) + 1] = x BY <1>4, <2>3
  <2> QED BY <2>2, <2>4
<1>9. ASSUME NEW j \in 1 .. n, NEW k \in 1 .. n, j < k PROVE <<f[j], f[k]>> \in ahead
  <2> HIDE DEF f, Rank
  <2>1. /\ f[j] \in S /\ Rank(f[j]) = j - 1
        /\ f[k] \in S /\ Rank(f[k]) = k - 1
    BY <1>6
  <2>2. <<f[k], f[j]>> \notin ahead
    <3>1. SUFFICES ASSUME <<f[k], f[j]>> \in ahead PROVE FALSE OBVIOUS
    <3>2. Rank(f[k]) < Rank(f[j]) BY <1>3, <2>1, <3>1
    <3> QED BY <2>1, <3>2, <1>9, <1>1
  <2>3. f[j] # f[k] BY <2>1, <1>9, <1>1
  <2> QED BY <2>1, <2>2, <2>3 DEF Orders
<1> HIDE DEF f, n
<1>10. f \in [1 .. n -> S] BY <1>6, <1>7
<1> QED BY <1>1, <1>8, <1>9, <1>10 DEF f, n

\* By position.
LEMMA PlacesOrder ==
    ASSUME NEW S \in SUBSET Nat
    PROVE  Orders({pair \in S \X S : pair[1] < pair[2]}, S)
<1> DEFINE R == {pair \in S \X S : pair[1] < pair[2]}
<1>1. \A x, y \in S : <<x, y>> \in R <=> x < y OBVIOUS
<1>2. \A x \in S : x \in Int OBVIOUS
<1> HIDE DEF R
<1>3. \A x, y, z \in S : x < y /\ y < z => x < z BY <1>2
<1>4. \A x, y \in S : ~ (x < x) /\ (x = y \/ x < y \/ y < x) BY <1>2
<1>5. \A x \in S : <<x, x>> \notin R BY <1>1, <1>4
<1>6. \A x, y, z \in S : <<x, y>> \in R /\ <<y, z>> \in R => <<x, z>> \in R BY <1>1, <1>3
<1>7. \A x, y \in S : x = y \/ <<x, y>> \in R \/ <<y, x>> \in R BY <1>1, <1>4
<1> QED BY <1>5, <1>6, <1>7 DEF Orders, R

\* What Selected selects, and what comes first.
LEMMA SelectedIs ==
    ASSUME NEW T, NEW seq \in Seq(T), NEW places \in SUBSET DOMAIN seq
    PROVE  /\ Selected(seq, places) \in Seq(T)
           /\ Len(Selected(seq, places)) = Cardinality(places)
           /\ Cardinality(places) \in Nat
           /\ \A i \in places :
                 \E k \in DOMAIN Selected(seq, places) : Selected(seq, places)[k] = seq[i]
           /\ \A k \in DOMAIN Selected(seq, places) :
                 \E i \in places : Selected(seq, places)[k] = seq[i]
           /\ \A i \in places : (\A j \in places : i =< j) =>
                 Selected(seq, places) # <<>> /\ Selected(seq, places)[1] = seq[i]
<1> DEFINE R == {pair \in places \X places : pair[1] < pair[2]}
           at == InOrder(places, R)
           n == Cardinality(places)
           s == Selected(seq, places)
<1>1. IsFiniteSet(places) /\ places \in SUBSET Nat
  <2>1. DOMAIN seq = 1 .. Len(seq) /\ Len(seq) \in Nat OBVIOUS
  <2>2. IsFiniteSet(1 .. Len(seq)) BY <2>1, FS_Interval
  <2> QED BY <2>1, <2>2, FS_Subset
<1>2. Orders(R, places) BY <1>1, PlacesOrder
<1>3. /\ n \in Nat /\ at \in [1 .. n -> places]
      /\ \A i \in places : \E k \in 1 .. n : at[k] = i
      /\ \A j, k \in 1 .. n : j < k => <<at[j], at[k]>> \in R
  <2> HIDE DEF R
  <2> QED BY <1>1, <1>2, OrderedIs
<1>4. s = [k \in 1 .. n |-> seq[at[k]]]
  <2>1. s = [k \in DOMAIN at |-> seq[at[k]]] BY DEF Selected
  <2> HIDE DEF at, s
  <2> QED BY <1>3, <2>1
<1>5. \A j, k \in 1 .. n : j < k => at[j] < at[k] BY <1>3
<1>6. \A i \in places : seq[i] \in T OBVIOUS
<1> HIDE DEF R, at, s
<1>7. s \in Seq(T) /\ Len(s) = n /\ DOMAIN s = 1 .. n
  <2> HIDE DEF n
  <2>1. \A k \in 1 .. n : seq[at[k]] \in T BY <1>3, <1>6
  <2>2. s \in [1 .. n -> T] BY <1>4, <2>1
  <2> QED BY <1>3, <2>2
<1>8. \A i \in places : \E k \in DOMAIN s : s[k] = seq[i] BY <1>3, <1>4, <1>7
<1>9. \A k \in DOMAIN s : \E i \in places : s[k] = seq[i] BY <1>3, <1>4, <1>7
<1>10. ASSUME NEW i \in places, \A j \in places : i =< j
       PROVE  s # <<>> /\ s[1] = seq[i]
  <2> HIDE DEF n
  <2>1. PICK k \in 1 .. n : at[k] = i BY <1>3
  <2>2. n > 0 /\ 1 \in 1 .. n BY <1>3
  <2>3. at[1] \in places /\ i =< at[1] BY <1>3, <1>10, <2>2
  <2>4. k = 1
    <3>1. SUFFICES ASSUME k # 1 PROVE FALSE OBVIOUS
    <3>2. 1 < k BY <1>3, <3>1
    <3>3. at[1] < i BY <1>5, <2>1, <2>2, <3>2
    <3> QED BY <1>1, <2>3, <3>3
  <2>5. s[1] = seq[i] BY <1>4, <2>1, <2>2, <2>4
  <2>6. Len(s) # 0 BY <1>7, <2>2
  <2> QED BY <2>5, <2>6
<1> QED BY <1>3, <1>7, <1>8, <1>9, <1>10 DEF s

\* The keys of a sequence, once each, are those it has; its first comes first.
LEMMA OnceIs ==
    ASSUME NEW T, NEW seq \in Seq(T)
    PROVE  /\ Once(seq) \in Seq(T)
           /\ \A i \in DOMAIN seq : \E k \in DOMAIN Once(seq) : Once(seq)[k] = seq[i]
           /\ seq # <<>> => Once(seq) # <<>> /\ Once(seq)[1] = seq[1]
<1> DEFINE first == {i \in DOMAIN seq : \A j \in DOMAIN seq : j < i => seq[j] # seq[i]}
<1>1. first \in SUBSET DOMAIN seq /\ Once(seq) = Selected(seq, first) BY DEF Once
<1>2. DOMAIN seq = 1 .. Len(seq) /\ Len(seq) \in Nat OBVIOUS
<1>3. ASSUME NEW i \in DOMAIN seq PROVE \E j \in first : seq[j] = seq[i]
  <2> DEFINE same == {j \in DOMAIN seq : seq[j] = seq[i]}
  <2>1. same \in SUBSET Nat /\ i \in same BY <1>2
  <2>2. PICK j \in same : \A k \in same : ~ (k < j)
    <3> HIDE DEF same
    <3> QED BY <2>1, Least
  <2> QED BY <2>2
<1>4. seq # <<>> => 1 \in first /\ \A j \in first : 1 =< j
  <2>1. seq # <<>> => 1 \in DOMAIN seq BY <1>2
  <2> QED BY <1>2, <2>1
<1>5. \A i \in DOMAIN seq : \E k \in DOMAIN Once(seq) : Once(seq)[k] = seq[i]
  <2> HIDE DEF first
  <2> QED BY <1>1, <1>3, SelectedIs
<1> HIDE DEF first
<1>6. Selected(seq, first) \in Seq(T) BY <1>1, SelectedIs
<1>7. \A i \in first : (\A j \in first : i =< j) =>
          Selected(seq, first) # <<>> /\ Selected(seq, first)[1] = seq[i]
  BY <1>1, SelectedIs
<1> QED BY <1>1, <1>4, <1>5, <1>6, <1>7

\* The rule by which FlattenSeq joins the first n of some sequences.
JoinRule(f, ss, n) ==
    f = [i \in 1 .. n |-> IF i = 1 THEN ss[i] ELSE f[i - 1] \o ss[i]]

\* There is a function that follows it.
LEMMA JoinsExist ==
    ASSUME NEW ss, NEW n \in Nat
    PROVE  \E f : JoinRule(f, ss, n)
<1> DEFINE Bad == {m \in Nat : ~ \E f : JoinRule(f, ss, m)}
<1>1. ASSUME Bad # {} PROVE FALSE
  <2>1. PICK m \in Bad : \A l \in Bad : ~ (l < m) BY <1>1, Least
  <2>2. CASE m = 0
    <3>1. 1 .. m = {} BY <2>2
    <3>2. JoinRule([i \in 1 .. m |-> 0], ss, m) BY <3>1 DEF JoinRule
    <3> QED BY <2>1, <3>2
  <2>3. CASE m # 0
    <3>1. m \in Nat /\ m - 1 \in Nat /\ m - 1 < m
      <4>1. m \in Nat BY <2>1
      <4> HIDE DEF Bad
      <4> QED BY <4>1, <2>3
    <3>2. m - 1 \notin Bad BY <2>1, <3>1
    <3>3. PICK h : JoinRule(h, ss, m - 1) BY <3>1, <3>2
    <3> DEFINE g == [i \in 1 .. m |-> IF i < m THEN h[i]
                                      ELSE IF m = 1 THEN ss[m] ELSE h[m - 1] \o ss[m]]
    <3> HIDE DEF Bad
    <3>4. ASSUME NEW i \in 1 .. m
          PROVE  g[i] = IF i = 1 THEN ss[i] ELSE g[i - 1] \o ss[i]
      <4>1. CASE i = m
        <5>1. m # 1 => g[m - 1] = h[m - 1] BY <3>1
        <5> QED BY <3>1, <4>1, <5>1
      <4>2. CASE i # m
        <5>1. i \in 1 .. (m - 1) /\ i < m BY <3>1, <4>2
        <5>2. h[i] = IF i = 1 THEN ss[i] ELSE h[i - 1] \o ss[i] BY <3>3, <5>1 DEF JoinRule
        <5>3. i # 1 => g[i - 1] = h[i - 1] BY <3>1, <5>1
        <5> QED BY <5>1, <5>2, <5>3
      <4> QED BY <4>1, <4>2
    <3>5. g = [i \in 1 .. m |-> g[i]] OBVIOUS
    <3> HIDE DEF g
    <3>6. JoinRule(g, ss, m) BY <3>4, <3>5 DEF JoinRule
    <3> QED BY <2>1, <3>6 DEF Bad
  <2> QED BY <2>2, <2>3
<1> QED BY <1>1

\* What a joined sequence holds.
LEMMA JoinHolds ==
    ASSUME NEW T, NEW s \in Seq(T), NEW t \in Seq(T)
    PROVE  /\ s \o t \in Seq(T)
           /\ \A k \in DOMAIN s : k \in DOMAIN (s \o t) /\ (s \o t)[k] = s[k]
           /\ \A k \in DOMAIN t : Len(s) + k \in DOMAIN (s \o t) /\ (s \o t)[Len(s) + k] = t[k]
           /\ \A k \in DOMAIN (s \o t) :
                 \/ k \in DOMAIN s /\ (s \o t)[k] = s[k]
                 \/ k - Len(s) \in DOMAIN t /\ (s \o t)[k] = t[k - Len(s)]
           /\ s # <<>> => s \o t # <<>> /\ (s \o t)[1] = s[1]
           /\ s = <<>> => s \o t = t
<1>1. /\ s \o t \in Seq(T) /\ Len(s \o t) = Len(s) + Len(t)
      /\ \A i \in 1 .. Len(s) + Len(t) : (s \o t)[i] =
             IF i <= Len(s) THEN s[i] ELSE t[i - Len(s)]
  BY ConcatProperties
<1>2. /\ Len(s) \in Nat /\ DOMAIN s = 1 .. Len(s)
      /\ Len(t) \in Nat /\ DOMAIN t = 1 .. Len(t)
      /\ DOMAIN (s \o t) = 1 .. Len(s) + Len(t)
  BY <1>1
<1>3. s # <<>> => Len(s) # 0 BY <1>2
<1> DEFINE st == s \o t
           m == Len(s)
           n == Len(t)
<1> HIDE DEF st, m, n
<1>4. \A k \in 1 .. m : k \in 1 .. m + n /\ st[k] = s[k] BY <1>1, <1>2 DEF st, m, n
<1>5. \A k \in 1 .. n : m + k \in 1 .. m + n /\ st[m + k] = t[k]
  <2>1. ASSUME NEW k \in 1 .. n PROVE m + k \in 1 .. m + n /\ ~ (m + k <= m) /\ (m + k) - m = k
    BY <1>2 DEF m, n
  <2> QED BY <1>1, <2>1 DEF st, m, n
<1>6. ASSUME NEW k \in 1 .. m + n
      PROVE  \/ k \in 1 .. m /\ st[k] = s[k]
             \/ k - m \in 1 .. n /\ st[k] = t[k - m]
  <2>1. IF k <= m THEN k \in 1 .. m ELSE k - m \in 1 .. n BY <1>2 DEF m, n
  <2>2. st[k] = IF k <= m THEN s[k] ELSE t[k - m] BY <1>1 DEF st, m, n
  <2> QED BY <2>1, <2>2
<1>7. s # <<>> => st # <<>> /\ st[1] = s[1]
  <2> SUFFICES ASSUME s # <<>> PROVE st # <<>> /\ st[1] = s[1] OBVIOUS
  <2>1. m \in Nat /\ m # 0 BY <1>2, <1>3 DEF m
  <2>2. 1 \in 1 .. m BY <2>1
  <2>3. st[1] = s[1] BY <1>4, <2>2
  <2>4. Len(st) # 0 BY <1>1, <1>2, <2>1 DEF st, m, n
  <2> QED BY <2>3, <2>4
<1>8. s = <<>> => st = t BY ConcatEmptySeq DEF st
<1> QED BY <1>1, <1>2, <1>4, <1>5, <1>6, <1>7, <1>8 DEF st, m, n

\* A sequence has the elements of the first n of some sequences, and begins with
\* the first of them.
JoinOf(all, ss, n, T) ==
    /\ all \in Seq(T)
    /\ \A i \in 1 .. n : \A j \in DOMAIN ss[i] : \E k \in DOMAIN all : all[k] = ss[i][j]
    /\ \A k \in DOMAIN all : \E i \in 1 .. n : \E j \in DOMAIN ss[i] : all[k] = ss[i][j]
    /\ \A i \in 1 .. n : ss[i] # <<>> /\ (\A j \in 1 .. (i - 1) : ss[j] = <<>>) =>
          all # <<>> /\ all[1] = ss[i][1]

\* FlattenSeq does, of all of them.
LEMMA FlatIs ==
    ASSUME NEW T, NEW ss \in Seq(Seq(T))
    PROVE  JoinOf(FlattenSeq(ss), ss, Len(ss), T)
<1> DEFINE f == CHOOSE f : JoinRule(f, ss, Len(ss))
           Holds(n) == JoinOf(f[n], ss, n, T)
           Bad == {n \in 1 .. Len(ss) : ~ Holds(n)}
<1>1. Len(ss) \in Nat /\ DOMAIN ss = 1 .. Len(ss) /\ \A i \in 1 .. Len(ss) : ss[i] \in Seq(T)
  OBVIOUS
<1>2. FlattenSeq(ss) = IF Len(ss) = 0 THEN ss ELSE f[Len(ss)] BY DEF FlattenSeq, JoinRule
<1>3. JoinRule(f, ss, Len(ss)) BY <1>1, JoinsExist
<1> HIDE DEF f
<1>4. \A n \in 1 .. Len(ss) : f[n] = IF n = 1 THEN ss[n] ELSE f[n - 1] \o ss[n]
  BY <1>3 DEF JoinRule
<1>5. ASSUME Bad # {} PROVE FALSE
  <2>1. Bad \in SUBSET Nat BY <1>1
  <2>2. PICK n \in Bad : \A m \in Bad : ~ (m < n)
    <3> HIDE DEF Bad
    <3> QED BY <1>5, <2>1, Least
  <2>3. n \in 1 .. Len(ss) /\ n \in Nat /\ ss[n] \in Seq(T) /\ n \in 1 .. n BY <1>1, <2>2
  <2>4. CASE n = 1
    <3>1. f[n] = ss[n] /\ 1 .. n = {n} BY <1>4, <2>3, <2>4
    <3>2. Holds(n) BY <2>3, <3>1 DEF JoinOf
    <3> HIDE DEF Holds
    <3> QED BY <2>2, <3>2
  <2>5. CASE n # 1
    <3>1. n - 1 \in 1 .. Len(ss) /\ n - 1 < n /\ 1 .. n = (1 .. (n - 1)) \cup {n}
      BY <1>1, <2>3, <2>5
    <3>2. JoinOf(f[n - 1], ss, n - 1, T)
      <4>1. n - 1 \notin Bad BY <2>2, <3>1
      <4> QED BY <3>1, <4>1
    <3> HIDE DEF Bad, Holds
    <3>3. f[n] = f[n - 1] \o ss[n] BY <1>4, <2>3, <2>5
    <3> DEFINE s == f[n - 1]
               t == ss[n]
    <3>4. s \in Seq(T) /\ t \in Seq(T) BY <2>3, <3>2 DEF JoinOf
    <3>5. /\ s \o t \in Seq(T)
          /\ \A k \in DOMAIN s : k \in DOMAIN (s \o t) /\ (s \o t)[k] = s[k]
          /\ \A k \in DOMAIN t : Len(s) + k \in DOMAIN (s \o t) /\ (s \o t)[Len(s) + k] = t[k]
          /\ \A k \in DOMAIN (s \o t) :
                \/ k \in DOMAIN s /\ (s \o t)[k] = s[k]
                \/ k - Len(s) \in DOMAIN t /\ (s \o t)[k] = t[k - Len(s)]
          /\ s # <<>> => s \o t # <<>> /\ (s \o t)[1] = s[1]
          /\ s = <<>> => s \o t = t
      <4> HIDE DEF s, t
      <4> QED BY <3>4, JoinHolds
    <3>6. ASSUME NEW i \in 1 .. n, NEW j, j \in DOMAIN ss[i]
          PROVE  \E k \in DOMAIN f[n] : f[n][k] = ss[i][j]
      <4>1. CASE i = n
        <5>1. j \in DOMAIN t BY <3>6, <4>1
        <5>2. Len(s) + j \in DOMAIN (s \o t) /\ (s \o t)[Len(s) + j] = t[j]
          BY <3>5, <5>1
        <5> QED BY <3>3, <4>1, <5>2
      <4>2. CASE i # n
        <5>1. i \in 1 .. (n - 1) BY <3>1, <4>2
        <5>2. PICK k \in DOMAIN s : s[k] = ss[i][j] BY <3>2, <3>6, <5>1 DEF JoinOf
        <5>3. k \in DOMAIN (s \o t) /\ (s \o t)[k] = s[k] BY <3>5
        <5> QED BY <3>3, <5>2, <5>3
      <4> QED BY <4>1, <4>2
    <3>7. ASSUME NEW k \in DOMAIN f[n]
          PROVE  \E i \in 1 .. n : \E j \in DOMAIN ss[i] : f[n][k] = ss[i][j]
      <4>1. \/ k \in DOMAIN s /\ (s \o t)[k] = s[k]
            \/ k - Len(s) \in DOMAIN t /\ (s \o t)[k] = t[k - Len(s)]
        BY <3>3, <3>5
      <4>2. CASE k \in DOMAIN s /\ (s \o t)[k] = s[k]
        <5>1. PICK i \in 1 .. (n - 1) : \E j \in DOMAIN ss[i] : s[k] = ss[i][j]
          BY <3>2, <4>2 DEF JoinOf
        <5> QED BY <3>1, <3>3, <4>2, <5>1
      <4>3. CASE k - Len(s) \in DOMAIN t /\ (s \o t)[k] = t[k - Len(s)]
        BY <2>3, <3>3, <4>3
      <4> QED BY <4>1, <4>2, <4>3
    <3>8. ASSUME NEW i \in 1 .. n, ss[i] # <<>>, \A j \in 1 .. (i - 1) : ss[j] = <<>>
          PROVE  f[n] # <<>> /\ f[n][1] = ss[i][1]
      <4>1. CASE i = n
        <5>1. ASSUME s # <<>> PROVE FALSE
          <6>1. 1 \in DOMAIN s BY <3>4, <5>1
          <6>2. PICK m \in 1 .. (n - 1) : \E j \in DOMAIN ss[m] : s[1] = ss[m][j]
            BY <3>2, <6>1 DEF JoinOf
          <6>3. ss[m] = <<>> BY <3>8, <4>1, <6>2
          <6>4. DOMAIN ss[m] = {} BY <6>3
          <6> QED BY <6>2, <6>4
        <5>2. f[n] = t BY <3>3, <3>5, <5>1
        <5> QED BY <3>8, <4>1, <5>2
      <4>2. CASE i # n
        <5>1. i \in 1 .. (n - 1) BY <3>1, <4>2
        <5>2. s # <<>> /\ s[1] = ss[i][1] BY <3>2, <3>8, <5>1 DEF JoinOf
        <5>3. s \o t # <<>> /\ (s \o t)[1] = s[1] BY <3>5, <5>2
        <5> QED BY <3>3, <5>2, <5>3
      <4> QED BY <4>1, <4>2
    <3>9. f[n] \in Seq(T) BY <3>3, <3>5
    <3>10. JoinOf(f[n], ss, n, T) BY <3>6, <3>7, <3>8, <3>9 DEF JoinOf
    <3> QED BY <2>2, <3>10 DEF Bad, Holds
  <2> QED BY <2>4, <2>5
<1>6. CASE Len(ss) = 0
  <2>1. ss = <<>> BY <1>1, <1>6
  <2>2. FlattenSeq(ss) = <<>> /\ 1 .. Len(ss) = {} BY <1>2, <1>6, <2>1
  <2> HIDE DEF Bad, Holds
  <2>3. JoinOf(<<>>, ss, Len(ss), T)
    <3>1. <<>> \in Seq(T) /\ DOMAIN <<>> = {} OBVIOUS
    <3> QED BY <2>2, <3>1, Zenon DEF JoinOf
  <2> QED BY <2>2, <2>3
<1>7. CASE Len(ss) # 0
  <2>1. Len(ss) \in 1 .. Len(ss) BY <1>1, <1>7
  <2>2. Holds(Len(ss))
    <3> HIDE DEF Holds
    <3> QED BY <1>5, <2>1
  <2> QED BY <1>2, <1>7, <2>2
<1> QED BY <1>6, <1>7

\* Lists, one for each of 1 .. n, are a sequence of sequences.
LEMMA ListsAre ==
    ASSUME NEW n \in Nat, NEW ss, DOMAIN ss = 1 .. n, ss = [i \in 1 .. n |-> ss[i]],
           \A i \in 1 .. n : IsList(ss[i])
    PROVE  \E T : ss \in Seq(Seq(T)) /\ Len(ss) = n
<1> DEFINE T == UNION {ToSet(ss[i]) : i \in 1 .. n}
<1>1. ASSUME NEW i \in 1 .. n PROVE ss[i] \in Seq(T)
  <2>1. ss[i] \in Seq(ToSet(ss[i])) BY DEF IsList
  <2>2. ToSet(ss[i]) \subseteq T OBVIOUS
  <2> HIDE DEF T
  <2> QED BY <2>1, <2>2, SeqMonotonic
<1> HIDE DEF T
<1>2. ss \in [1 .. n -> Seq(T)] BY <1>1
<1>3. ss \in Seq(Seq(T)) /\ Len(ss) = n BY <1>2
<1> QED BY <1>3

\* Two lists of lists of the same lengths.
Parallel(tt, kk, n) ==
    /\ DOMAIN tt = 1 .. n /\ tt = [i \in 1 .. n |-> tt[i]] /\ \A i \in 1 .. n : IsList(tt[i])
    /\ DOMAIN kk = 1 .. n /\ kk = [i \in 1 .. n |-> kk[i]] /\ \A i \in 1 .. n : IsList(kk[i])
    /\ \A i \in 1 .. n : DOMAIN kk[i] = DOMAIN tt[i]

\* Two lists that hold what such lists of lists hold, in step.
InStep(t, k, tt, kk, n) ==
    /\ IsList(t) /\ IsList(k)
    /\ t = <<>> => k = <<>>
    /\ t # <<>> =>
          /\ k # <<>>
          /\ \E i \in 1 .. n : 1 \in DOMAIN tt[i] /\ t[1] = tt[i][1] /\ k[1] = kk[i][1]
    /\ \A l \in DOMAIN t :
          \E i \in 1 .. n : \E j \in DOMAIN tt[i] :
             t[l] = tt[i][j] /\ \E m \in DOMAIN k : k[m] = kk[i][j]

\* They are flattened in step.
LEMMA Alike ==
    ASSUME NEW n \in Nat, NEW tt, NEW kk, Parallel(tt, kk, n)
    PROVE  InStep(FlattenSeq(tt), FlattenSeq(kk), tt, kk, n)
<1> DEFINE t == FlattenSeq(tt)
           k == FlattenSeq(kk)
<1>1. PICK T : tt \in Seq(Seq(T)) /\ Len(tt) = n BY ListsAre DEF Parallel
<1>2. PICK K : kk \in Seq(Seq(K)) /\ Len(kk) = n BY ListsAre DEF Parallel
<1>3. JoinOf(t, tt, n, T) BY <1>1, FlatIs
<1>4. JoinOf(k, kk, n, K) BY <1>2, FlatIs
<1> HIDE DEF t, k
<1>5. ASSUME NEW s, NEW S, s \in Seq(S) PROVE IsList(s) /\ (s # <<>> => 1 \in DOMAIN s)
  <2>1. s \in Seq(S) BY <1>5
  <2>2. DOMAIN s = 1 .. Len(s) /\ Len(s) \in Nat BY <2>1
  <2>3. \A i \in 1 .. Len(s) : s[i] \in ToSet(s) BY <2>2 DEF ToSet
  <2>4. s \in Seq(ToSet(s)) BY <2>1, <2>2, <2>3
  <2>5. s # <<>> => Len(s) # 0 BY <2>1
  <2> QED BY <2>2, <2>4, <2>5 DEF IsList
<1>6. t \in Seq(T) /\ k \in Seq(K) BY <1>3, <1>4 DEF JoinOf
<1>7. IsList(t) /\ IsList(k) BY <1>5, <1>6
<1>0. \A i \in 1 .. n : DOMAIN kk[i] = DOMAIN tt[i] BY DEF Parallel
<1>8. \A i \in 1 .. n : tt[i] \in Seq(T) /\ kk[i] \in Seq(K) /\ (tt[i] = <<>> <=> kk[i] = <<>>)
  <2>1. ASSUME NEW i \in 1 .. n PROVE tt[i] \in Seq(T) /\ kk[i] \in Seq(K) BY <1>1, <1>2
  <2>2. ASSUME NEW i \in 1 .. n
        PROVE  (tt[i] = <<>> <=> DOMAIN tt[i] = {}) /\ (kk[i] = <<>> <=> DOMAIN kk[i] = {})
    <3>1. DOMAIN <<>> = {} OBVIOUS
    <3>2. /\ tt[i] # <<>> => 1 \in DOMAIN tt[i]
          /\ kk[i] # <<>> => 1 \in DOMAIN kk[i]
      BY <1>5, <2>1
    <3> QED BY <3>1, <3>2, Zenon
  <2> QED BY <1>0, <2>1, <2>2
<1>9. ASSUME t # <<>>
      PROVE  /\ k # <<>>
             /\ \E i \in 1 .. n : 1 \in DOMAIN tt[i] /\ t[1] = tt[i][1] /\ k[1] = kk[i][1]
  <2> DEFINE full == {i \in 1 .. n : tt[i] # <<>>}
  <2>1. 1 \in DOMAIN t BY <1>5, <1>6, <1>9
  <2>2. PICK i0 \in 1 .. n : \E j \in DOMAIN tt[i0] : t[1] = tt[i0][j] BY <1>3, <2>1 DEF JoinOf
  <2>3. i0 \in full /\ full \in SUBSET Nat BY <2>2
  <2>4. PICK i \in full : \A j \in full : ~ (j < i)
    <3> HIDE DEF full
    <3> QED BY <2>3, Least
  <2>5. i \in 1 .. n /\ tt[i] # <<>> /\ kk[i] # <<>> BY <1>8, <2>4
  <2>6. ASSUME NEW j \in 1 .. (i - 1) PROVE tt[j] = <<>> /\ kk[j] = <<>>
    <3>1. j \in 1 .. n /\ j < i BY <2>5
    <3> QED BY <1>8, <2>4, <3>1
  <2>7. t[1] = tt[i][1] BY <1>3, <2>5, <2>6 DEF JoinOf
  <2>8. k # <<>> /\ k[1] = kk[i][1] BY <1>4, <2>5, <2>6 DEF JoinOf
  <2>9. 1 \in DOMAIN tt[i] BY <1>5, <1>8, <2>5
  <2> QED BY <2>5, <2>7, <2>8, <2>9
<1>10. ASSUME t = <<>> PROVE k = <<>>
  <2>1. SUFFICES ASSUME k # <<>> PROVE FALSE OBVIOUS
  <2>2. 1 \in DOMAIN k BY <1>5, <1>6, <2>1
  <2>3. PICK i \in 1 .. n : \E j \in DOMAIN kk[i] : k[1] = kk[i][j] BY <1>4, <2>2 DEF JoinOf
  <2>4. PICK j \in DOMAIN tt[i] : TRUE BY <1>0, <2>3
  <2>5. \E m \in DOMAIN t : t[m] = tt[i][j] BY <1>3, <2>4 DEF JoinOf
  <2>6. DOMAIN t = {} BY <1>10
  <2> QED BY <2>5, <2>6
<1>11. ASSUME NEW l \in DOMAIN t
       PROVE  \E i \in 1 .. n : \E j \in DOMAIN tt[i] :
                 t[l] = tt[i][j] /\ \E m \in DOMAIN k : k[m] = kk[i][j]
  <2>1. PICK i \in 1 .. n : \E j \in DOMAIN tt[i] : t[l] = tt[i][j] BY <1>3 DEF JoinOf
  <2>2. PICK j \in DOMAIN tt[i] : t[l] = tt[i][j] BY <2>1
  <2>3. \E m \in DOMAIN k : k[m] = kk[i][j] BY <1>0, <1>4, <2>2 DEF JoinOf
  <2> QED BY <2>2, <2>3
<1> QED BY <1>7, <1>9, <1>10, <1>11 DEF InStep, t, k

\* The files of a value are a list.
LEMMA FilesAreLists ==
    ASSUME NEW value, value.is = "files" => IsList(value.of)
    PROVE  IsList(FilesOf(value)) /\ IsList(ImagesOf(value))
           /\ DOMAIN ImagesOf(value) = DOMAIN FilesOf(value)
<1> DEFINE files == CASE value.is = "file" -> <<value.of>>
                      [] value.is = "files" -> value.of
                      [] OTHER -> <<>>
           places == {i \in DOMAIN files : files[i] # NoKey}
           some == FilesOf(value)
<1>1. IsList(files)
  <2>1. CASE value.is = "file"
    <3>1. files = <<value.of>> BY <2>1
    <3>2. <<value.of>> \in Seq({value.of}) /\ ToSet(<<value.of>>) = {value.of} BY DEF ToSet
    <3> QED BY <3>1, <3>2 DEF IsList
  <2>2. CASE value.is = "files"
    <3>1. files = value.of BY <2>2
    <3> QED BY <2>2, <3>1
  <2>3. CASE value.is \notin {"file", "files"}
    <3>1. files = <<>> BY <2>3
    <3>2. <<>> \in Seq(ToSet(<<>>)) OBVIOUS
    <3> QED BY <3>1, <3>2 DEF IsList
  <2> QED BY <2>1, <2>2, <2>3
<1>2. some = Selected(files, places) BY DEF FilesOf
<1> HIDE DEF files
<1>3. PICK T : files \in Seq(T) BY <1>1 DEF IsList
<1>4. some \in Seq(T) BY <1>2, <1>3, SelectedIs
<1> HIDE DEF some
<1>5. /\ Len(some) \in Nat /\ DOMAIN some = 1 .. Len(some)
      /\ some \in [1 .. Len(some) -> ToSet(some)]
  BY <1>4 DEF ToSet
<1> DEFINE n == Len(some)
           keys == [i \in DOMAIN some |-> [img |-> some[i]]]
<1>6. some \in Seq(ToSet(some)) BY <1>5
<1>7. keys \in [1 .. n -> ToSet(keys)] BY <1>5 DEF ToSet
<1>8. keys = ImagesOf(value) BY DEF ImagesOf, some
<1>9. DOMAIN keys = DOMAIN some OBVIOUS
<1> HIDE DEF keys
<1>10. keys \in Seq(ToSet(keys)) BY <1>5, <1>7
<1> QED BY <1>6, <1>8, <1>9, <1>10 DEF IsList, some

\* The pages of a value are a list, each with its site.
LEMMA PagesAreLists ==
    ASSUME NEW value, value.is = "text" => IsList(value.of)
    PROVE  /\ IsList(PagesOf(value)) /\ IsList(SitesOf(value))
           /\ DOMAIN SitesOf(value) = DOMAIN PagesOf(value)
           /\ \A i \in DOMAIN PagesOf(value) :
                 SitesOf(value)[i] = [url |-> Normalized(PagesOf(value)[i])]
<1> DEFINE pages == PagesOf(value)
           keys == [i \in DOMAIN pages |-> [url |-> Normalized(pages[i])]]
           sites == SitesOf(value)
<1>1. \E T : pages \in Seq(T)
  <2>1. CASE value.is = "url"
    <3>1. pages = <<value.of>> BY <2>1 DEF PagesOf
    <3>2. <<value.of>> \in Seq({value.of}) OBVIOUS
    <3> QED BY <3>1, <3>2
  <2>2. CASE value.is = "text"
    <3> DEFINE s == value.of
               m == IF Len(s) < UrlCap THEN Len(s) ELSE UrlCap
    <3>1. s \in Seq(ToSet(s)) BY <2>2 DEF IsList
    <3> HIDE DEF s
    <3>2. pages = SubSeq(s, 1, m) BY <2>2 DEF PagesOf, Extracted, s
    <3>3. Len(s) \in Nat /\ UrlCap \in Nat BY <3>1, TableBound
    <3>4. m \in 0 .. Len(s) BY <3>3
    <3> HIDE DEF m
    <3>5. SubSeq(s, 1, m) \in Seq(ToSet(s))
      <4>1. \A k \in 1 .. m : s[k] \in ToSet(s) BY <3>1, <3>4
      <4> QED BY <3>1, <3>3, <3>4, <4>1, SubSeqProperties
    <3> QED BY <3>2, <3>5
  <2>3. CASE value.is \notin {"url", "text"}
    <3>1. pages = <<>> BY <2>3 DEF PagesOf
    <3>2. <<>> \in Seq({}) OBVIOUS
    <3> QED BY <3>1, <3>2
  <2> QED BY <2>1, <2>2, <2>3
<1>2. PICK T : pages \in Seq(T) BY <1>1
<1>3. sites = keys
  <2>1. CASE value.is = "url"
    <3>1. pages = <<value.of>> BY <2>1 DEF PagesOf
    <3>2. sites = [i \in DOMAIN <<value.of>> |-> [url |-> Normalized(<<value.of>>[i])]]
      BY <2>1 DEF SitesOf
    <3> HIDE DEF pages, sites
    <3> QED BY <3>1, <3>2, Zenon
  <2>2. CASE value.is = "text"
    <3>1. pages = Extracted(value.of) BY <2>2 DEF PagesOf
    <3>2. sites = [i \in DOMAIN Extracted(value.of) |-> [url |-> Normalized(Extracted(value.of)[i])]]
      BY <2>2 DEF SitesOf
    <3> HIDE DEF pages, sites
    <3> QED BY <3>1, <3>2, Zenon
  <2>3. CASE value.is \notin {"url", "text"}
    <3>1. pages = <<>> /\ sites = <<>> BY <2>3 DEF PagesOf, SitesOf
    <3>2. DOMAIN pages = {} BY <3>1
    <3> HIDE DEF pages, sites
    <3> QED BY <3>1, <3>2
  <2> QED BY <2>1, <2>2, <2>3
<1> HIDE DEF pages, sites
<1> DEFINE n == Len(pages)
<1>4. /\ n \in Nat /\ DOMAIN pages = 1 .. n
      /\ pages \in [1 .. n -> ToSet(pages)]
  BY <1>2 DEF ToSet
<1>5. pages \in Seq(ToSet(pages)) BY <1>4
<1>6. keys \in [1 .. n -> ToSet(keys)] BY <1>4 DEF ToSet
<1>7. /\ DOMAIN keys = DOMAIN pages
      /\ \A i \in DOMAIN pages : keys[i] = [url |-> Normalized(pages[i])]
  OBVIOUS
<1> HIDE DEF keys
<1>8. keys \in Seq(ToSet(keys)) BY <1>4, <1>6
<1> QED BY <1>3, <1>5, <1>7, <1>8 DEF IsList, pages, sites

\* The keys of the inputs of a job, image by image and page by page.
Images(inputs) == FlattenSeq([i \in DOMAIN inputs |-> ImagesOf(inputs[i])])
Sites(inputs) == FlattenSeq([i \in DOMAIN inputs |-> SitesOf(inputs[i])])

\* The images of a job's inputs go with its files.
LEMMA ImagesFollow ==
    ASSUME NEW inputs \in JobInputs
    PROVE  /\ IsList(FilesIn(inputs)) /\ IsList(Images(inputs))
           /\ FilesIn(inputs) = <<>> => Images(inputs) = <<>>
           /\ FilesIn(inputs) # <<>> =>
                 /\ Images(inputs) # <<>>
                 /\ Images(inputs)[1] = [img |-> FilesIn(inputs)[1]]
           /\ \A k \in DOMAIN FilesIn(inputs) :
                 \E m \in DOMAIN Images(inputs) : Images(inputs)[m] = [img |-> FilesIn(inputs)[k]]
<1> DEFINE tt == [i \in DOMAIN inputs |-> FilesOf(inputs[i])]
           kk == [i \in DOMAIN inputs |-> ImagesOf(inputs[i])]
           n == Len(inputs)
<1>1. /\ n \in Nat /\ DOMAIN inputs = 1 .. n
      /\ \A i \in 1 .. n : inputs[i].is = "files" => IsList(inputs[i].of)
  <2>1. inputs \in Seq(ToSet(inputs)) BY InputsAssumption DEF IsList
  <2>2. n \in Nat /\ DOMAIN inputs = 1 .. n BY <2>1
  <2> QED BY <2>2, InputsAssumption
<1>2. \A i \in 1 .. n : /\ IsList(FilesOf(inputs[i])) /\ IsList(ImagesOf(inputs[i]))
                        /\ DOMAIN ImagesOf(inputs[i]) = DOMAIN FilesOf(inputs[i])
  BY <1>1, FilesAreLists, Zenon
<1>3. /\ DOMAIN tt = 1 .. n /\ DOMAIN kk = 1 .. n
      /\ tt = [i \in 1 .. n |-> tt[i]] /\ kk = [i \in 1 .. n |-> kk[i]]
      /\ \A i \in 1 .. n : tt[i] = FilesOf(inputs[i]) /\ kk[i] = ImagesOf(inputs[i])
  BY <1>1
<1>4. FilesIn(inputs) = FlattenSeq(tt) /\ Images(inputs) = FlattenSeq(kk) BY DEF FilesIn, Images
<1>5. ASSUME NEW i \in 1 .. n, NEW j, j \in DOMAIN FilesOf(inputs[i])
      PROVE  ImagesOf(inputs[i])[j] = [img |-> FilesOf(inputs[i])[j]]
  BY <1>5 DEF ImagesOf
<1> HIDE DEF tt, kk, n
<1>6. \A i \in 1 .. n : IsList(tt[i]) /\ IsList(kk[i]) /\ DOMAIN kk[i] = DOMAIN tt[i] BY <1>2, <1>3
<1>7. \A i \in 1 .. n : \A j \in DOMAIN tt[i] : kk[i][j] = [img |-> tt[i][j]] BY <1>3, <1>5
<1> DEFINE t == FlattenSeq(tt)
           k == FlattenSeq(kk)
<1>8. InStep(t, k, tt, kk, n)
  <2>1. Parallel(tt, kk, n) BY <1>3, <1>6 DEF Parallel
  <2> QED BY <1>1, <2>1, Alike
<1> HIDE DEF t, k
<1>9. t # <<>> => k # <<>> /\ k[1] = [img |-> t[1]] BY <1>7, <1>8 DEF InStep
<1>10. ASSUME NEW l \in DOMAIN t PROVE \E m \in DOMAIN k : k[m] = [img |-> t[l]]
  <2>1. PICK i \in 1 .. n : \E j \in DOMAIN tt[i] :
                t[l] = tt[i][j] /\ \E m \in DOMAIN k : k[m] = kk[i][j]
    BY <1>8 DEF InStep
  <2> QED BY <1>7, <2>1
<1> QED BY <1>4, <1>8, <1>9, <1>10 DEF InStep, t, k

\* The sites of a job's inputs go with its pages.
LEMMA SitesFollow ==
    ASSUME NEW inputs \in JobInputs
    PROVE  /\ IsList(PagesIn(inputs)) /\ IsList(Sites(inputs))
           /\ PagesIn(inputs) = <<>> => Sites(inputs) = <<>>
           /\ PagesIn(inputs) # <<>> =>
                 /\ Sites(inputs) # <<>>
                 /\ Sites(inputs)[1] = [url |-> Normalized(PagesIn(inputs)[1])]
           /\ \A k \in DOMAIN PagesIn(inputs) :
                 \E m \in DOMAIN Sites(inputs) :
                    Sites(inputs)[m] = [url |-> Normalized(PagesIn(inputs)[k])]
<1> DEFINE tt == [i \in DOMAIN inputs |-> PagesOf(inputs[i])]
           kk == [i \in DOMAIN inputs |-> SitesOf(inputs[i])]
           n == Len(inputs)
<1>1. /\ n \in Nat /\ DOMAIN inputs = 1 .. n
      /\ \A i \in 1 .. n : inputs[i].is = "text" => IsList(inputs[i].of)
  <2>1. inputs \in Seq(ToSet(inputs)) BY InputsAssumption DEF IsList
  <2>2. n \in Nat /\ DOMAIN inputs = 1 .. n BY <2>1
  <2> QED BY <2>2, InputsAssumption
<1>2. ASSUME NEW i \in 1 .. n
      PROVE  /\ IsList(PagesOf(inputs[i])) /\ IsList(SitesOf(inputs[i]))
             /\ DOMAIN SitesOf(inputs[i]) = DOMAIN PagesOf(inputs[i])
             /\ \A j \in DOMAIN PagesOf(inputs[i]) :
                   SitesOf(inputs[i])[j] = [url |-> Normalized(PagesOf(inputs[i])[j])]
  BY <1>1, PagesAreLists, Zenon
<1>3. /\ DOMAIN tt = 1 .. n /\ DOMAIN kk = 1 .. n
      /\ tt = [i \in 1 .. n |-> tt[i]] /\ kk = [i \in 1 .. n |-> kk[i]]
      /\ \A i \in 1 .. n : tt[i] = PagesOf(inputs[i]) /\ kk[i] = SitesOf(inputs[i])
  BY <1>1
<1>4. PagesIn(inputs) = FlattenSeq(tt) /\ Sites(inputs) = FlattenSeq(kk) BY DEF PagesIn, Sites
<1> HIDE DEF tt, kk, n
<1>6. \A i \in 1 .. n : IsList(tt[i]) /\ IsList(kk[i]) /\ DOMAIN kk[i] = DOMAIN tt[i] BY <1>2, <1>3
<1>7. \A i \in 1 .. n : \A j \in DOMAIN tt[i] : kk[i][j] = [url |-> Normalized(tt[i][j])]
  BY <1>2, <1>3
<1> DEFINE t == FlattenSeq(tt)
           k == FlattenSeq(kk)
<1>8. InStep(t, k, tt, kk, n)
  <2>1. Parallel(tt, kk, n) BY <1>3, <1>6 DEF Parallel
  <2> QED BY <1>1, <2>1, Alike
<1> HIDE DEF t, k
<1>9. t # <<>> => k # <<>> /\ k[1] = [url |-> Normalized(t[1])] BY <1>7, <1>8 DEF InStep
<1>10. ASSUME NEW l \in DOMAIN t PROVE \E m \in DOMAIN k : k[m] = [url |-> Normalized(t[l])]
  <2>1. PICK i \in 1 .. n : \E j \in DOMAIN tt[i] :
                t[l] = tt[i][j] /\ \E m \in DOMAIN k : k[m] = kk[i][j]
    BY <1>8 DEF InStep
  <2> QED BY <1>7, <2>1
<1> QED BY <1>4, <1>8, <1>9, <1>10 DEF InStep, t, k

\* The keys of a job's inputs are those of its images and of its sites; the first
\* is its first image or else its first site.
LEMMA KeysAre ==
    ASSUME NEW inputs \in JobInputs
    PROVE  /\ \A m \in DOMAIN Images(inputs) : Images(inputs)[m] \in derive_identity(inputs).keys
           /\ \A m \in DOMAIN Sites(inputs) : Sites(inputs)[m] \in derive_identity(inputs).keys
           /\ Images(inputs) # <<>> => derive_identity(inputs).primary = Images(inputs)[1]
           /\ Images(inputs) = <<>> /\ Sites(inputs) # <<>> =>
                 derive_identity(inputs).primary = Sites(inputs)[1]
<1> DEFINE T == ToSet(Images(inputs)) \cup ToSet(Sites(inputs))
           s == Images(inputs)
           t == Sites(inputs)
           keys == SubjectKeys(inputs)
<1>1. s \in Seq(T) /\ t \in Seq(T)
  <2>1. s \in Seq(ToSet(s)) /\ t \in Seq(ToSet(t)) BY ImagesFollow, SitesFollow DEF IsList
  <2> HIDE DEF s, t
  <2>2. ToSet(s) \subseteq T /\ ToSet(t) \subseteq T BY DEF s, t
  <2> HIDE DEF T
  <2> QED BY <2>1, <2>2, SeqMonotonic
<1>2. keys = Once(s \o t) BY DEF SubjectKeys, Images, Sites
<1>3. /\ derive_identity(inputs).keys = ToSet(keys)
      /\ derive_identity(inputs).primary = IF keys = <<>> THEN NoKey ELSE keys[1]
  BY DEF derive_identity
<1> HIDE DEF s, t, keys, T
<1>4. /\ s \o t \in Seq(T)
      /\ \A k \in DOMAIN s : k \in DOMAIN (s \o t) /\ (s \o t)[k] = s[k]
      /\ \A k \in DOMAIN t : Len(s) + k \in DOMAIN (s \o t) /\ (s \o t)[Len(s) + k] = t[k]
      /\ s # <<>> => s \o t # <<>> /\ (s \o t)[1] = s[1]
      /\ s = <<>> => s \o t = t
  BY <1>1, JoinHolds
<1> DEFINE st == s \o t
<1> HIDE DEF st
<1>5. /\ keys \in Seq(T)
      /\ \A i \in DOMAIN st : \E k \in DOMAIN keys : keys[k] = st[i]
      /\ st # <<>> => keys # <<>> /\ keys[1] = st[1]
  BY <1>2, <1>4, OnceIs DEF st
<1>6. \A i \in DOMAIN st : st[i] \in ToSet(keys) BY <1>5 DEF ToSet
<1>7. \A m \in DOMAIN s : s[m] \in ToSet(keys) BY <1>4, <1>6 DEF st
<1>8. \A m \in DOMAIN t : t[m] \in ToSet(keys) BY <1>4, <1>6 DEF st
<1>9. s # <<>> => keys # <<>> /\ keys[1] = s[1] BY <1>4, <1>5 DEF st
<1>10. s = <<>> /\ t # <<>> => keys # <<>> /\ keys[1] = t[1] BY <1>4, <1>5 DEF st
<1> QED BY <1>3, <1>7, <1>8, <1>9, <1>10 DEF s, t

\* A later job about the subject of an earlier one has the earlier one's primary key.
LEMMA SubjectsMeet ==
    ASSUME NEW first \in JobInputs, NEW later \in JobInputs, SameSubject(first, later)
    PROVE  first = later \/ derive_identity(first).primary \in derive_identity(later).keys
<1>1. CASE first = later BY <1>1
<1>2. CASE FilesIn(first) # <<>> /\ Contains(FilesIn(later), Head(FilesIn(first)))
  <2>1. PICK k \in DOMAIN FilesIn(later) : FilesIn(later)[k] = Head(FilesIn(first))
    BY <1>2 DEF Contains
  <2>2. Head(FilesIn(first)) = FilesIn(first)[1]
    <3>1. FilesIn(first) \in Seq(ToSet(FilesIn(first))) BY ImagesFollow DEF IsList
    <3> QED BY <1>2, <3>1
  <2>3. derive_identity(first).primary = [img |-> FilesIn(first)[1]] BY <1>2, ImagesFollow, KeysAre
  <2>4. PICK m \in DOMAIN Images(later) : Images(later)[m] = [img |-> FilesIn(later)[k]]
    BY ImagesFollow
  <2>5. Images(later)[m] \in derive_identity(later).keys BY KeysAre
  <2> QED BY <2>1, <2>2, <2>3, <2>4, <2>5
<1>3. CASE /\ FilesIn(first) = <<>> /\ PagesIn(first) # <<>>
           /\ \E i \in DOMAIN PagesIn(later) : SamePage(Head(PagesIn(first)), PagesIn(later)[i])
  <2>1. PICK k \in DOMAIN PagesIn(later) : SamePage(Head(PagesIn(first)), PagesIn(later)[k])
    BY <1>3
  <2>2. Head(PagesIn(first)) = PagesIn(first)[1]
    <3>1. PagesIn(first) \in Seq(ToSet(PagesIn(first))) BY SitesFollow DEF IsList
    <3> QED BY <1>3, <3>1
  <2>3. derive_identity(first).primary = [url |-> Normalized(PagesIn(first)[1])]
    BY <1>3, ImagesFollow, SitesFollow, KeysAre
  <2>4. PICK m \in DOMAIN Sites(later) : Sites(later)[m] = [url |-> Normalized(PagesIn(later)[k])]
    BY SitesFollow
  <2>5. Sites(later)[m] \in derive_identity(later).keys BY KeysAre
  <2>6. Normalized(PagesIn(first)[1]) = Normalized(PagesIn(later)[k])
    BY <2>1, <2>2 DEF SamePage, Normalized
  <2> QED BY <2>3, <2>4, <2>5, <2>6
<1> QED BY <1>1, <1>2, <1>3 DEF SameSubject

\* The rows there may be: what a put stored, stale or faded perhaps.
Kept(inputs, style, fresh, aged) ==
    [Stored(inputs, style) EXCEPT !.fresh = fresh, !.aged = aged]

Rows == {Kept(inputs, style, fresh, aged) :
            inputs \in JobInputs, style \in Styles, fresh \in BOOLEAN, aged \in BOOLEAN}

RecallInv ==
    /\ table \in Seq(Rows) /\ Len(table) =< MaxRows
    /\ \/ asked = Nothing
       \/ \E inputs \in JobInputs : asked = [by |-> "job", inputs |-> inputs]
       \/ \E query \in Queries : asked = [by |-> "agent", query |-> query]

\* What every row keeps.
LEMMA RowsKeep ==
    ASSUME NEW row \in Rows
    PROVE  /\ row.from \in JobInputs
           /\ row.key = derive_identity(row.from).primary
           /\ row.hash = derive_identity(row.from).fingerprint
           /\ row.mtype \in {"semantic", "episodic", "procedural"}
           /\ row.weight \in Nat /\ row.pinned \in BOOLEAN /\ row.aged \in BOOLEAN
           /\ row.line \in Nat /\ row.head \in Nat /\ row.record \in Nat /\ row.pointer \in Nat
           /\ [row EXCEPT !.fresh = FALSE] \in Rows
           /\ [row EXCEPT !.aged = TRUE] \in Rows
           /\ [row EXCEPT !.aged = FALSE] \in Rows
<1>1. PICK inputs \in JobInputs, style \in Styles, fresh \in BOOLEAN, aged \in BOOLEAN :
          row = Kept(inputs, style, fresh, aged)
  BY DEF Rows
<1>2. /\ style.mtype \in {"semantic", "episodic", "procedural"}
      /\ style.weight \in Nat /\ style.pinned \in BOOLEAN
      /\ style.line \in Nat /\ style.head \in Nat /\ style.record \in Nat /\ style.pointer \in Nat
  BY StylesAssumption
<1>3. Identity[inputs] = derive_identity(inputs) BY DEF Identity
<1>4. /\ row.from = inputs
      /\ row.key = Identity[inputs].primary /\ row.hash = Identity[inputs].fingerprint
      /\ row.mtype = style.mtype /\ row.weight = style.weight /\ row.pinned = style.pinned
      /\ row.line = style.line /\ row.head = style.head /\ row.record = style.record
      /\ row.pointer = style.pointer /\ row.aged = aged
  BY <1>1 DEF Kept, Stored
<1>5. /\ [row EXCEPT !.fresh = FALSE] = Kept(inputs, style, FALSE, aged)
      /\ [row EXCEPT !.aged = TRUE] = Kept(inputs, style, fresh, TRUE)
      /\ [row EXCEPT !.aged = FALSE] = Kept(inputs, style, fresh, FALSE)
  BY ZenonT(40), <1>1 DEF Kept, Stored
<1>6. ASSUME NEW f \in BOOLEAN, NEW a \in BOOLEAN
      PROVE  Kept(inputs, style, f, a) \in Rows
  BY DEF Rows
<1>7. /\ [row EXCEPT !.fresh = FALSE] \in Rows
      /\ [row EXCEPT !.aged = TRUE] \in Rows
      /\ [row EXCEPT !.aged = FALSE] \in Rows
  BY <1>5, <1>6, Zenon
<1> QED BY <1>2, <1>3, <1>4, <1>7

\* The empty table, and every call, keep to such rows.
LEMMA RecallInitiates == RecallInit => RecallInv
<1>1. MaxRows \in Nat BY TableBound
<1> QED BY <1>1 DEF RecallInit, RecallInv

\* A put selects and appends; staleness, fading and injections change two fields.
LEMMA RecallStep ==
    ASSUME RecallInv, [RecallNext]_recallVars PROVE RecallInv'
<1> USE DEF RecallInv
<1>0. MaxRows \in Nat /\ table \in Seq(Rows) BY TableBound
<1>1. ASSUME NEW inputs \in JobInputs, NEW style \in Styles, memory_put(inputs, style)
      PROVE  RecallInv'
  <2> DEFINE new == Stored(inputs, style)
             others == Selected(table, {i \in DOMAIN table : ~SameKey(table[i], new)})
  <2>1. others \in Seq(Rows) BY <1>0, SelectedIs
  <2>2. new \in Rows
    <3>1. /\ new = [x \in DOMAIN new |-> new[x]]
          /\ new.fresh = TRUE /\ new.aged = FALSE
      BY DEF Stored
    <3> HIDE DEF new
    <3>2. [new EXCEPT !.fresh = TRUE, !.aged = FALSE] = new BY <3>1
    <3>3. new = Kept(inputs, style, TRUE, FALSE) BY <3>2 DEF Kept, new
    <3>4. \A f, a \in BOOLEAN : Kept(inputs, style, f, a) \in Rows BY DEF Rows
    <3> QED BY <3>3, <3>4
  <2>3. /\ Len(others) < MaxRows /\ table' = Append(others, new) /\ asked' = Nothing
    BY <1>1 DEF memory_put
  <2> HIDE DEF others, new
  <2>4. table' \in Seq(Rows) /\ Len(table') = Len(others) + 1 /\ Len(others) \in Nat BY <2>1, <2>2, <2>3
  <2> QED BY <1>0, <2>3, <2>4
<1>2. ASSUME NEW i \in DOMAIN table, Expire(i) PROVE RecallInv'
  <2>1. table[i] \in Rows BY <1>0
  <2>2. [table[i] EXCEPT !.fresh = FALSE] \in Rows BY <2>1, RowsKeep
  <2>3. table' = [table EXCEPT ![i] = [table[i] EXCEPT !.fresh = FALSE]] /\ asked' = Nothing
    BY <1>2 DEF Expire
  <2>4. table' \in Seq(Rows) /\ Len(table') = Len(table) BY <1>0, <2>2, <2>3
  <2> QED BY <2>3, <2>4
<1>3. ASSUME NEW i \in DOMAIN table, Fade(i) PROVE RecallInv'
  <2>1. table[i] \in Rows BY <1>0
  <2>2. [table[i] EXCEPT !.aged = TRUE] \in Rows BY <2>1, RowsKeep
  <2>3. table' = [table EXCEPT ![i] = [table[i] EXCEPT !.aged = TRUE]] /\ asked' = Nothing
    BY <1>3 DEF Fade
  <2>4. table' \in Seq(Rows) /\ Len(table') = Len(table) BY <1>0, <2>2, <2>3
  <2> QED BY <2>3, <2>4
<1>4. ASSUME NEW inputs \in JobInputs, memory_context(inputs) PROVE RecallInv'
  <2> DEFINE given == ToSet(Entity(table, Identity[inputs]))
  <2>1. /\ table' = [i \in DOMAIN table |->
                        IF i \in given THEN [table[i] EXCEPT !.aged = FALSE] ELSE table[i]]
        /\ asked' = [by |-> "job", inputs |-> inputs]
    BY <1>4 DEF memory_context
  <2> HIDE DEF given
  <2>2. \A i \in DOMAIN table : table[i] \in Rows BY <1>0
  <2>3. \A i \in DOMAIN table : [table[i] EXCEPT !.aged = FALSE] \in Rows BY <2>2, RowsKeep
  <2>4. DOMAIN table = 1 .. Len(table) /\ Len(table) \in Nat BY <1>0
  <2>5. table' \in [1 .. Len(table) -> Rows] BY <2>1, <2>2, <2>3, <2>4
  <2>6. table' \in Seq(Rows) /\ Len(table') = Len(table) BY <2>4, <2>5
  <2> QED BY <2>1, <2>6
<1>5. ASSUME NEW query \in Queries, memory_search(query) PROVE RecallInv'
  BY <1>5 DEF memory_search
<1>6. CASE UNCHANGED recallVars BY <1>6 DEF recallVars
<1> QED BY <1>1, <1>2, <1>3, <1>4, <1>5, <1>6 DEF RecallNext

\* The table holds such rows, no more than MaxRows, always.
LEMMA RecallInvariant == RecallSpec => []RecallInv
BY RecallInitiates, RecallStep, PTL DEF RecallSpec

\* Rows of one mtype first, then the heavier, then the newer: one order.
LEMMA TypeFirstOrders ==
    ASSUME NEW base \in Seq(Rows), NEW S \in SUBSET DOMAIN base, NEW mtype
    PROVE  Orders({pair \in S \X S : TypeFirst(base, mtype, pair[1], pair[2])}, S)
<1> DEFINE Ahead(i, j) == TypeFirst(base, mtype, i, j)
           R == {pair \in S \X S : Ahead(pair[1], pair[2])}
           Kind(i) == base[i].mtype = mtype
           weight == [i \in S |-> base[i].weight]
<1>1. \A i \in S : i \in Nat /\ weight[i] \in Nat
  <2>1. \A i \in S : i \in Nat /\ base[i] \in Rows OBVIOUS
  <2> QED BY <2>1, RowsKeep
<1>2. \A i, j \in S : Ahead(i, j) <=>
          \/ Kind(i) /\ ~Kind(j)
          \/ (Kind(i) <=> Kind(j)) /\ (weight[i] > weight[j] \/ (weight[i] = weight[j] /\ i > j))
  BY DEF TypeFirst, HeavierThenNewer, Newer
<1>3. \A x, y \in S : <<x, y>> \in R <=> Ahead(x, y) OBVIOUS
<1> HIDE DEF R, Ahead, Kind, weight
<1>4. \A x \in S : <<x, x>> \notin R
  <2>1. \A x \in S : ~ (weight[x] > weight[x]) /\ ~ (x > x) BY <1>1
  <2> QED BY <1>2, <1>3, <2>1
<1>5. ASSUME NEW x \in S, NEW y \in S, NEW z \in S, <<x, y>> \in R, <<y, z>> \in R
      PROVE  <<x, z>> \in R
  <2>1. Ahead(x, y) /\ Ahead(y, z) BY <1>3, <1>5
  <2>2. Ahead(x, z) BY <1>1, <1>2, <2>1
  <2> QED BY <1>3, <2>2
<1>6. ASSUME NEW x \in S, NEW y \in S
      PROVE  x = y \/ <<x, y>> \in R \/ <<y, x>> \in R
  <2>1. x = y \/ Ahead(x, y) \/ Ahead(y, x) BY <1>1, <1>2
  <2> QED BY <1>3, <2>1
<1>7. Orders(R, S) BY <1>4, <1>5, <1>6 DEF Orders
<1> QED BY <1>7 DEF R, Ahead

\* The first of a sequence are its own, as many as there are or as the limit.
LEMMA FirstOfKeeps ==
    ASSUME NEW T, NEW seq \in Seq(T), NEW limit \in Nat
    PROVE  /\ FirstOf(seq, limit) \in Seq(T)
           /\ Len(FirstOf(seq, limit)) =< Len(seq)
           /\ Len(FirstOf(seq, limit)) = Len(seq) \/ Len(FirstOf(seq, limit)) = limit
           /\ \A k \in 1 .. Len(FirstOf(seq, limit)) : FirstOf(seq, limit)[k] = seq[k]
<1> DEFINE m == IF Len(seq) < limit THEN Len(seq) ELSE limit
           first == FirstOf(seq, limit)
           n == Len(seq)
<1>1. n \in Nat /\ DOMAIN seq = 1 .. n /\ \A k \in 1 .. n : seq[k] \in T OBVIOUS
<1>2. m \in 0 .. n /\ (m = n \/ m = limit) BY <1>1
<1>3. first = SubSeq(seq, 1, m) BY DEF FirstOf
<1> HIDE DEF m, first
<1>4. \A k \in 1 .. m : seq[k] \in T
  <2> HIDE DEF n
  <2>1. \A k \in 1 .. m : k \in 1 .. n BY <1>1, <1>2
  <2> QED BY <1>1, <2>1
<1>5. /\ first \in Seq(T) /\ Len(first) = m
      /\ \A k \in 1 .. m : first[k] = seq[k]
  <2> HIDE DEF n
  <2>1. m \in Nat BY <1>1, <1>2
  <2>2. /\ first \in Seq(T) /\ Len(first) = IF 1 <= m THEN m - 1 + 1 ELSE 0
        /\ \A k \in 1 .. m - 1 + 1 : first[k] = seq[1 + k - 1]
    BY <1>3, <1>4, <2>1, SubSeqProperties
  <2>3. m - 1 + 1 = m /\ (1 <= m \/ m = 0) BY <2>1
  <2>4. \A k \in 1 .. m : 1 + k - 1 = k BY <2>1
  <2> QED BY <2>1, <2>2, <2>3, <2>4
<1>6. /\ Len(first) =< n
      /\ Len(first) = n \/ Len(first) = limit
      /\ \A k \in 1 .. Len(first) : first[k] = seq[k]
  <2> HIDE DEF n
  <2> QED BY <1>1, <1>2, <1>5
<1> QED BY <1>5, <1>6 DEF first

\* All of a sequence is among its first, or these are as many as the limit.
LEMMA FirstOfIs ==
    ASSUME NEW T, NEW seq \in Seq(T), NEW limit \in Nat
    PROVE  /\ FirstOf(seq, limit) \in Seq(T)
           /\ \/ \A k \in DOMAIN seq : Contains(FirstOf(seq, limit), seq[k])
              \/ Len(FirstOf(seq, limit)) = limit
<1>1. PICK first : first = FirstOf(seq, limit) OBVIOUS
<1>2. /\ first \in Seq(T) /\ (Len(first) = Len(seq) \/ Len(first) = limit)
      /\ \A k \in 1 .. Len(first) : first[k] = seq[k]
  BY <1>1, FirstOfKeeps
<1>3. DOMAIN seq = 1 .. Len(seq) OBVIOUS
<1>4. Len(first) = Len(seq) => \A k \in DOMAIN seq : Contains(first, seq[k])
  BY <1>2, <1>3 DEF Contains
<1> QED BY <1>1, <1>2, <1>4

\* What a job is given is rows about it, and all of them below the limit.
LEMMA EntityIs ==
    ASSUME NEW base \in Seq(Rows), NEW identity
    PROVE  /\ Entity(base, identity) \in Seq(About(base, identity))
           /\ \/ \A i \in About(base, identity) : Contains(Entity(base, identity), i)
              \/ Len(Entity(base, identity)) = EntityLimit
<1> DEFINE S == About(base, identity)
           R == {pair \in S \X S : TypeFirst(base, "semantic", pair[1], pair[2])}
           n == Cardinality(S)
           ranked == InOrder(S, R)
<1>1. S \in SUBSET DOMAIN base BY DEF About
<1>2. IsFiniteSet(S)
  <2>1. DOMAIN base = 1 .. Len(base) /\ Len(base) \in Nat OBVIOUS
  <2>2. IsFiniteSet(DOMAIN base) BY <2>1, FS_Interval
  <2> QED BY <1>1, <2>2, FS_Subset
<1>3. Entity(base, identity) = FirstOf(ranked, EntityLimit) BY DEF Entity, Ranked
<1> HIDE DEF S
<1>4. Orders(R, S) BY <1>1, TypeFirstOrders
<1> HIDE DEF R
<1>5. /\ n \in Nat /\ ranked \in [1 .. n -> S]
      /\ \A i \in S : \E k \in 1 .. n : ranked[k] = i
  BY <1>2, <1>4, OrderedIs
<1> HIDE DEF ranked, n
<1>6. ranked \in Seq(S) /\ DOMAIN ranked = 1 .. n BY <1>5
<1>7. EntityLimit \in Nat BY TableBound
<1>8. /\ FirstOf(ranked, EntityLimit) \in Seq(S)
      /\ \/ \A k \in DOMAIN ranked : Contains(FirstOf(ranked, EntityLimit), ranked[k])
         \/ Len(FirstOf(ranked, EntityLimit)) = EntityLimit
  BY <1>6, <1>7, FirstOfIs
<1>9. \A i \in S : \E k \in DOMAIN ranked : ranked[k] = i BY <1>5, <1>6
<1> QED BY <1>3, <1>8, <1>9 DEF S

\* The pinned rows it is given are rows.
LEMMA PinnedIs ==
    ASSUME NEW base \in Seq(Rows)
    PROVE  Pinned(base) \in Seq(DOMAIN base)
<1> DEFINE S == {i \in DOMAIN base : base[i].pinned /\ base[i].fresh}
           R == {pair \in S \X S : TypeFirst(base, "procedural", pair[1], pair[2])}
           n == Cardinality(S)
           ranked == InOrder(S, R)
<1>1. S \in SUBSET DOMAIN base OBVIOUS
<1>2. IsFiniteSet(S)
  <2>1. DOMAIN base = 1 .. Len(base) /\ Len(base) \in Nat OBVIOUS
  <2>2. IsFiniteSet(DOMAIN base) BY <2>1, FS_Interval
  <2> QED BY <1>1, <2>2, FS_Subset
<1>3. Pinned(base) = FirstOf(ranked, PinnedLimit) BY DEF Pinned, Ranked
<1> HIDE DEF S
<1>4. Orders(R, S) BY <1>1, TypeFirstOrders
<1> HIDE DEF R
<1>5. n \in Nat /\ ranked \in [1 .. n -> S] BY <1>2, <1>4, OrderedIs
<1> HIDE DEF ranked, n
<1>6. ranked \in Seq(DOMAIN base) BY <1>1, <1>5
<1>7. PinnedLimit \in Nat BY TableBound
<1> QED BY <1>3, <1>6, <1>7, FirstOfIs

\* derive_identity, memory_put and memory_context: a job finds the fresh brief an
\* earlier job stored about the same subject, or is given EntityLimit others.
THEOREM RecallsThePast == RecallSpec => []RecallsPriorWork
<1>1. ASSUME RecallInv PROVE RecallsPriorWork
  <2>1. SUFFICES ASSUME asked.by = "job", NEW i \in DOMAIN table,
                        table[i].mtype # "procedural", table[i].fresh,
                        SameSubject(table[i].from, asked.inputs)
                 PROVE  \/ Contains(Entity(table, Identity[asked.inputs]), i)
                        \/ Len(Entity(table, Identity[asked.inputs])) = EntityLimit
    BY Zenon DEF RecallsPriorWork
  <2>2. table \in Seq(Rows) /\ table[i] \in Rows BY <1>1, <2>1 DEF RecallInv
  <2>3. asked.inputs \in JobInputs BY <1>1, <2>1 DEF RecallInv, Nothing
  <2>4. Identity[asked.inputs] = derive_identity(asked.inputs) BY <2>3 DEF Identity
  <2>5. /\ table[i].from \in JobInputs
        /\ table[i].key = derive_identity(table[i].from).primary
        /\ table[i].hash = derive_identity(table[i].from).fingerprint
        /\ table[i].mtype \in {"semantic", "episodic", "procedural"}
    BY <2>2, RowsKeep
  <2>6. \/ table[i].key \in derive_identity(asked.inputs).keys
        \/ table[i].hash = derive_identity(asked.inputs).fingerprint
    BY <2>1, <2>3, <2>5, SubjectsMeet
  <2>7. i \in About(table, Identity[asked.inputs]) BY <2>1, <2>4, <2>5, <2>6 DEF About
  <2> QED BY <2>2, <2>7, EntityIs
<1> QED BY <1>1, RecallInvariant, PTL

\* The rows that Postgres's words find are among those that SQLite's do.
LEMMA WordsFindLocally ==
    ASSUME NEW base \in Seq(Rows), NEW query \in Queries, NEW i \in HostedLexical(base, query)
    PROVE  i \in LocalLexical(base, query)
<1> DEFINE words == query.words
           row == base[i]
           hits == {word \in words : Within(word, row.words \cup row.tags)}
<1>1. /\ i \in DOMAIN base /\ words # {}
      /\ words \subseteq row.words \/ \A word \in words : Within(word, row.words)
  BY DEF HostedLexical, Phrase
<1>2. IsFiniteSet(words) BY QueriesAssumption
<1>3. hits # {}
  <2>1. PICK word \in words : TRUE BY <1>1
  <2>2. Within(word, row.words \cup row.tags) BY <1>1, <2>1 DEF Within
  <2> QED BY <2>1, <2>2
<1>4. IsFiniteSet(hits) /\ Cardinality(hits) \in Nat /\ Cardinality(hits) # 0
  <2>1. hits \in SUBSET words OBVIOUS
  <2>2. IsFiniteSet(hits) BY <1>2, <2>1, FS_Subset
  <2> HIDE DEF hits
  <2> QED BY <1>3, <2>2, FS_CardinalityType, FS_EmptySet
<1> DEFINE phrase == Phrase(row, query)
           tagged == Cardinality(words) = 1 /\ words \subseteq row.tags
           n == Cardinality(hits)
<1>5. WordHits(row, query) = n + (IF phrase THEN 1 ELSE 0) + (IF tagged THEN 1 ELSE 0)
  BY DEF WordHits
<1> HIDE DEF phrase, tagged, n, row
<1>6. WordHits(row, query) > 0 BY <1>4, <1>5 DEF n
<1> QED BY <1>1, <1>6 DEF LocalLexical, row

\* The rule by which the fold takes the rows at some places: those before, then the last.
TakesOver(g, section, base, start, Sets) ==
    g = [s \in Sets |-> IF s = {} THEN start
                        ELSE LET x == Max(s) IN Take(section, g[s \ {x}], base[x])]

Start(room) == [room |-> room, length |-> 0, count |-> 0, full |-> FALSE]

\* The fold of the library, as a choice of a function that obeys TakesOver.
LEMMA Unfolded ==
    ASSUME NEW section, NEW base, NEW room
    PROVE  Taken(section, base, room) =
               (CHOOSE g : TakesOver(g, section, base, Start(room), SUBSET DOMAIN base))[DOMAIN base]
BY DEF Taken, FoldLeft, MapThenFoldSet, TakesOver, Start

\* A set of some of 1 .. n that is not empty has a greatest.
LEMMA Greatest ==
    ASSUME NEW n \in Nat, NEW s \in SUBSET (1 .. n), s # {}
    PROVE  Max(s) \in s /\ \A y \in s : Max(s) >= y
<1> DEFINE above == {k \in Nat : \A y \in s : k >= y}
<1>1. n \in above /\ above \in SUBSET Nat OBVIOUS
<1>2. PICK k \in above : \A j \in above : ~ (j < k)
  <2> HIDE DEF above
  <2> QED BY <1>1, Least
<1>3. k \in s
  <2>1. SUFFICES ASSUME k \notin s PROVE FALSE OBVIOUS
  <2>2. \A y \in s : k >= y /\ k # y /\ y \in Nat /\ y > 0 BY <2>1
  <2>3. k \in Nat /\ k > 0
    <3>1. k \in Nat BY <1>2
    <3>2. PICK y \in s : TRUE OBVIOUS
    <3> HIDE DEF above
    <3> QED BY <2>2, <3>1, <3>2
  <2>4. \A y \in s : k - 1 >= y BY <2>2, <2>3
  <2>5. k - 1 \in above /\ k - 1 < k BY <2>3, <2>4
  <2> QED BY <1>2, <2>5
<1>4. \E x \in s : \A y \in s : x >= y BY <1>3
<1> QED BY <1>4 DEF Max

\* Such a function there is.
LEMMA TakesExist ==
    ASSUME NEW section, NEW base, NEW start, NEW n \in Nat
    PROVE  \E g : TakesOver(g, section, base, start, SUBSET (1 .. n))
<1> DEFINE Bad == {m \in Nat : ~ \E g : TakesOver(g, section, base, start, SUBSET (1 .. m))}
<1>1. ASSUME Bad # {} PROVE FALSE
  <2>1. PICK m \in Bad : \A l \in Bad : ~ (l < m) BY <1>1, Least
  <2>2. m \in Nat BY <2>1
  <2>3. CASE m = 0
    <3>1. SUBSET (1 .. m) = {{}} BY <2>3
    <3>2. TakesOver([s \in {{}} |-> start], section, base, start, {{}}) BY DEF TakesOver
    <3> QED BY <2>1, <3>1, <3>2
  <2>4. CASE m # 0
    <3>1. m - 1 \in Nat \ Bad
      <4>1. m - 1 \in Nat /\ m - 1 < m BY <2>2, <2>4
      <4> QED BY <2>1, <4>1
    <3>2. PICK h : TakesOver(h, section, base, start, SUBSET (1 .. (m - 1))) BY <3>1
    <3> DEFINE g == [s \in SUBSET (1 .. m) |->
                        IF s = {} THEN start
                        ELSE LET x == Max(s) IN Take(section, h[s \ {x}], base[x])]
    <3>3. ASSUME NEW s \in SUBSET (1 .. m), s # {}
          PROVE  s \ {Max(s)} \in SUBSET (1 .. (m - 1))
      <4>1. Max(s) \in s /\ \A y \in s : Max(s) >= y BY <2>2, <3>3, Greatest
      <4> DEFINE x == Max(s)
      <4> HIDE DEF Bad, x
      <4>2. x \in 1 .. m /\ \A y \in s : y \in 1 .. m /\ x >= y BY <4>1 DEF x
      <4>3. \A y \in s : y # x => y \in 1 .. (m - 1) BY <2>2, <4>2
      <4> QED BY <4>3 DEF x
    <3>4. ASSUME NEW s \in SUBSET (1 .. (m - 1)) PROVE s \in SUBSET (1 .. m) /\ g[s] = h[s]
      <4>1. s \in SUBSET (1 .. m) BY <2>2
      <4>2. h[s] = IF s = {} THEN start
                   ELSE LET x == Max(s) IN Take(section, h[s \ {x}], base[x])
        BY <3>2 DEF TakesOver
      <4> QED BY <4>1, <4>2
    <3> HIDE DEF Bad
    <3>5. ASSUME NEW s \in SUBSET (1 .. m)
          PROVE  g[s] = IF s = {} THEN start
                        ELSE LET x == Max(s) IN Take(section, g[s \ {x}], base[x])
      <4>1. CASE s = {} BY <4>1
      <4>2. CASE s # {}
        <5>1. g[s \ {Max(s)}] = h[s \ {Max(s)}] BY <3>3, <3>4, <4>2
        <5>2. g[s] = Take(section, h[s \ {Max(s)}], base[Max(s)]) BY <4>2
        <5> HIDE DEF g
        <5> QED BY <4>2, <5>1, <5>2
      <4> QED BY <4>1, <4>2
    <3>6. g = [s \in SUBSET (1 .. m) |-> g[s]] OBVIOUS
    <3> HIDE DEF g
    <3>7. TakesOver(g, section, base, start, SUBSET (1 .. m)) BY <3>5, <3>6 DEF TakesOver
    <3> QED BY <2>1, <3>7 DEF Bad
  <2> QED BY <2>3, <2>4
<1> QED BY <1>1

\* What has been taken is paid for, but for the glue of the next.
Fits(section, t, room) ==
    /\ t.room \in Int /\ t.length \in Int /\ t.count \in Nat /\ t.full \in BOOLEAN
    /\ t = [room |-> t.room, length |-> t.length, count |-> t.count, full |-> t.full]
    /\ t.count = 0 => t.room = room /\ t.length = 0
    /\ t.count > 0 => t.room + t.length + Glue(section) = room /\ t.room + Glue(section) >= 0

\* The length of a row is a number.
LEMMA LengthIs ==
    ASSUME NEW section, NEW row \in Rows, NEW room \in Int
    PROVE  Length(section, row, room) \in Int
<1>1. /\ row.line \in Int /\ row.head \in Int /\ row.record \in Int /\ row.pointer \in Int
      /\ RecordCap \in Int
  <2>1. row.line \in Nat /\ row.head \in Nat /\ row.record \in Nat /\ row.pointer \in Nat
    BY RowsKeep
  <2>2. RecordCap \in Nat BY DigestAssumption
  <2> QED BY <2>1, <2>2
<1>2. ASSUME NEW cap \in Int PROVE Block(row, cap) \in Int BY <1>1 DEF Block, Truncated
<1>3. Block(row, RecordCap) \in Int BY <1>1, <1>2
<1>4. Block(row, IF room - 400 > Floor THEN room - 400 ELSE Floor) \in Int BY <1>2 DEF Floor
<1>5. Fitted(row, room) \in Int BY <1>1, <1>3, <1>4 DEF Fitted
<1> QED BY <1>1, <1>5 DEF Length

\* One more row keeps that.
LEMMA TakeFits ==
    ASSUME NEW section, NEW row \in Rows, NEW t, NEW room \in Int, Fits(section, t, room)
    PROVE  Fits(section, Take(section, t, row), room)
<1> DEFINE length == Length(section, row, t.room)
           glue == Glue(section)
           taken == Take(section, t, row)
<1>1. t.room \in Int BY DEF Fits
<1>2. length \in Int BY <1>1, LengthIs
<1>3. glue \in Nat BY DEF Glue
<1> HIDE DEF length, glue
<1>4. CASE t.full \/ length > t.room
  <2>1. taken = [t EXCEPT !.full = TRUE] BY <1>4 DEF Take, length
  <2>2. t = [room |-> t.room, length |-> t.length, count |-> t.count, full |-> t.full] BY DEF Fits
  <2>3. /\ taken.room = t.room /\ taken.length = t.length /\ taken.count = t.count
        /\ taken.full = TRUE
        /\ taken = [room |-> taken.room, length |-> taken.length, count |-> taken.count,
                    full |-> taken.full]
    BY <2>1, <2>2
  <2> HIDE DEF taken
  <2>4. taken.full \in BOOLEAN BY <2>3
  <2>5. t.full \in BOOLEAN /\ Fits(section, t, room) BY DEF Fits
  <2>6. Fits(section, taken, room) BY <2>3, <2>4, <2>5 DEF Fits
  <2> QED BY <2>6 DEF taken
<1>5. CASE ~ (t.full \/ length > t.room)
  <2>1. taken = [room |-> t.room - length - glue,
                 length |-> t.length + length + (IF t.count = 0 THEN 0 ELSE glue),
                 count |-> t.count + 1, full |-> FALSE]
    BY <1>5 DEF Take, length, glue
  <2>0. taken.full \in BOOLEAN BY <2>1
  <2> HIDE DEF taken
  <2>2. length =< t.room BY <1>1, <1>2, <1>5
  <2>3. /\ taken.room = t.room - length - glue
        /\ taken.length = t.length + length + (IF t.count = 0 THEN 0 ELSE glue)
        /\ taken.count = t.count + 1 /\ taken.full = FALSE
        /\ taken = [room |-> taken.room, length |-> taken.length, count |-> taken.count,
                    full |-> taken.full]
    BY <2>1
  <2>4. /\ t.length \in Int /\ t.count \in Nat
        /\ t.count = 0 => t.room = room /\ t.length = 0
        /\ t.count > 0 => t.room + t.length + glue = room
    BY DEF Fits, glue
  <2>5. taken.room \in Int /\ taken.length \in Int /\ taken.count \in Nat /\ taken.count > 0
    BY <1>1, <1>2, <1>3, <2>3, <2>4
  <2>6. taken.room + taken.length + glue = room /\ taken.room + glue >= 0
    <3>1. CASE t.count = 0 BY <1>1, <1>2, <1>3, <2>2, <2>3, <2>4, <3>1
    <3>2. CASE t.count # 0 BY <1>1, <1>2, <1>3, <2>2, <2>3, <2>4, <3>2
    <3> QED BY <3>1, <3>2
  <2>7. taken.count # 0 BY <2>5
  <2>8. Fits(section, taken, room) BY <2>0, <2>3, <2>5, <2>6, <2>7 DEF Fits, glue
  <2> QED BY <2>8 DEF taken
<1> QED BY <1>4, <1>5 DEF taken

\* Whatever the records hold, what is taken fits.
LEMMA TakenFits ==
    ASSUME NEW section, NEW base \in Seq(Rows), NEW room \in Int
    PROVE  Fits(section, Taken(section, base, room), room)
<1> DEFINE n == Len(base)
           g == CHOOSE g : TakesOver(g, section, base, Start(room), SUBSET DOMAIN base)
           Bad == {m \in 0 .. n : ~ Fits(section, g[1 .. m], room)}
<1>1. n \in Nat /\ DOMAIN base = 1 .. n /\ \A i \in 1 .. n : base[i] \in Rows OBVIOUS
<1>2. TakesOver(g, section, base, Start(room), SUBSET (1 .. n))
  <2>1. \E f : TakesOver(f, section, base, Start(room), SUBSET (1 .. n)) BY <1>1, TakesExist
  <2> HIDE DEF n
  <2> QED BY <1>1, <2>1
<1> HIDE DEF g, n
<1>3. Bad \in SUBSET Nat BY <1>1
<1>4. ASSUME NEW s \in SUBSET (1 .. n)
      PROVE  g[s] = IF s = {} THEN Start(room)
                    ELSE LET x == Max(s) IN Take(section, g[s \ {x}], base[x])
  BY <1>2 DEF TakesOver
<1>5. ASSUME Bad # {} PROVE FALSE
  <2>1. PICK m \in Bad : \A l \in Bad : ~ (l < m)
    <3> HIDE DEF Bad
    <3> QED BY <1>3, <1>5, Least
  <2>2. m \in 0 .. n /\ m \in Nat /\ ~ Fits(section, g[1 .. m], room) BY <1>1, <2>1
  <2>3. CASE m = 0
    <3>1. 1 .. m = {} BY <2>3
    <3>2. g[1 .. m] = Start(room) BY <1>4, <3>1
    <3>3. Fits(section, Start(room), room) BY DEF Fits, Start
    <3> QED BY <2>2, <3>2, <3>3
  <2>4. CASE m # 0
    <3>1. m - 1 \in 0 .. n /\ m - 1 < m /\ m \in 1 .. n BY <1>1, <2>2, <2>4
    <3>2. Fits(section, g[1 .. (m - 1)], room) BY <2>1, <3>1
    <3> HIDE DEF Bad
    <3>3. 1 .. m \in SUBSET (1 .. n) /\ 1 .. m # {} /\ m \in 1 .. m
      <4>1. m \in 1 .. m BY <2>2, <3>1
      <4>2. \A y \in 1 .. m : y \in 1 .. n BY <1>1, <2>2, <3>1
      <4> QED BY <4>1, <4>2
    <3>4. Max(1 .. m) = m
      <4>1. Max(1 .. m) \in 1 .. m /\ \A y \in 1 .. m : Max(1 .. m) >= y BY <1>1, <3>3, Greatest
      <4> DEFINE x == Max(1 .. m)
      <4> HIDE DEF x
      <4>2. x \in 1 .. m /\ x >= m BY <3>3, <4>1 DEF x
      <4>3. x = m BY <2>2, <4>2
      <4> QED BY <4>3 DEF x
    <3>5. (1 .. m) \ {m} = 1 .. (m - 1) BY <2>2
    <3>6. g[1 .. m] = Take(section, g[1 .. (m - 1)], base[m]) BY <1>4, <3>3, <3>4, <3>5
    <3>7. base[m] \in Rows BY <1>1, <3>1
    <3>8. Fits(section, Take(section, g[1 .. (m - 1)], base[m]), room) BY <3>2, <3>7, TakeFits
    <3> QED BY <2>2, <3>6, <3>8
  <2> QED BY <2>3, <2>4
<1>6. Fits(section, g[1 .. n], room)
  <2>1. n \in 0 .. n BY <1>1
  <2> QED BY <1>5, <2>1
<1>7. Taken(section, base, room) = g[1 .. n] BY <1>1, Unfolded DEF g
<1> QED BY <1>6, <1>7

\* The memory block fits whatever the rows are.
LEMMA BlockFits ==
    ASSUME NEW pinned \in Seq(Rows), NEW entity \in Seq(Rows), NEW section \in Nat,
           Room(section) >= 0
    PROVE  format_memory_digest(pinned, entity, section) =< Budget
<1> DEFINE room == Room(section)
           p == TakenPinned(pinned, section)
           e == TakenEntity(pinned, entity, section)
<1>1. /\ Budget \in Nat /\ Caution \in Nat
      /\ room \in Int /\ room >= 0 /\ room = Budget - section - Caution - 64
  BY DigestAssumption DEF Room
<1>2. Fits("pinned", p, room) BY <1>1, TakenFits DEF TakenPinned
<1>3. p.room - EntityHeader \in Int BY <1>2 DEF Fits, EntityHeader
<1>4. Fits("entity", e, p.room - EntityHeader) BY <1>3, TakenFits DEF TakenEntity
<1>5. format_memory_digest(pinned, entity, section) =
          (IF p.count > 0 THEN 52 + p.length + 2 ELSE 0)
          + (IF e.count > 0 THEN 303 + e.length + 2 ELSE 0) + section + 2 + Caution
  BY DEF format_memory_digest, PinnedHeader, EntityHeader
<1> HIDE DEF room, p, e
<1>6. /\ p.room \in Int /\ p.length \in Int /\ p.count \in Nat
      /\ p.count = 0 => p.room = room /\ p.length = 0
      /\ p.count > 0 => p.room + p.length + 1 = room /\ p.room + 1 >= 0
  BY <1>2 DEF Fits, Glue
<1>7. /\ e.room \in Int /\ e.length \in Int /\ e.count \in Nat
      /\ e.count > 0 => e.room + e.length + 2 = p.room - 303 /\ e.room + 2 >= 0
  BY <1>4 DEF Fits, Glue, EntityHeader
<1> DEFINE first == IF p.count > 0 THEN 52 + p.length + 2 ELSE 0
           second == IF e.count > 0 THEN 303 + e.length + 2 ELSE 0
<1>8. first \in Int /\ first + p.room =< room + 53 /\ first =< room + 55
      /\ (p.count > 0 => first + p.room = room + 53)
  <2>1. CASE p.count = 0
    <3>1. first = 0 /\ p.room = room BY <1>6, <2>1
    <3> HIDE DEF first
    <3> QED BY <1>1, <2>1, <3>1
  <2>2. CASE p.count # 0
    <3>1. p.room + p.length + 1 = room /\ p.room + 1 >= 0 BY <1>6, <2>2
    <3>2. first = 54 + p.length BY <1>6, <2>2
    <3>3. room \in Int /\ p.room \in Int /\ p.length \in Int BY <1>1, <1>6
    <3> HIDE DEF first
    <3>4. ASSUME NEW a \in Int, NEW b \in Int, NEW c \in Int, a + b + 1 = c, a + 1 >= 0
          PROVE  54 + b \in Int /\ 54 + b + a = c + 53 /\ 54 + b =< c + 55 /\ c + 53 =< c + 53
      BY <3>4
    <3> QED BY SMTT(30), <3>1, <3>2, <3>3, <3>4
  <2> QED BY <2>1, <2>2
<1>9. second \in Int /\ (second = 0 \/ second =< p.room + 2)
  <2>1. CASE e.count = 0
    <3>1. second = 0 BY <2>1
    <3> HIDE DEF second
    <3> QED BY <3>1
  <2>2. CASE e.count # 0
    <3>1. e.room + e.length + 2 = p.room - 303 /\ e.room + 2 >= 0 BY <1>7, <2>2
    <3>2. second = 305 + e.length BY <1>7, <2>2
    <3>3. p.room \in Int /\ e.room \in Int /\ e.length \in Int BY <1>6, <1>7
    <3> HIDE DEF second
    <3>4. ASSUME NEW a \in Int, NEW b \in Int, NEW c \in Int, a + b + 2 = c - 303, a + 2 >= 0
          PROVE  305 + b \in Int /\ 305 + b =< c + 2
      BY <3>4
    <3> QED BY ZenonT(40), <3>1, <3>2, <3>3, <3>4
  <2> QED BY <2>1, <2>2
<1> HIDE DEF first, second
<1>10. first + second =< room + 60 BY <1>1, <1>6, <1>8, <1>9
<1> QED BY SMTT(30), <1>1, <1>5, <1>8, <1>9, <1>10 DEF first, second

\* The subject keys of a job are finitely many.
LEMMA KeysAreFew ==
    ASSUME NEW inputs \in JobInputs
    PROVE  Cardinality(derive_identity(inputs).keys) \in Nat
<1> DEFINE keys == SubjectKeys(inputs)
<1>1. \E T : keys \in Seq(T)
  <2>1. Images(inputs) \in Seq(ToSet(Images(inputs))) /\ Sites(inputs) \in Seq(ToSet(Sites(inputs)))
    BY ImagesFollow, SitesFollow DEF IsList
  <2> DEFINE s == Images(inputs)
             t == Sites(inputs)
             T == ToSet(s) \cup ToSet(t)
  <2> HIDE DEF s, t
  <2>2. s \in Seq(T) /\ t \in Seq(T)
    <3>1. ToSet(s) \subseteq T /\ ToSet(t) \subseteq T OBVIOUS
    <3> HIDE DEF T
    <3> QED BY <2>1, <3>1, SeqMonotonic DEF s, t
  <2> HIDE DEF T
  <2>3. s \o t \in Seq(T) BY <2>2
  <2>4. Once(s \o t) \in Seq(T) BY <2>3, OnceIs
  <2> QED BY <2>4 DEF SubjectKeys, Images, Sites, s, t
<1>2. PICK T : keys \in Seq(T) BY <1>1
<1> HIDE DEF keys
<1>3. DOMAIN keys = 1 .. Len(keys) /\ Len(keys) \in Nat BY <1>2
<1>4. IsFiniteSet(DOMAIN keys) BY <1>3, FS_Interval
<1> DEFINE f == [i \in DOMAIN keys |-> keys[i]]
<1>5. f \in Surjection(DOMAIN keys, ToSet(keys)) BY DEF ToSet, Surjection
<1> HIDE DEF f
<1>6. IsFiniteSet(ToSet(keys)) BY <1>4, <1>5, FS_Surjection
<1>7. derive_identity(inputs).keys = ToSet(keys) BY DEF derive_identity, keys
<1> QED BY <1>6, <1>7, FS_CardinalityType

\* format_memory_digest: the memory block of a first turn stays within its budget,
\* however long the lines, heads, records and pointers of the rows are.
THEOREM DigestsFit == RecallSpec => []DigestFits
<1>1. ASSUME RecallInv PROVE DigestFits
  <2>1. SUFFICES ASSUME asked.by = "job"
                 PROVE  LET identity == Identity[asked.inputs]
                            section == 400 + 80 * Cardinality(identity.keys)
                        IN  Room(section) >= 0 =>
                                format_memory_digest(RowsAt(Pinned(table)),
                                                     RowsAt(Entity(table, identity)), section)
                                    <= Budget
    BY Zenon DEF DigestFits
  <2> DEFINE identity == Identity[asked.inputs]
             section == 400 + 80 * Cardinality(identity.keys)
             pinned == RowsAt(Pinned(table))
             entity == RowsAt(Entity(table, identity))
  <2>2. table \in Seq(Rows) BY <1>1 DEF RecallInv
  <2>3. asked.inputs \in JobInputs BY <1>1, <2>1 DEF RecallInv, Nothing
  <2>4. section \in Nat
    <3>1. identity = derive_identity(asked.inputs) BY <2>3 DEF Identity
    <3>2. Cardinality(identity.keys) \in Nat BY <2>3, <3>1, KeysAreFew
    <3> QED BY <3>2
  <2>5. ASSUME NEW at \in Seq(DOMAIN table) PROVE RowsAt(at) \in Seq(Rows)
    <3>1. \A i \in DOMAIN table : table[i] \in Rows BY <2>2
    <3>2. DOMAIN at = 1 .. Len(at) /\ Len(at) \in Nat /\ \A k \in 1 .. Len(at) : at[k] \in DOMAIN table
      OBVIOUS
    <3>3. RowsAt(at) \in [1 .. Len(at) -> Rows] BY <3>1, <3>2 DEF RowsAt
    <3> QED BY <3>2, <3>3
  <2>6. pinned \in Seq(Rows) BY <2>2, <2>5, PinnedIs
  <2>7. entity \in Seq(Rows)
    <3>1. About(table, identity) \subseteq DOMAIN table BY DEF About
    <3>2. Entity(table, identity) \in Seq(About(table, identity)) BY <2>2, EntityIs
    <3> HIDE DEF identity
    <3>3. Entity(table, identity) \in Seq(DOMAIN table) BY <3>1, <3>2, SeqMonotonic
    <3> QED BY <2>5, <3>3
  <2> HIDE DEF section, pinned, entity
  <2>8. Room(section) >= 0 => format_memory_digest(pinned, entity, section) =< Budget
    BY <2>4, <2>6, <2>7, BlockFits
  <2> QED BY <2>8 DEF section, pinned, entity
<1> QED BY <1>1, RecallInvariant, PTL

\* Products by a positive number, which the SMT solver has to be told of.
LEMMA Times ==
    ASSUME NEW a \in Int, NEW b \in Int, NEW d \in Nat \ {0}
    PROVE  (a * d < b * d => a < b) /\ (a * d =< b * d => a =< b) /\ (a =< b => a * d =< b * d)
OBVIOUS

\* What divides a number divides it into whole parts.
LEMMA Parts ==
    ASSUME NEW o \in Nat, NEW d \in Nat \ {0}, o % d = 0
    PROVE  o \div d \in Nat /\ o = d * (o \div d)
OBVIOUS

\* Over divides by every RRF_K + rank there is.
LEMMA Reciprocals ==
    ASSUME NEW r \in Nat, r < MaxRows
    PROVE  /\ Over \div (61 + r) \in Nat
           /\ Over = (61 + r) * (Over \div (61 + r))
<1>1. Over \in Nat /\ MaxRows \in Nat BY TableBound
<1>2. 61 + r \in Nat \ {0} /\ r + 1 \in 1 .. MaxRows /\ 60 + (r + 1) = 61 + r BY <1>1
<1>3. Over % (61 + r) = 0 BY <1>2, TableBound
<1> QED BY <1>1, <1>2, <1>3, Parts

\* The weight of an exact match is more than that of a lexical one, of whatever rank,
\* up to the 27th: 10 / (61 + 26) > 7 / 61.
LEMMA TenSevenths ==
    ASSUME NEW r \in Nat, r < MaxRows, r =< 26, NEW s \in Nat, s < MaxRows
    PROVE  10 * (Over \div (61 + r)) > 7 * (Over \div (61 + s))
<1> DEFINE a == Over \div (61 + r)
           b == Over \div (61 + s)
<1>1. a \in Nat /\ Over = (61 + r) * a BY Reciprocals
<1>2. b \in Nat /\ Over = (61 + s) * b BY Reciprocals
<1>3. Over \in Nat /\ Over # 0 BY TableBound
<1> HIDE DEF a, b
<1>4. a # 0 /\ b # 0
  <2>1. ASSUME NEW n \in Nat PROVE n * 0 = 0 OBVIOUS
  <2>2. a = 0 => Over = 0 BY <1>1, <2>1
  <2>3. b = 0 => Over = 0 BY <1>2, <2>1
  <2> QED BY <1>3, <2>2, <2>3
<1>5. (61 + r) * a =< 87 * a
  <2>1. 61 + r =< 87 /\ 61 + r \in Int OBVIOUS
  <2> QED BY <1>1, <1>4, <2>1, Times
<1>6. 61 * b =< (61 + s) * b
  <2>1. 61 =< 61 + s /\ 61 + s \in Int OBVIOUS
  <2> QED BY <1>2, <1>4, <2>1, Times
<1>7. 61 * b =< 87 * a
  <2> DEFINE u == (61 + r) * a
             v == (61 + s) * b
  <2>1. u = Over /\ v = Over /\ u =< 87 * a /\ 61 * b =< v BY <1>1, <1>2, <1>5, <1>6
  <2> HIDE DEF u, v
  <2> QED BY <1>1, <1>2, <1>3, <2>1
<1>8. 10 * a > 7 * b BY <1>1, <1>2, <1>4, <1>7
<1> QED BY <1>8 DEF a, b

\* The words a query hits in a row are counted.
LEMMA HitsAreCounted ==
    ASSUME NEW row, NEW query \in Queries
    PROVE  WordHits(row, query) \in Nat
<1> DEFINE hits == {word \in query.words : Within(word, row.words \cup row.tags)}
           phrase == Phrase(row, query)
           tagged == Cardinality(query.words) = 1 /\ query.words \subseteq row.tags
<1>1. hits \in SUBSET query.words /\ IsFiniteSet(query.words) BY QueriesAssumption
<1>2. Cardinality(hits) \in Nat
  <2> HIDE DEF hits
  <2> QED BY <1>1, FS_Subset, FS_CardinalityType
<1>3. WordHits(row, query) = Cardinality(hits) + (IF phrase THEN 1 ELSE 0) + (IF tagged THEN 1 ELSE 0)
  BY DEF WordHits
<1> HIDE DEF hits, phrase, tagged
<1> QED BY <1>2, <1>3

\* A candidate has fewer ahead of it than there are of them.
LEMMA BehindFewer ==
    ASSUME NEW S, IsFiniteSet(S), NEW x \in S, NEW ahead \in SUBSET S, x \notin ahead
    PROVE  Cardinality(ahead) \in Nat /\ Cardinality(S) \in Nat /\ Cardinality(ahead) < Cardinality(S)
<1>1. IsFiniteSet(ahead) /\ Cardinality(ahead) =< Cardinality(S) /\ Cardinality(ahead) # Cardinality(S)
  BY FS_Subset
<1>2. Cardinality(ahead) \in Nat /\ Cardinality(S) \in Nat BY <1>1, FS_CardinalityType
<1> QED BY <1>1, <1>2

\* How far a row is shaped is a number above nothing.
LEMMA ShapeIs ==
    ASSUME NEW row \in Rows
    PROVE  Shape(row) \in Nat \ {0}
<1>1. row.weight \in Nat BY RowsKeep
<1> DEFINE d == Decay(row)
           w == 1 + row.weight
           p == IF row.pinned THEN 23 ELSE 20
<1>2. d \in Nat \ {0} /\ w \in Nat \ {0} /\ p \in Nat \ {0} BY <1>1 DEF Decay
<1>3. Shape(row) = d * w * p BY DEF Shape
<1> HIDE DEF d, w, p
<1>4. ASSUME NEW m \in Nat \ {0}, NEW n \in Nat \ {0} PROVE m * n \in Nat \ {0} OBVIOUS
<1>5. d * w \in Nat \ {0} BY <1>2, <1>4
<1>6. d * w * p \in Nat \ {0} BY <1>2, <1>4, <1>5
<1> QED BY <1>3, <1>6

\* A number, none of one that is no candidate, or what one of the places of S gives.
RankedIn(S, i, x) ==
    /\ x \in Nat
    /\ i \notin S => x = 0
    /\ i \in S => \E r \in Nat : /\ r < MaxRows /\ r < Cardinality(S)
                                 /\ x = Over \div (61 + r)

\* What a candidate of an arm gets for its place in it.
LEMMA RrfIs ==
    ASSUME NEW n \in Nat, n =< MaxRows, NEW S \in SUBSET (1 .. n), NEW i,
           NEW ahead \in SUBSET S, i \notin ahead
    PROVE  RankedIn(S, i, Rrf(i, S, ahead))
<1>1. MaxRows \in Nat BY TableBound
<1>2. IsFiniteSet(S) /\ Cardinality(S) \in Nat /\ Cardinality(S) =< n
  <2>1. IsFiniteSet(1 .. n) /\ Cardinality(1 .. n) = IF 1 > n THEN 0 ELSE n - 1 + 1 BY FS_Interval
  <2>2. Cardinality(1 .. n) = n BY <2>1
  <2>3. IsFiniteSet(S) /\ Cardinality(S) =< n BY <2>1, <2>2, FS_Subset
  <2> QED BY <2>3, FS_CardinalityType
<1>3. CASE i \notin S BY <1>3 DEF Rrf, RankedIn
<1>4. CASE i \in S
  <2> DEFINE r == Cardinality(ahead)
  <2>1. Rrf(i, S, ahead) = Over \div (61 + r) BY <1>4 DEF Rrf
  <2>2. r \in Nat /\ r < Cardinality(S) BY <1>2, <1>4, BehindFewer
  <2> HIDE DEF r
  <2>3. r < MaxRows BY <1>1, <1>2, <2>2
  <2>4. Over \div (61 + r) \in Nat BY <2>2, <2>3, Reciprocals
  <2> QED BY <1>4, <2>1, <2>2, <2>3, <2>4 DEF RankedIn
<1> QED BY <1>3, <1>4

\* An arm of a search: rows of the table, each with a number.
IsArm(arm, base) == \E S \in SUBSET DOMAIN base : arm \in [S -> Nat]

\* What makes up the score of a row: what identity adds to it, and what the words do.
ScoredBy(base, query, arm, i, e, l) ==
    /\ Score(base, query, arm, i) = Shape(base[i]) * (10 * e + 7 * l)
    /\ i \notin Exact(base, query) => e = 0
    /\ i \in Exact(base, query) =>
          \E r \in Nat : /\ r < MaxRows /\ r < Cardinality(Exact(base, query))
                         /\ e = Over \div (61 + r)
    /\ l = 0 \/ \E s \in Nat : s < MaxRows /\ l = Over \div (61 + s)

\* Every row has a score, so made up.
LEMMA ScoresAre ==
    ASSUME NEW base \in Seq(Rows), Len(base) =< MaxRows, NEW query \in Queries,
           NEW arm, IsArm(arm, base),
           NEW i \in DOMAIN base
    PROVE  /\ Score(base, query, arm, i) \in Nat
           /\ \E e, l \in Nat : ScoredBy(base, query, arm, i, e, l)
<1> DEFINE n == Len(base)
           exact == Exact(base, query)
           lexical == DOMAIN arm
           fresher == {j \in exact : FresherThenNewer(base, j, i)}
           more == {j \in lexical : MoreHits(arm, j, i)}
           e == Rrf(i, exact, fresher)
           l == Rrf(i, lexical, more)
           shape == Shape(base[i])
<1>1. n \in Nat /\ n =< MaxRows /\ DOMAIN base = 1 .. n /\ base[i] \in Rows /\ i \in Nat OBVIOUS
<1>2. exact \in SUBSET (1 .. n) /\ lexical \in SUBSET (1 .. n) BY <1>1 DEF Exact, IsArm
<1>3. i \notin fresher
  <2>1. ~ (i > i) BY <1>1
  <2> QED BY <2>1 DEF FresherThenNewer, Newer
<1>4. i \notin more
  <2>1. i \in lexical => arm[i] \in Nat BY DEF IsArm
  <2>2. i \in lexical => ~ (i > i) /\ ~ (arm[i] > arm[i]) BY <1>1, <2>1
  <2> QED BY <2>2 DEF MoreHits, Newer
<1>5. fresher \in SUBSET exact /\ more \in SUBSET lexical OBVIOUS
<1> HIDE DEF exact, lexical, fresher, more
<1>6. RankedIn(exact, i, e)
  <2> HIDE DEF n
  <2>1. n \in Nat /\ n =< MaxRows BY <1>1
  <2> QED BY <1>2, <1>3, <1>5, <2>1, RrfIs
<1>7. RankedIn(lexical, i, l)
  <2> HIDE DEF n
  <2>1. n \in Nat /\ n =< MaxRows BY <1>1
  <2> QED BY <1>2, <1>4, <1>5, <2>1, RrfIs
<1>8. Score(base, query, arm, i) = shape * (10 * e + 7 * l)
  BY DEF Score, Arms, exact, lexical, fresher, more
<1>9. shape \in Nat BY <1>1, ShapeIs
<1> HIDE DEF e, l, shape
<1>10. shape * (10 * e + 7 * l) \in Nat
  <2>1. 10 * e + 7 * l \in Nat BY <1>6, <1>7 DEF RankedIn
  <2>2. ASSUME NEW a \in Nat, NEW b \in Nat PROVE a * b \in Nat OBVIOUS
  <2> QED BY <1>9, <2>1, <2>2
<1>11. Score(base, query, arm, i) \in Nat BY <1>8, <1>10
<1>12. e \in Nat /\ l \in Nat BY <1>6, <1>7 DEF RankedIn
<1>13. l = 0 \/ \E s \in Nat : s < MaxRows /\ l = Over \div (61 + s) BY <1>7 DEF RankedIn
<1>14. /\ i \notin exact => e = 0
       /\ i \in exact => \E r \in Nat : /\ r < MaxRows /\ r < Cardinality(exact)
                                        /\ e = Over \div (61 + r)
  BY <1>6 DEF RankedIn
<1>15. ScoredBy(base, query, arm, i, e, l) BY <1>8, <1>13, <1>14 DEF ScoredBy, exact, shape
<1> QED BY <1>11, <1>12, <1>15

\* Of two rows shaped alike, an exact match of at most 27 scores more than one that is none.
LEMMA ExactScoresMore ==
    ASSUME NEW base \in Seq(Rows), Len(base) =< MaxRows, NEW query \in Queries,
           NEW arm, IsArm(arm, base),
           NEW i \in Exact(base, query), NEW j \in DOMAIN base \ Exact(base, query),
           Shape(base[i]) = Shape(base[j]),
           Cardinality(Exact(base, query)) \in Nat, Cardinality(Exact(base, query)) =< 27
    PROVE  Score(base, query, arm, i) > Score(base, query, arm, j)
<1> DEFINE shape == Shape(base[i])
           some == Cardinality(Exact(base, query))
<1>1. i \in DOMAIN base /\ j \in DOMAIN base BY DEF Exact
<1>2. shape \in Nat \ {0}
  <2>1. base[i] \in Rows BY <1>1
  <2> QED BY <2>1, ShapeIs
<1>3. PICK e, l \in Nat : ScoredBy(base, query, arm, i, e, l) BY <1>1, ScoresAre
<1>4. PICK f, m \in Nat : ScoredBy(base, query, arm, j, f, m) BY <1>1, ScoresAre
<1>5. PICK r \in Nat : r < MaxRows /\ r < some /\ e = Over \div (61 + r) BY <1>3 DEF ScoredBy, some
<1> HIDE DEF shape, some
<1>6. r =< 26 BY <1>5 DEF some
<1>7. 10 * e > 7 * m
  <2>1. CASE m = 0
    <3>1. 10 * e > 7 * (Over \div (61 + r)) BY <1>5, <1>6, TenSevenths
    <3>2. Over \div (61 + r) \in Nat BY <1>5, Reciprocals
    <3> QED BY <2>1, <3>1, <3>2
  <2>2. CASE m # 0
    <3>1. PICK s \in Nat : s < MaxRows /\ m = Over \div (61 + s) BY <1>4, <2>2 DEF ScoredBy
    <3> QED BY <1>5, <1>6, <3>1, TenSevenths
  <2> QED BY <2>1, <2>2
<1> DEFINE a == 10 * e + 7 * l
           b == 10 * f + 7 * m
<1>8. a \in Nat /\ b \in Nat /\ b < a
  <2>1. f = 0 BY <1>4 DEF ScoredBy
  <2> QED BY <1>7, <2>1
<1> HIDE DEF a, b
<1>9. b * shape < a * shape
  <2>1. b + 1 \in Int /\ b + 1 =< a BY <1>8
  <2>2. (b + 1) * shape =< a * shape BY <1>2, <1>8, <2>1, Times
  <2>3. (b + 1) * shape = b * shape + shape BY <1>2, <1>8
  <2>4. b * shape \in Int /\ a * shape \in Int BY <1>2, <1>8
  <2> DEFINE u == b * shape
             v == a * shape
             w == (b + 1) * shape
  <2>5. w =< v /\ w = u + shape /\ u \in Int /\ v \in Int BY <2>2, <2>3, <2>4
  <2> HIDE DEF u, v, w
  <2>6. u < v BY <1>2, <2>5
  <2> QED BY <2>6 DEF u, v
<1>10. shape * a = a * shape /\ shape * b = b * shape BY <1>2, <1>8
<1>11. Score(base, query, arm, i) = a * shape /\ Score(base, query, arm, j) = b * shape
  BY <1>3, <1>4, <1>10 DEF ScoredBy, shape, a, b
<1>12. a * shape \in Int /\ b * shape \in Int BY <1>2, <1>8
<1> QED BY <1>9, <1>11, <1>12

\* The better of two candidates: one order.
LEMMA BetterOrders ==
    ASSUME NEW base \in Seq(Rows), Len(base) =< MaxRows, NEW query \in Queries,
           NEW arm, IsArm(arm, base),
           NEW S \in SUBSET DOMAIN base
    PROVE  Orders({pair \in S \X S : HigherScore(base, query, arm, pair[1], pair[2])}, S)
<1> DEFINE Ahead(i, j) == HigherScore(base, query, arm, i, j)
           R == {pair \in S \X S : Ahead(pair[1], pair[2])}
           score == [i \in S |-> Score(base, query, arm, i)]
<1>1. \A i \in S : i \in Nat /\ score[i] \in Nat
  <2>1. \A i \in S : i \in Nat /\ i \in DOMAIN base OBVIOUS
  <2> QED BY <2>1, ScoresAre
<1>2. \A i, j \in S : Ahead(i, j) <=> score[i] > score[j] \/ (score[i] = score[j] /\ i < j)
  BY DEF HigherScore
<1>3. \A x, y \in S : <<x, y>> \in R <=> Ahead(x, y) OBVIOUS
<1> HIDE DEF R, Ahead, score
<1>4. \A x \in S : <<x, x>> \notin R
  <2>1. \A x \in S : ~ (score[x] > score[x]) /\ ~ (x < x) BY <1>1
  <2> QED BY <1>2, <1>3, <2>1
<1>5. ASSUME NEW x \in S, NEW y \in S, NEW z \in S, <<x, y>> \in R, <<y, z>> \in R
      PROVE  <<x, z>> \in R
  <2>1. Ahead(x, y) /\ Ahead(y, z) BY <1>3, <1>5
  <2>2. Ahead(x, z) BY <1>1, <1>2, <2>1
  <2> QED BY <1>3, <2>2
<1>6. ASSUME NEW x \in S, NEW y \in S
      PROVE  x = y \/ <<x, y>> \in R \/ <<y, x>> \in R
  <2>1. x = y \/ Ahead(x, y) \/ Ahead(y, x) BY <1>1, <1>2
  <2> QED BY <1>3, <2>1
<1>7. Orders(R, S) BY <1>4, <1>5, <1>6 DEF Orders
<1> QED BY <1>7 DEF R, Ahead

\* An answer before the limit: the candidates S, each once, the better first.
IsAnswer(answer, S, base, query, arm) ==
    /\ S \in SUBSET DOMAIN base /\ answer \in Seq(S)
    /\ \A x \in S : \E k \in DOMAIN answer : answer[k] = x
    /\ \A j, k \in DOMAIN answer : j < k => HigherScore(base, query, arm, answer[j], answer[k])

\* So is what a search that names anything gives.
LEMMA AnswerIs ==
    ASSUME NEW base \in Seq(Rows), Len(base) =< MaxRows, NEW query \in Queries,
           NEW arm, IsArm(arm, base),
           ~ (query.key = NoKey /\ query.hash = NoKey /\ query.words = {})
    PROVE  IsAnswer(Answer(base, query, arm), Exact(base, query) \cup DOMAIN arm,
                    base, query, arm)
<1>0. PICK answer : answer = Answer(base, query, arm) OBVIOUS
<1> DEFINE S == Exact(base, query) \cup DOMAIN arm
           R == {pair \in S \X S : HigherScore(base, query, arm, pair[1], pair[2])}
           n == Cardinality(S)
<1>1. answer = InOrder(S, R) BY <1>0 DEF Answer, Ranked
<1>2. S \in SUBSET DOMAIN base BY DEF Exact, IsArm
<1>3. IsFiniteSet(S)
  <2>1. DOMAIN base = 1 .. Len(base) /\ Len(base) \in Nat OBVIOUS
  <2>2. IsFiniteSet(DOMAIN base) BY <2>1, FS_Interval
  <2> HIDE DEF S
  <2> QED BY <1>2, <2>2, FS_Subset
<1>4. \A x, y \in S : <<x, y>> \in R => HigherScore(base, query, arm, x, y) OBVIOUS
<1> HIDE DEF S
<1>5. Orders(R, S) BY <1>2, BetterOrders
<1> HIDE DEF R
<1>6. /\ n \in Nat /\ answer \in [1 .. n -> S]
      /\ \A x \in S : \E k \in 1 .. n : answer[k] = x
      /\ \A j, k \in 1 .. n : j < k => <<answer[j], answer[k]>> \in R
  BY <1>1, <1>3, <1>5, OrderedIs
<1> HIDE DEF n
<1>7. answer \in Seq(S) /\ DOMAIN answer = 1 .. n BY <1>6
<1>8. \A j, k \in DOMAIN answer : answer[j] \in S /\ answer[k] \in S BY <1>6, <1>7
<1>9. \A j, k \in DOMAIN answer :
          j < k => HigherScore(base, query, arm, answer[j], answer[k])
  BY <1>4, <1>6, <1>7, <1>8
<1>10. \A x \in S : \E k \in DOMAIN answer : answer[k] = x BY <1>6, <1>7
<1>11. IsAnswer(answer, S, base, query, arm) BY <1>2, <1>7, <1>9, <1>10 DEF IsAnswer
<1> QED BY <1>0, <1>11 DEF S

\* A search's limit is a number.
LEMMA LimitIs ==
    ASSUME NEW query \in Queries
    PROVE  Limit(query) \in Nat
<1>1. query.limit \in Int BY QueriesAssumption
<1> QED BY <1>1 DEF Limit

\* The arms of both stores are arms.
LEMMA ArmsAre ==
    ASSUME NEW base \in Seq(Rows), NEW query \in Queries
    PROVE  /\ IsArm(LocalArm(base, query), base)
           /\ \A ts_rank \in [HostedLexical(base, query) -> 1 .. MaxRows] :
                 IsArm(HostedArm(base, query, ts_rank), base)
<1>1. IsArm(LocalArm(base, query), base)
  <2> DEFINE S == LocalLexical(base, query)
  <2>1. S \in SUBSET DOMAIN base BY DEF LocalLexical
  <2> HIDE DEF S
  <2>2. \A i \in S : WordHits(base[i], query) \in Nat BY HitsAreCounted
  <2>3. LocalArm(base, query) \in [S -> Nat] BY <2>2 DEF LocalArm, S
  <2> QED BY <2>1, <2>3 DEF IsArm
<1>2. ASSUME NEW ts_rank \in [HostedLexical(base, query) -> 1 .. MaxRows]
      PROVE  IsArm(HostedArm(base, query, ts_rank), base)
  <2> DEFINE S == HostedLexical(base, query)
  <2>1. S \in SUBSET DOMAIN base BY DEF HostedLexical
  <2> HIDE DEF S
  <2>2. MaxRows \in Nat BY TableBound
  <2>3. \A i \in S : ts_rank[i] \in Nat BY <2>2 DEF S
  <2>4. HostedArm(base, query, ts_rank) \in [S -> Nat] BY <2>3 DEF HostedArm, S
  <2> QED BY <2>1, <2>4 DEF IsArm
<1> QED BY <1>1, <1>2

\* memory_search, cut at the limit: of rows alike in age, importance and pin, those
\* that match by identity come before the others, and none of them is cut instead.
LEMMA IdentityLeads ==
    ASSUME NEW base \in Seq(Rows), Len(base) =< MaxRows, NEW query \in Queries,
           NEW arm, IsArm(arm, base),
           Cardinality(Exact(base, query)) \in Nat, Cardinality(Exact(base, query)) =< 27,
           NEW given, given = FirstOf(Answer(base, query, arm), Limit(query)),
           NEW i \in Exact(base, query), NEW q \in DOMAIN given,
           given[q] \notin Exact(base, query), Shape(base[i]) = Shape(base[given[q]])
    PROVE  \E p \in 1 .. q - 1 : given[p] = i
<1>0. PICK exact, S : exact = Exact(base, query) /\ S = exact \cup DOMAIN arm OBVIOUS
<1>1. PICK answer : answer = Answer(base, query, arm) OBVIOUS
<1>2. ~ (query.key = NoKey /\ query.hash = NoKey /\ query.words = {}) BY DEF Exact
<1>3. /\ S \in SUBSET DOMAIN base /\ answer \in Seq(S)
      /\ \A x \in S : \E k \in DOMAIN answer : answer[k] = x
      /\ \A j, k \in DOMAIN answer : j < k => HigherScore(base, query, arm, answer[j], answer[k])
  <2>1. IsAnswer(answer, S, base, query, arm) BY <1>0, <1>1, <1>2, AnswerIs
  <2> QED BY <2>1 DEF IsAnswer
<1>4. /\ given \in Seq(S) /\ Len(given) =< Len(answer)
      /\ \A k \in 1 .. Len(given) : given[k] = answer[k]
  <2>1. PICK limit \in Nat : limit = Limit(query) BY LimitIs
  <2>2. given = FirstOf(answer, limit) BY <1>1, <2>1
  <2>3. answer \in Seq(S) BY <1>3
  <2>4. /\ FirstOf(answer, limit) \in Seq(S)
        /\ Len(FirstOf(answer, limit)) =< Len(answer)
        /\ \A k \in 1 .. Len(FirstOf(answer, limit)) :
               FirstOf(answer, limit)[k] = answer[k]
    BY <2>1, <2>3, FirstOfKeeps
  <2> QED BY <2>2, <2>4
<1>5. PICK k \in DOMAIN answer : answer[k] = i BY <1>0, <1>3
<1>6. /\ k \in 1 .. Len(answer) /\ q \in 1 .. Len(given) /\ q \in DOMAIN answer
      /\ Len(given) \in Nat /\ Len(answer) \in Nat /\ k \in Nat /\ q \in Nat
  <2>1. DOMAIN answer = 1 .. Len(answer) /\ Len(answer) \in Nat BY <1>3
  <2>2. DOMAIN given = 1 .. Len(given) /\ Len(given) \in Nat BY <1>4
  <2> QED BY <1>4, <1>5, <2>1, <2>2
<1>7. given[q] = answer[q] BY <1>4, <1>6
<1>8. given[q] \in DOMAIN base \ exact /\ i \in DOMAIN base BY <1>0, <1>3, <1>4, <1>6 DEF Exact
<1>9. Score(base, query, arm, i) > Score(base, query, arm, given[q])
  BY <1>0, <1>8, ExactScoresMore
<1>10. Score(base, query, arm, i) \in Nat /\ Score(base, query, arm, given[q]) \in Nat
  BY <1>8, ScoresAre
<1>11. ~ (q < k)
  <2>1. SUFFICES ASSUME q < k PROVE FALSE OBVIOUS
  <2>2. HigherScore(base, query, arm, given[q], i) BY <1>3, <1>5, <1>6, <1>7, <2>1
  <2>3. Score(base, query, arm, given[q]) >= Score(base, query, arm, i)
    BY <1>10, <2>2 DEF HigherScore
  <2> QED BY <1>9, <1>10, <2>3
<1>12. k # q BY <1>5, <1>7
<1>13. k \in 1 .. q - 1 /\ k \in 1 .. Len(given) BY <1>6, <1>11, <1>12
<1> QED BY <1>4, <1>5, <1>13

\* memory_search of either store: of rows alike in age, importance and pin, those that
\* match the query by identity come first, and are not cut for those that do not,
\* while 27 rows at most match so.
THEOREM IdentityComesFirst == RecallSpec => []IdentityDominates
<1>1. ASSUME RecallInv PROVE IdentityDominates
  <2>1. SUFFICES ASSUME asked.by = "agent", FewMatches,
                        NEW given \in {local_search(table, asked.query)} \cup HostedAnswers(asked.query),
                        NEW i \in Exact(table, asked.query), NEW q \in DOMAIN given,
                        given[q] \notin Exact(table, asked.query),
                        Shape(table[i]) = Shape(table[given[q]])
                 PROVE  \E p \in 1 .. q - 1 : given[p] = i
    BY Zenon DEF IdentityDominates
  <2>2. table \in Seq(Rows) /\ Len(table) =< MaxRows BY <1>1 DEF RecallInv
  <2>3. asked.query \in Queries BY <1>1, <2>1 DEF RecallInv, Nothing
  <2>4. IsFiniteSet(Exact(table, asked.query))
    <3>1. DOMAIN table = 1 .. Len(table) /\ Len(table) \in Nat BY <2>2
    <3>2. IsFiniteSet(DOMAIN table) BY <3>1, FS_Interval
    <3>3. Exact(table, asked.query) \in SUBSET DOMAIN table BY DEF Exact
    <3> QED BY <3>2, <3>3, FS_Subset
  <2>5. Cardinality(Exact(table, asked.query)) \in Nat /\ Cardinality(Exact(table, asked.query)) =< 27
    BY <2>1, <2>4, FS_CardinalityType DEF FewMatches
  <2>6. PICK arm : /\ IsArm(arm, table)
                   /\ given = FirstOf(Answer(table, asked.query, arm), Limit(asked.query))
    <3>1. CASE given = local_search(table, asked.query)
      BY <2>2, <2>3, <3>1, ArmsAre DEF local_search
    <3>2. CASE given \in HostedAnswers(asked.query)
      <4>1. PICK ts_rank \in [HostedLexical(table, asked.query) -> 1 .. MaxRows] :
                given = hosted_search(table, asked.query, ts_rank)
        BY <3>2 DEF HostedAnswers
      <4> QED BY <2>2, <2>3, <4>1, ArmsAre DEF hosted_search
    <3> QED BY <2>1, <3>1, <3>2
  <2> QED BY <2>1, <2>2, <2>3, <2>5, <2>6, IdentityLeads
<1> QED BY <1>1, RecallInvariant, PTL

\* memory_search: what a plain-word search returns on Postgres it returns in SQLite,
\* or the rows SQLite prefers to it fill the answer up to the limit.
THEOREM LocalFindsAll == RecallSpec => []HostedFoundLocally
<1>1. ASSUME RecallInv PROVE HostedFoundLocally
  <2>1. SUFFICES ASSUME asked.by = "agent",
                        NEW hosted \in HostedAnswers(asked.query), NEW q \in DOMAIN hosted
                 PROVE  \/ Contains(local_search(table, asked.query), hosted[q])
                        \/ Len(local_search(table, asked.query)) = Limit(asked.query)
    BY Zenon DEF HostedFoundLocally
  <2>2. table \in Seq(Rows) /\ Len(table) =< MaxRows BY <1>1 DEF RecallInv
  <2>3. asked.query \in Queries BY <1>1, <2>1 DEF RecallInv, Nothing
  <2>4. PICK query : query = asked.query OBVIOUS
  <2>5. PICK ts_rank \in [HostedLexical(table, query) -> 1 .. MaxRows] :
            hosted = hosted_search(table, query, ts_rank)
    BY <2>1, <2>4 DEF HostedAnswers
  <2>6. PICK here : here = LocalArm(table, query) OBVIOUS
  <2>7. PICK there : there = HostedArm(table, query, ts_rank) OBVIOUS
  <2>8. IsArm(here, table) /\ IsArm(there, table)
    BY <2>2, <2>3, <2>4, <2>5, <2>6, <2>7, ArmsAre
  <2>9. /\ local_search(table, query) = FirstOf(Answer(table, query, here), Limit(query))
        /\ hosted = FirstOf(Answer(table, query, there), Limit(query))
    BY <2>5, <2>6, <2>7 DEF local_search, hosted_search
  <2>10. CASE query.key = NoKey /\ query.hash = NoKey /\ query.words = {}
    <3>1. Answer(table, query, here) = Answer(table, query, there) BY <2>10 DEF Answer
    <3>2. local_search(table, query) = hosted BY <2>9, <3>1
    <3> QED BY <2>1, <2>4, <3>2 DEF Contains
  <2>11. CASE ~ (query.key = NoKey /\ query.hash = NoKey /\ query.words = {})
    <3>1. PICK mine : mine = Answer(table, query, here) OBVIOUS
    <3>2. PICK theirs : theirs = Answer(table, query, there) OBVIOUS
    <3> DEFINE S == Exact(table, query) \cup DOMAIN here
               T == Exact(table, query) \cup DOMAIN there
    <3>3. mine \in Seq(S) /\ \A x \in S : \E k \in DOMAIN mine : mine[k] = x
      BY <2>2, <2>3, <2>4, <2>8, <2>11, <3>1, AnswerIs DEF IsAnswer
    <3>4. theirs \in Seq(T)
      BY <2>2, <2>3, <2>4, <2>8, <2>11, <3>2, AnswerIs DEF IsAnswer
    <3>5. Limit(query) \in Nat BY <2>3, <2>4, LimitIs
    <3>6. hosted \in Seq(T) BY <2>9, <3>2, <3>4, <3>5, FirstOfKeeps
    <3>7. hosted[q] \in T BY <2>1, <3>6
    <3>8. DOMAIN here = LocalLexical(table, query) /\ DOMAIN there = HostedLexical(table, query)
      BY <2>6, <2>7 DEF LocalArm, HostedArm
    <3>9. \A i \in HostedLexical(table, query) : i \in LocalLexical(table, query)
      BY <2>2, <2>3, <2>4, WordsFindLocally
    <3>10. hosted[q] \in S BY <3>7, <3>8, <3>9
    <3> HIDE DEF S, T
    <3>11. \/ \A k \in DOMAIN mine : Contains(FirstOf(mine, Limit(query)), mine[k])
           \/ Len(FirstOf(mine, Limit(query))) = Limit(query)
      BY <3>3, <3>5, FirstOfIs
    <3> QED BY <2>4, <2>9, <3>1, <3>3, <3>10, <3>11
  <2> QED BY <2>10, <2>11
<1> QED BY <1>1, RecallInvariant, PTL
=============================================================================
