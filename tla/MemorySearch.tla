---------------------------- MODULE MemorySearch ----------------------------
(***************************************************************************)
(* What memory_search and memory_context return: memory_store.py on        *)
(* Postgres, memory_store_sqlite.py offline.  A table is the sequence of   *)
(* the rows that are not deleted, by updated_at; `aged` says whether their *)
(* recency has decayed to its floor, `weight` is their importance in       *)
(* halves.  A query is [key, hash, words, limit], None, empty or 0 where   *)
(* the agent leaves an argument out.                                       *)
(***************************************************************************)
EXTENDS MemoryIdentity, FiniteSetsExt

CONSTANTS
    Inside,         \* pairs of words: the first is a substring of the second
    PinnedLimit, EntityLimit,
    Over            \* bound: a multiple of the RRF_K + rank there are

Within(word, words) == \E v \in words : word = v \/ <<word, v>> \in Inside

Newer(i, j) == i > j

\* Some rows, each behind those that are better.
Ranked(found, Better(_, _)) ==
    InOrder(found, {pair \in found \X found : Better(pair[1], pair[2])})

FresherThenNewer(table, i, j) ==
    \/ table[i].fresh /\ ~table[j].fresh
    \/ table[i].fresh = table[j].fresh /\ Newer(i, j)

-----------------------------------------------------------------------------
(* memory_search: the candidates of its arms.                              *)

Exact(table, query) ==
    {i \in DOMAIN table :
        \/ query.key # NoKey /\ (table[i].key = query.key \/ query.key \in table[i].aliases)
        \/ query.hash # NoKey /\ table[i].hash = query.hash}

\* The whole query inside the title or the summary.
Phrase(row, query) ==
    Cardinality(query.words) = 1 /\ \A word \in query.words : Within(word, row.words)

\* websearch_to_tsquery wants every word; the tag is compared to '%query%'.
HostedLexical(table, query) ==
    {i \in DOMAIN table :
        query.words # {} /\ (query.words \subseteq table[i].words \/ Phrase(table[i], query))}

\* Mutant: every word, as the hosted store wants.
WordHitsAll(row, query) ==
    IF query.words \subseteq row.words THEN Cardinality(query.words) ELSE 0

\* Any word anywhere in the row, tags included; a phrase and a tag count more.
WordHits(row, query) ==
    Cardinality({word \in query.words : Within(word, row.words \cup row.tags)})
    + (IF Phrase(row, query) THEN 1 ELSE 0)
    + (IF Cardinality(query.words) = 1 /\ query.words \subseteq row.tags THEN 1 ELSE 0)

LocalLexical(table, query) == {i \in DOMAIN table : WordHits(table[i], query) > 0}

\* The lexical arm of a store: the rows it finds, and how well each was hit.
LocalArm(table, query) == [i \in LocalLexical(table, query) |-> WordHits(table[i], query)]

\* ts_rank is Postgres's own: any.
HostedArm(table, query, ts_rank) == [i \in HostedLexical(table, query) |-> ts_rank[i]]

-----------------------------------------------------------------------------
(* memory_search: fused and shaped.  The scale makes every term a natural  *)
(* number: reciprocals over Over, weights in tenths, decay and pin in      *)
(* twentieths.                                                             *)

\* Mutant: the weights of the two arms swapped.
ArmsSwapped(exact, lexical) == 7 * exact + 10 * lexical

\* SIGNAL_WEIGHTS of the two arms.
Arms(exact, lexical) == 10 * exact + 7 * lexical

\* weight / (RRF_K + rank) of a candidate behind those ahead, 0 of the others.
Rrf(i, chosen, ahead) ==
    IF i \in chosen THEN Over \div (61 + Cardinality(ahead)) ELSE 0

Decay(row) == IF row.aged THEN 7 ELSE 20
Shape(row) == Decay(row) * (1 + row.weight) * (IF row.pinned THEN 23 ELSE 20)

MoreHits(arm, i, j) == arm[i] > arm[j] \/ (arm[i] = arm[j] /\ Newer(i, j))

Score(table, query, arm, i) ==
    LET exact == Exact(table, query)
    IN  Shape(table[i])
        * Arms(Rrf(i, exact, {j \in exact : FresherThenNewer(table, j, i)}),
               Rrf(i, DOMAIN arm, {j \in DOMAIN arm : MoreHits(arm, j, i)}))

\* Ties are settled by the order of the fused ids; any will do.
HigherScore(table, query, arm, i, j) ==
    \/ Score(table, query, arm, i) > Score(table, query, arm, j)
    \/ Score(table, query, arm, i) = Score(table, query, arm, j) /\ i < j

Browse(table, i, j) ==
    \/ table[i].fresh /\ ~table[j].fresh
    \/ /\ table[i].fresh = table[j].fresh
       /\ \/ table[i].weight > table[j].weight
          \/ table[i].weight = table[j].weight /\ Newer(i, j)

FirstOf(seq, limit) == SubSeq(seq, 1, IF Len(seq) < limit THEN Len(seq) ELSE limit)

\* max(1, min(int(limit or 8), 50))
Limit(query) ==
    LET wanted == IF query.limit = 0 THEN 8 ELSE query.limit
    IN  IF wanted < 1 THEN 1 ELSE IF wanted > 50 THEN 50 ELSE wanted

\* No key, no hash, no words: a browse.  Otherwise the candidates only, best first.
Answer(table, query, arm) ==
    IF query.key = NoKey /\ query.hash = NoKey /\ query.words = {}
    THEN Ranked(DOMAIN table, LAMBDA i, j : Browse(table, i, j))
    ELSE Ranked(Exact(table, query) \cup DOMAIN arm,
                LAMBDA i, j : HigherScore(table, query, arm, i, j))

local_search(table, query) ==
    FirstOf(Answer(table, query, LocalArm(table, query)), Limit(query))

hosted_search(table, query, ts_rank) ==
    FirstOf(Answer(table, query, HostedArm(table, query, ts_rank)), Limit(query))

-----------------------------------------------------------------------------
(* memory_context: what a job is given at its start.                       *)

HeavierThenNewer(table, i, j) ==
    \/ table[i].weight > table[j].weight
    \/ table[i].weight = table[j].weight /\ Newer(i, j)

\* Rows of one mtype first.
TypeFirst(table, mtype, i, j) ==
    \/ table[i].mtype = mtype /\ table[j].mtype # mtype
    \/ /\ (table[i].mtype = mtype) = (table[j].mtype = mtype)
       /\ HeavierThenNewer(table, i, j)

Pinned(table) ==
    FirstOf(Ranked({i \in DOMAIN table : table[i].pinned /\ table[i].fresh},
                   LAMBDA i, j : TypeFirst(table, "procedural", i, j)),
            PinnedLimit)

\* The rows about the job's subject: by key, alias or fingerprint.
About(table, identity) ==
    {i \in DOMAIN table :
        /\ table[i].mtype \in {"semantic", "episodic"} /\ table[i].fresh
        /\ \/ table[i].key \in identity.keys
           \/ table[i].aliases \cap identity.keys # {}
           \/ table[i].hash = identity.fingerprint}

Entity(table, identity) ==
    FirstOf(Ranked(About(table, identity), LAMBDA i, j : TypeFirst(table, "semantic", i, j)),
            EntityLimit)
=============================================================================
