------------------------------ MODULE MCRecall ------------------------------
(* Inputs that name one page in several ways, records near the budget.     *)
EXTENDS Recall

U(scheme, host, upper, slash, query) ==
    [scheme |-> scheme, host |-> host, upper |-> upper, query |-> query,
     slash |-> slash, fragment |-> upper]

Plain == U("https", "x.co", FALSE, FALSE, FALSE)
Dressed == U("https", "x.co", TRUE, TRUE, FALSE)
Item == U("https", "x.co", FALSE, FALSE, TRUE)
Bare == U("www.", "y.co", FALSE, FALSE, FALSE)

File(c) == [is |-> "file", of |-> c]
Page(u) == [is |-> "url", of |-> u]
Prose(urls) == [is |-> "text", of |-> urls]

SomeInputs ==
    {<<Page(Plain)>>,
     <<Prose(<<Item, Dressed>>), File("a")>>,
     <<Prose(<<Dressed, Item, Bare>>)>>,
     <<[is |-> "files", of |-> <<NoKey, "a">>], Page(Bare)>>,
     <<[is |-> "scalar", of |-> 1], [is |-> "other", of |-> NoKey]>>}

R(mtype, weight, pinned, words, tags, line, head, record) ==
    [mtype |-> mtype, weight |-> weight, pinned |-> pinned, words |-> words,
     tags |-> tags, line |-> line, head |-> head, record |-> record, pointer |-> 90]

\* A pinned line that fills what a job of one key has; a summary too long to fit.
SomeStyles ==
    {R("semantic", 1, FALSE, {"running"}, {}, 60, 80, 5000),
     R("semantic", 2, TRUE, {"shoe"}, {}, Room(480) - 1, 80, 20),
     R("episodic", 1, FALSE, {"running", "shoe"}, {}, 60, 23000, 500),
     R("procedural", 1, TRUE, {"run"}, {"run"}, 600, 80, 2000)}

SomeQueries ==
    {[key |-> k, hash |-> NoKey, words |-> w, limit |-> l] :
        k \in {NoKey, [url |-> Normalized(Plain)]},
        w \in {{}, {"run"}, {"shoe"}, {"running", "shoe"}},
        l \in {-1, 0}}

SubWords == {<<"run", "running">>}
=============================================================================
