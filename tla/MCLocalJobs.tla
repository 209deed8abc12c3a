----------------------------- MODULE MCLocalJobs -----------------------------
(* A bundle of an agentic skill, a deterministic one inside it and a prompt.*)
EXTENDS LocalJobs

SomeBundle ==
    {[name |-> "writer", parent |-> NoName, is_agentic |-> TRUE],
     [name |-> "writer/count", parent |-> "writer", is_agentic |-> FALSE]}

SomePaths == {<<"pack", "writer">>, <<"pack", "count">>, <<"writer">>, <<"brief.md">>}
=============================================================================
