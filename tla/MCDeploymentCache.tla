-------------------------- MODULE MCDeploymentCache --------------------------
(* Two processes share deployments_root; the first has two callers.  The   *)
(* bundles it caches: two skills that name their helpers alike, and what   *)
(* an author may write in a skill.yaml, one key at a time.                 *)
EXTENDS CachedSkills

CONSTANTS a, b, c, p1, p2, e1, e2

TwoThreadsAndAnother == a :> p1 @@ b :> p1 @@ c :> p2

Markdown == [file |-> "SKILL.md", ext |-> ".md", func |-> None]
Python == [file |-> "main.py", ext |-> ".py", func |-> "run"]
Script == [file |-> "main.sh", ext |-> ".sh", func |-> None]

LocalTool == [name |-> "count", skill |-> None, description |-> None, entrypoint |-> Python,
              input_schema |-> "n", output_schema |-> "m", confirm |-> TRUE]
SkillTool == [LocalTool EXCEPT !.name = "help", !.skill = "help", !.entrypoint = None,
                               !.input_schema = None, !.output_schema = None]
Grader(kind) == [name |-> kind, kind |-> kind, weight |-> 2, entrypoint |-> Python, criteria |-> "good",
                 levels |-> "low to high", field |-> "label", schema |-> "shape"]

Plain == [mistyped |-> {}, strange |-> FALSE, entrypoint |-> Markdown, title |-> "T", description |-> None,
          input_schema |-> "in", output_schema |-> "out", model |-> None, disable_bash |-> FALSE,
          tools |-> <<>>, examples |-> <<>>, evals |-> <<>>, eval_dataset |-> None, routing |-> None,
          marketing |-> None, allowed_tools |-> None, tool_limits |-> <<>>, cache_ttl |-> None]

Full == [Plain EXCEPT
    !.model = "claude/haiku", !.disable_bash = TRUE, !.tools = <<LocalTool, SkillTool>>,
    !.examples = <<[inputs |-> "i", outputs |-> "o", title |-> Blank, description |-> "d"]>>,
    !.evals = <<Grader("check"), Grader("rubric"), Grader("exact_match"), Grader("schema")>>,
    !.eval_dataset = [inside |-> TRUE, ext |-> ".jsonl"],
    !.routing = [escalate_to |-> "claude/sonnet", on |-> {}, after |-> 2],
    !.marketing = [keywords |-> <<"k", Blank>>, cards |-> <<[title |-> "c", body |-> None]>>,
                   rows |-> None, faq |-> <<>>],
    !.allowed_tools = <<"count", Blank>>, !.tool_limits = [count |-> 1], !.cache_ttl = "1h"]

\* One key of either at a time, as it should be and as it should not.
SomeYamls ==
    LET Vary(d) ==
        {d} \cup {[d EXCEPT !.entrypoint = e] : e \in {None, Python, Script}}
            \cup {[d EXCEPT !.mistyped = {"tools"}], [d EXCEPT !.strange = TRUE],
                  [d EXCEPT !.model = "llama"], [d EXCEPT !.model = "claude/sonnet"],
                  [d EXCEPT !.tools = <<LocalTool, LocalTool>>],
                  [d EXCEPT !.tools = <<[LocalTool EXCEPT !.entrypoint = Script]>>],
                  [d EXCEPT !.tools = <<[SkillTool EXCEPT !.input_schema = "n"]>>],
                  [d EXCEPT !.evals = <<Grader("hunch")>>],
                  [d EXCEPT !.eval_dataset = [inside |-> FALSE, ext |-> ".jsonl"]],
                  [d EXCEPT !.routing = [escalate_to |-> "claude/haiku", on |-> {"stuck"}, after |-> 0]],
                  [d EXCEPT !.marketing = [keywords |-> <<Blank>>, cards |-> <<>>, rows |-> None, faq |-> <<>>]],
                  [d EXCEPT !.allowed_tools = <<Blank>>], [d EXCEPT !.tool_limits = [count |-> 0]],
                  [d EXCEPT !.cache_ttl = "2h"]}
    IN  Vary(Plain) \cup Vary(Full)

Helped == [Plain EXCEPT !.tools = <<SkillTool>>]
Dir(name, yaml, subs) == [name |-> name, yaml |-> yaml, subs |-> subs,
                          files |-> {"brief.md"} \cup IF yaml = None THEN {} ELSE {yaml.entrypoint.file}]

\* Each of two skills, and the helper beside and below them, or none of it.
SomeBundles ==
    LET Helper(schema) == Dir("help", [Plain EXCEPT !.input_schema = schema], {})
        Subs(schema) == {{}, {Helper(schema)}, {Helper(schema), Dir("plan", Helped, {})},
                         {Dir("build", Plain, {})}, {Dir("help", None, {})}}
    IN  {{Dir("a", Helped, x), Dir("b", yaml, y)} \cup z :
            x \in Subs("in a"), yaml \in {None, Helped, Full}, y \in Subs("in b"),
            z \in {{}, {Dir("help", [Plain EXCEPT !.entrypoint = Python], {})},
                   {[Dir("help", Plain, {}) EXCEPT !.files = {}]}, {Dir("dist", Plain, {})}}}

=============================================================================
