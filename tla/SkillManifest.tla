---------------------------- MODULE SkillManifest ----------------------------
(***************************************************************************)
(* A skill.yaml and the declaration worker/manifest.py makes of it.  A     *)
(* text is a name, and an empty one None; a key that is absent is None, or *)
(* <<>> where a list is wanted.  A schema is the text it stands for.  An   *)
(* entrypoint is a file, its extension and, after a colon, a function.     *)
(*                                                                         *)
(*   mistyped   the keys whose value is not of the type wanted, those of   *)
(*              tools, examples and graders among them                     *)
(*   strange    there is a key outside TOP_LEVEL_KEYS and `model`          *)
(***************************************************************************)
EXTENDS Integers, Sequences, SequencesExt, FiniteSets, TLC

CONSTANTS
    None,
    Slugs,          \* bound: the names that are slugs, as the directories are
    Models          \* the slugs of llm_models.MODELS

Blank == "blank"

\* str.strip() of a text, None when nothing is left.
Stripped(t) == IF t = Blank THEN None ELSE t

is_agentic(e) == e.ext \in {".md", ".MD"} /\ e.func = None
_PY_ENTRYPOINT(e) == e # None /\ e.ext = ".py" /\ e.func # None

NamesOnce(items) == \A i, j \in DOMAIN items : items[i].name = items[j].name => i = j

-----------------------------------------------------------------------------
(* What is rejected.                                                       *)

\* A skill tool names its target and copies the rest from it.
AcceptableTool(t) ==
    /\ t.name \in Slugs
    /\ IF t.skill # None
       THEN /\ t.skill \in Slugs
            /\ t.entrypoint = None /\ t.input_schema = None /\ t.output_schema = None
       ELSE /\ _PY_ENTRYPOINT(t.entrypoint)
            /\ t.input_schema # None /\ t.output_schema # None

AcceptableExample(x) == x.inputs # None

AcceptableGrader(g) ==
    /\ g.name \in Slugs /\ g.weight > 0
    /\ \/ g.kind = "check" /\ _PY_ENTRYPOINT(g.entrypoint)
       \/ g.kind = "rubric" /\ g.criteria \notin {None, Blank}
       \/ g.kind = "exact_match" /\ g.field # Blank
       \/ g.kind = "schema"

AcceptableDataset(d) ==
    d.eval_dataset # None =>
        /\ is_agentic(d.entrypoint)
        /\ d.eval_dataset.inside /\ d.eval_dataset.ext = ".jsonl"

AcceptableRouting(d) ==
    d.routing # None =>
        /\ is_agentic(d.entrypoint)
        /\ d.routing.escalate_to \in Models \ {d.model}
        /\ d.routing.on \subseteq {"schema_fail"}
        /\ d.routing.after >= 1

AcceptableMarketing(m) ==
    m # None =>
        /\ \A c \in ToSet(m.cards) : c.title \notin {None, Blank}
        /\ m.rows # None => m.rows # <<>> /\ \A r \in ToSet(m.rows) : r.dimension \notin {None, Blank}
        /\ \A f \in ToSet(m.faq) : f.q \notin {None, Blank} /\ f.a \notin {None, Blank}

\* _parse_tool_limits, _parse_cache_ttl.
AcceptableLimits(d) == \A t \in DOMAIN d.tool_limits : d.tool_limits[t] >= 1

AcceptableTtl(d) == d.cache_ttl \in {None, "5m", "1h"}

\* The entrypoint decides what else the skill may declare.
Acceptable(d) ==
    /\ d.mistyped = {} /\ ~d.strange
    /\ d.entrypoint # None
    /\ is_agentic(d.entrypoint) \/ _PY_ENTRYPOINT(d.entrypoint)
    /\ d.input_schema # None /\ d.output_schema # None
    /\ d.model # None => d.model \in Models
    /\ ~is_agentic(d.entrypoint) =>
            d.model = None /\ ~d.disable_bash /\ d.tools = <<>> /\ d.evals = <<>>
    /\ (\A t \in ToSet(d.tools) : AcceptableTool(t)) /\ NamesOnce(d.tools)
    /\ \A x \in ToSet(d.examples) : AcceptableExample(x)
    /\ (\A g \in ToSet(d.evals) : AcceptableGrader(g)) /\ NamesOnce(d.evals)
    /\ AcceptableDataset(d) /\ AcceptableRouting(d) /\ AcceptableMarketing(d.marketing)
    /\ AcceptableLimits(d) /\ AcceptableTtl(d)

-----------------------------------------------------------------------------
(* What is kept.                                                           *)

OrElse(value, default) == IF value = None THEN default ELSE value
Listed(names) == SelectSeq([i \in DOMAIN names |-> Stripped(names[i])], LAMBDA n : n # None)

ToolDecl(t) ==
    IF t.skill # None
    THEN [name |-> t.name, description |-> Stripped(t.description), skill_ref |-> t.skill,
          entrypoint |-> None, input_schema |-> None, output_schema |-> None, confirm |-> t.confirm]
    ELSE [name |-> t.name, description |-> Stripped(t.description), skill_ref |-> None,
          entrypoint |-> t.entrypoint, input_schema |-> t.input_schema,
          output_schema |-> t.output_schema, confirm |-> t.confirm]

SkillExample(x) ==
    [inputs |-> x.inputs, outputs |-> x.outputs, title |-> Stripped(x.title), description |-> Stripped(x.description)]

\* A grader keeps what its kind wants.
EvalDecl(g) ==
    LET Of(kind, value) == IF g.kind = kind THEN value ELSE None
    IN  [name |-> g.name, kind |-> g.kind, weight |-> g.weight,
         entrypoint |-> Of("check", g.entrypoint), criteria |-> Of("rubric", g.criteria),
         levels |-> Of("rubric", g.levels), field |-> Of("exact_match", g.field),
         schema |-> Of("schema", g.schema)]

_parse_routing(r) ==
    IF r = None THEN None ELSE [r EXCEPT !.on = {"schema_fail"}]

\* A section with nothing in it is left out.
_parse_marketing(m) ==
    IF m = None \/ (Listed(m.keywords) = <<>> /\ m.cards = <<>> /\ m.rows = None /\ m.faq = <<>>)
    THEN None
    ELSE [keywords |-> Listed(m.keywords),
          cards |-> [i \in DOMAIN m.cards |-> [m.cards[i] EXCEPT !.body = Stripped(@)]],
          rows |-> m.rows, faq |-> m.faq]

\* A list of no name that is left restricts nothing.
_parse_allowed_tools(names) ==
    IF names = None \/ Listed(names) = <<>> THEN None ELSE Listed(names)

\* _build_decl, of what is acceptable.  Of the models it reads `model` alone.
_build_decl(slug, path, d) ==
    [name |-> slug, path |-> path, parent_skill |-> None,
     title |-> Stripped(d.title), description |-> Stripped(d.description),
     entrypoint |-> d.entrypoint, input_schema |-> d.input_schema, output_schema |-> d.output_schema,
     model |-> d.model, image_model |-> None, video_model |-> None, audio_model |-> None,
     media_kinds |-> <<>>, disable_bash |-> d.disable_bash,
     tools |-> [i \in DOMAIN d.tools |-> ToolDecl(d.tools[i])],
     examples |-> [i \in DOMAIN d.examples |-> SkillExample(d.examples[i])],
     evals |-> [i \in DOMAIN d.evals |-> EvalDecl(d.evals[i])], eval_dataset |-> d.eval_dataset,
     routing |-> _parse_routing(d.routing), marketing |-> _parse_marketing(d.marketing),
     allowed_tools |-> _parse_allowed_tools(d.allowed_tools),
     tool_limits |-> d.tool_limits, cache_ttl |-> OrElse(d.cache_ttl, "5m")]

-----------------------------------------------------------------------------
(* The stored manifest (SkillDecl.to_dict, from_stored_dict).              *)

\* The JSON of a declaration: whether it is agentic besides.
to_dict(s) ==
    [key \in DOMAIN s \cup {"is_agentic"} |->
        IF key = "is_agentic" THEN is_agentic(s.entrypoint) ELSE s[key]]

\* Mutant: the reader of the row predates `confirm`.
RestoredToolUnconfirmed(t) == [t EXCEPT !.confirm = FALSE]

RestoredTool(t) ==
    [name |-> t.name, description |-> t.description, entrypoint |-> t.entrypoint,
     input_schema |-> t.input_schema, output_schema |-> t.output_schema,
     skill_ref |-> t.skill_ref, confirm |-> t.confirm]

\* The items at the places kept, in their order.
Kept(items, places) ==
    LET upTo[n \in 0 .. Len(items)] ==
            IF n = 0 THEN <<>>
            ELSE IF n \in places THEN Append(upTo[n - 1], items[n]) ELSE upTo[n - 1]
    IN  upTo[Len(items)]

RestoredExamples(xs) == Kept(xs, {i \in DOMAIN xs : xs[i].inputs # None})

\* A weight of nothing counts as one; a grader of another kind is dropped.
RestoredEvals(gs) ==
    LET known == Kept(gs, {i \in DOMAIN gs : gs[i].kind \in {"check", "rubric", "exact_match", "schema"}})
    IN  [i \in DOMAIN known |-> [known[i] EXCEPT !.weight = IF @ = 0 THEN 1 ELSE @]]

from_stored_dict(row) ==
    [name |-> row.name, path |-> row.path, parent_skill |-> row.parent_skill,
     title |-> row.title, description |-> row.description,
     entrypoint |-> row.entrypoint, input_schema |-> row.input_schema, output_schema |-> row.output_schema,
     model |-> row.model, image_model |-> row.image_model, video_model |-> row.video_model,
     audio_model |-> row.audio_model, media_kinds |-> row.media_kinds, disable_bash |-> row.disable_bash,
     tools |-> [i \in DOMAIN row.tools |-> RestoredTool(row.tools[i])],
     examples |-> RestoredExamples(row.examples),
     evals |-> RestoredEvals(row.evals), eval_dataset |-> row.eval_dataset,
     routing |-> row.routing, marketing |-> row.marketing, allowed_tools |-> row.allowed_tools,
     tool_limits |-> row.tool_limits,
     cache_ttl |-> IF row.cache_ttl \in {"5m", "1h"} THEN row.cache_ttl ELSE "5m"]
=============================================================================
