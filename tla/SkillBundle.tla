----------------------------- MODULE SkillBundle -----------------------------
(***************************************************************************)
(* A bundle of skills: how a directory, a pushed zip and the extracted     *)
(* deployment are parsed (worker/manifest.py), what loading a skill gives  *)
(* (worker/skill_loader.py), and which skill a dispatch within the bundle  *)
(* runs (agent_runner._resolve_local_subagent).                            *)
(*                                                                         *)
(* A bundle is the set of its top directories: the name, the skill.yaml or *)
(* None, the files, and the directories under subskills/, of the same      *)
(* shape.  Names of skills and paths are sequences of segments.            *)
(***************************************************************************)
EXTENDS SkillManifest

EXCLUDE_DIRS == {".git", "venv", "env", "node_modules", "dist", "build"}

Declared(b) == {t \in b : t.yaml # None}

\* zip_skillpack leaves the excluded directories out, wherever they are.
zip_skillpack(b) ==
    {[t EXCEPT !.subs = {s \in t.subs : s.name \notin EXCLUDE_DIRS}]
        : t \in {t \in b : t.name \notin EXCLUDE_DIRS}}

-----------------------------------------------------------------------------
(* The two parsers: what each accepts, and the skills it finds.            *)

\* _verify_entrypoint_file_exists: the directory is at hand.
Readable(x) == Acceptable(x.yaml) /\ x.yaml.entrypoint.file \in x.files

DirAccepts(b) ==
    /\ Declared(b) # {}
    /\ \A t \in Declared(b) :
        /\ t.name \in Slugs /\ Readable(t)
        /\ \A s \in t.subs : s.yaml # None /\ s.name \in Slugs /\ Readable(s)

ZipAccepts(b) ==
    /\ Declared(b) # {}
    /\ \A t \in Declared(b) : t.name \in Slugs /\ Acceptable(t.yaml)
    /\ \A t \in b : \A s \in Declared(t.subs) :
            t.name \in Slugs /\ s.name \in Slugs /\ t.yaml # None /\ Acceptable(s.yaml)

TopDecl(t) == _build_decl(<<t.name>>, <<t.name>>, t.yaml)

\* Mutant: the path is left as it was parsed.
SubDeclFlat(t, s) ==
    [_build_decl(<<t.name, s.name>>, <<t.name, s.name>>, s.yaml) EXCEPT !.parent_skill = t.name]

\* The path is first that of a top skill of the qualified name.
SubDecl(t, s) ==
    [_build_decl(<<t.name, s.name>>, <<t.name, s.name>>, s.yaml) EXCEPT
        !.path = <<t.name, "subskills", s.name>>, !.parent_skill = t.name]

ZippedSubDecl(t, s) ==
    [_build_decl(<<t.name, s.name>>, <<t.name, "subskills", s.name>>, s.yaml) EXCEPT
        !.parent_skill = t.name]

parse_bundle_dir(b) ==
    {TopDecl(t) : t \in Declared(b)} \cup UNION {{SubDecl(t, s) : s \in t.subs} : t \in Declared(b)}

parse_bundle_zip(b) ==
    {TopDecl(t) : t \in Declared(b)}
        \cup UNION {{ZippedSubDecl(t, s) : s \in Declared(t.subs)} : t \in b}

-----------------------------------------------------------------------------
(* Loading.  A load that raises gives None.                                *)

skill(manifest, name) == {s \in manifest : s.name = name}

\* The directory a path leads to, if there is one.
DirAt(b, path) ==
    IF Len(path) = 1 THEN {t \in b : t.name = path[1]}
    ELSE UNION {{s \in t.subs : path = <<t.name, "subskills", s.name>>} : t \in b}

\* The candidates are tried in order; a subskill only by a skill of its parent.
ToolTarget(ref, decl, manifest) ==
    LET top == decl.name[1]
        own == skill(manifest, <<top, ref>>)
        Reachable == {s \in own : s.parent_skill \in {None, top}}
    IN  IF Reachable # {} THEN Reachable ELSE skill(manifest, <<ref>>)

\* A skill tool shows its target's schemas.
_load_tool(t, decl, manifest) ==
    IF t.skill_ref = None
    THEN [name |-> t.name, description |-> t.description, skill_ref |-> None,
          file |-> decl.path \o <<t.entrypoint.file>>, func |-> t.entrypoint.func,
          input_schema |-> t.input_schema, output_schema |-> t.output_schema, confirm |-> t.confirm]
    ELSE LET target == CHOOSE s \in ToolTarget(t.skill_ref, decl, manifest) : TRUE
         IN  [name |-> t.name, description |-> OrElse(t.description, target.description),
              skill_ref |-> target.name, file |-> <<>>, func |-> None,
              input_schema |-> target.input_schema, output_schema |-> target.output_schema,
              confirm |-> t.confirm]

_load_eval(g, decl) ==
    [name |-> g.name, kind |-> g.kind, weight |-> g.weight, criteria |-> g.criteria,
     levels |-> g.levels, field |-> g.field, schema |-> g.schema,
     file |-> IF g.entrypoint = None THEN <<>> ELSE decl.path \o <<g.entrypoint.file>>,
     func |-> IF g.entrypoint = None THEN None ELSE g.entrypoint.func]

Loads(b, manifest, decl) ==
    /\ \E x \in DirAt(b, decl.path) : decl.entrypoint.file \in x.files
    /\ is_agentic(decl.entrypoint) =>
            \A t \in ToSet(decl.tools) : t.skill_ref = None \/ ToolTarget(t.skill_ref, decl, manifest) # {}

LoadedSkill(decl, manifest) ==
    [name |-> decl.name, root |-> decl.path, is_adhoc |-> FALSE,
     is_agentic |-> is_agentic(decl.entrypoint),
     input_schema |-> decl.input_schema, output_schema |-> decl.output_schema,
     prompt |-> decl.path \o <<decl.entrypoint.file>>, func |-> decl.entrypoint.func,
     model |-> decl.model, disable_bash |-> decl.disable_bash,
     tools |-> [i \in DOMAIN decl.tools |-> _load_tool(decl.tools[i], decl, manifest)],
     evals |-> [i \in DOMAIN decl.evals |-> _load_eval(decl.evals[i], decl)],
     eval_dataset |-> decl.eval_dataset, routing |-> decl.routing,
     allowed_tools |-> decl.allowed_tools, tool_limits |-> decl.tool_limits, cache_ttl |-> decl.cache_ttl]

load(b, manifest, name) ==
    LET found == {s \in skill(manifest, name) : Loads(b, manifest, s)}
    IN  IF found = {} THEN None ELSE LoadedSkill(CHOOSE s \in found : TRUE, manifest)

\* A prompt of one's own: free-form, with no tools and the default model.
Adhoc(name, root, prompt) ==
    [name |-> name, root |-> root, is_adhoc |-> TRUE, is_agentic |-> TRUE,
     input_schema |-> None, output_schema |-> None, prompt |-> prompt, func |-> None,
     model |-> None, disable_bash |-> FALSE, tools |-> <<>>, evals |-> <<>>, eval_dataset |-> None,
     routing |-> None, allowed_tools |-> None, tool_limits |-> <<>>, cache_ttl |-> "5m"]

\* The first segment of the file's path is the skill that owns it.
load_adhoc(b, rel) ==
    IF \E t \in b : Len(rel) = 2 /\ t.name = rel[1] /\ rel[2] \in t.files
    THEN Adhoc(rel, <<rel[1]>>, rel) ELSE None

load_inline(prompt) == IF Stripped(prompt) = None THEN None ELSE Adhoc(<<"@inline">>, <<>>, <<prompt>>)

-----------------------------------------------------------------------------
(* _resolve_local_subagent: None is a ref of another skillpack.  A parent  *)
(* is a loaded skill; a ref is a skill's name or the path of an .md file.  *)

\* Mutant: the name as it stands comes first.
CandidatesBare(parent, ref) ==
    IF Len(ref) = 1 THEN <<ref, <<parent.name[1]>> \o ref>> ELSE <<ref>>

Candidates(parent, ref) ==
    IF Len(ref) = 1 THEN <<<<parent.name[1]>> \o ref, ref>> ELSE <<ref>>

SkillNamed(b, manifest, parent, ref) ==
    LET tried == Candidates(parent, ref)
        first == SelectInSeq(tried, LAMBDA c : load(b, manifest, c) # None)
    IN  IF first = 0 THEN None ELSE load(b, manifest, tried[first])

PromptNamed(b, parent, rel) ==
    load_adhoc(b, IF rel[1] = parent.name[1] THEN rel ELSE <<parent.name[1]>> \o rel)

_resolve_local_subagent(b, manifest, parent, target) ==
    CASE target.is = "prompt" -> load_inline(target.text)
      [] target.is = "file"   -> PromptNamed(b, parent, target.ref)
      [] target.is = "skill"  -> SkillNamed(b, manifest, parent, target.ref)

-----------------------------------------------------------------------------
\* What a skill tool shows the model is what a call of it runs: the dispatch of
\* its ref, wherever the caller is, finds the skill whose schemas _load_tool
\* copied, a top one or the caller's own, and never another parent's subskill;
\* the author's bare ref does so too.  And a prompt file is the caller's own,
\* whoever else has one of that name.
\* (Two resolvers in two files, and a third one in the API.)
ToolsRunWhatTheyShow(Bundles) ==
    \A b \in {b \in Bundles : DirAccepts(b)} :
        LET manifest == parse_bundle_dir(b)
        IN  \A decl \in {s \in manifest : Loads(b, manifest, s) /\ is_agentic(s.entrypoint)} :
                LET caller == LoadedSkill(decl, manifest)
                    Run(is, ref) ==
                        _resolve_local_subagent(b, manifest, caller, [is |-> is, ref |-> ref])
                    Shown(i) == caller.tools[i]
                    Faithful(run, tool) ==
                        /\ run.name = tool.skill_ref
                        /\ run.input_schema = tool.input_schema /\ run.output_schema = tool.output_schema
                        /\ \A s \in skill(manifest, run.name) : s.parent_skill \in {None, decl.name[1]}
                IN  /\ \A i \in DOMAIN caller.tools :
                        Shown(i).skill_ref # None /\ load(b, manifest, Shown(i).skill_ref) # None =>
                            /\ Faithful(Run("skill", Shown(i).skill_ref), Shown(i))
                            /\ Faithful(Run("skill", <<decl.tools[i].skill_ref>>), Shown(i))
                    /\ \A file \in UNION {t.files : t \in b} :
                        LET prompt == Run("file", <<file>>)
                        IN  prompt # None => prompt.prompt = <<decl.name[1], file>>

\* A deployment is parsed twice, from the pushed zip by the API and from the
\* extracted directory by the worker: when both accept it they find the same
\* declarations, and each one's path leads to its directory
\* (_parse_skill_yaml: "otherwise the worker re-parses a deployment from disk
\* and stamps a stale path").
ReparsedAsPushed(Bundles) ==
    \A b \in {zip_skillpack(root) : root \in Bundles} : ZipAccepts(b) /\ DirAccepts(b) =>
        /\ parse_bundle_dir(b) = parse_bundle_zip(b)
        /\ \A s \in parse_bundle_dir(b) :
            \E x \in DirAt(b, s.path) : s.entrypoint.file \in x.files

\* The stored manifest gives every declaration back, whatever it declares: the
\* confirm gate, the scope and limits of its tools, the graders and the weights
\* (to_dict, from_stored_dict: "so a worker re-parse -> re-store round-trip
\* doesn't drop it").
StoredManifestSurvives(Yamls) ==
    \A d \in Yamls : Acceptable(d) =>
        LET decl == _build_decl(<<"a">>, <<"a">>, d) IN from_stored_dict(to_dict(decl)) = decl
=============================================================================
