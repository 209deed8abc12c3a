---------------------------- MODULE CachedSkills ----------------------------
(***************************************************************************)
(* What a job finds in the deployment it uses: DeploymentCache with the    *)
(* bundles that may have been pushed (SkillBundle) and the manifests that  *)
(* are stored of them (SkillManifest).                                     *)
(***************************************************************************)
EXTENDS DeploymentCache, SkillBundle

CONSTANTS
    Bundles,        \* the directories an author may push
    Yamls           \* what an author may write in a skill.yaml

\* A directory has one entry of a name.
NamesApart(dirs) == \A x, y \in dirs : x.name = y.name => x = y

ASSUME BundlesAssumption ==
    \A b \in Bundles : NamesApart(b) /\ \A t \in b : NamesApart(t.subs)

IsList(s) == s \in Seq(ToSet(s))

\* The examples and the graders are lists, the weights numbers: _build_decl
\* rejects any other (`mistyped`).
ASSUME YamlsAssumption ==
    \A d \in Yamls :
        /\ IsList(d.examples) /\ IsList(d.evals)
        /\ \A i \in DOMAIN d.evals : d.evals[i].weight \in Int

-----------------------------------------------------------------------------
ToolsFaithful == ToolsRunWhatTheyShow(Bundles)
ParsersAgree == ReparsedAsPushed(Bundles)
StorageFaithful == StoredManifestSurvives(Yamls)

InUse == \E job \in Callers : pc[job] = "using"

\* A job that uses a cached deployment calls the skills its tools show
\* (ToolsRunWhatTheyShow, for every bundle that may have been pushed).
UsersCallWhatTheySee == InUse => ToolsFaithful

\* A job that uses a cached deployment finds in it the skills the API found in
\* the zip (ReparsedAsPushed).
UsersFindWhatWasPushed == InUse => ParsersAgree

\* A job that uses a cached deployment is held to every gate and limit the
\* stored manifest shows (StoredManifestSurvives).
UsersKeepTheManifest == InUse => StorageFaithful
=============================================================================
