------------------------------- MODULE Codegen -------------------------------
(* The plugin's generate and package commands over the files of a hook's       *)
(* project: what they read, write and leave behind when they fail or are       *)
(* killed, and what the next command makes of it.  A resource's project is one *)
(* without targets.  Commands run one at a time; the developer may edit while  *)
(* one is running.                                                             *)
EXTENDS Naturals, FiniteSets

CONSTANTS
    Targets,   \* types a hook may target, each with a generated module
    Deps,      \* distributions that requirements.txt may name
    MaxEdits   \* bound: edits of the developer

ASSUME MaxEditsAssumption == MaxEdits \in Nat

VARIABLES
    \* the developer's files
    schema,    \* version of the schemas, those of the targets included
    wanted,    \* the targets of the project
    code,      \* version of what is written by hand
    reqs,      \* requirements.txt
    \* generated files
    models,    \* schema models.py was generated from; 0 if there is none
    modules,   \* the same for the module of each target
    \* build/
    copied,    \* build/<package>: {} if it is not there, {tree} if it holds tree
    installed, \* the distributions installed in build/
    \* the command
    pc,        \* its next step
    loaded,    \* what it has read: schema and targets of the project
    todo,      \* targets whose module is still to be written
    archive,   \* the zip file that package fills
    outcome,   \* how the last command ended
    stuck,     \* history: rmtree failed to remove something in this command
    edited     \* history: an edit was made during this command

developer == <<schema, wanted, code, reqs>>
generated == <<models, modules>>
build == <<copied, installed>>
vars == <<developer, generated, build, pc, loaded, todo, archive, outcome, stuck, edited>>

Versions == 0..(MaxEdits + 1)

\* The files of the handler package, src/<package>; 0 stands for a missing one.
TreeType == [code : Versions, models : Versions, modules : [Targets -> Versions]]
Tree == [code |-> code, models |-> models, modules |-> modules]

\* What is there of a tree that is copied or removed in part.
Parts(tree) ==
    [code : {0, tree.code}, models : {0, tree.models},
     modules : {m \in [Targets -> Versions] : \A t \in Targets : m[t] \in {0, tree.modules[t]}}]

EmptyArchive == [inner |-> {}, deps |-> {}, outer |-> {}]

CodegenTypeOK ==
    /\ schema \in Versions /\ code \in Versions
    /\ wanted \subseteq Targets /\ reqs \subseteq Deps
    /\ models \in Versions /\ modules \in [Targets -> Versions]
    /\ copied \subseteq TreeType /\ Cardinality(copied) <= 1 /\ installed \subseteq Deps
    /\ pc \in {"idle", "models", "clear", "targets", "remove", "build", "copy", "zip", "sources"}
    /\ loaded \in [schema : Versions, targets : SUBSET Targets]
    /\ loaded.schema <= schema /\ todo \subseteq loaded.targets
    /\ DOMAIN archive = {"inner", "deps", "outer"} /\ archive.deps \subseteq Deps
    /\ archive.inner \cup archive.outer \subseteq TreeType
    /\ outcome \in {"none", "generated", "packaged", "failed"}
    /\ stuck \in BOOLEAN /\ edited \in BOOLEAN

\* A project after init: nothing is generated yet.
Init ==
    /\ schema = 1 /\ wanted \in SUBSET Targets /\ code = 1 /\ reqs \in SUBSET Deps
    /\ models = 0 /\ modules = [t \in Targets |-> 0]
    /\ copied = {} /\ installed = {}
    /\ pc = "idle" /\ loaded = [schema |-> 1, targets |-> {}] /\ todo = {}
    /\ archive = EmptyArchive /\ outcome = "none"
    /\ stuck = FALSE /\ edited = FALSE

\* The developer changes the schemas, the code or the requirements.
Edit ==
    /\ schema + code < MaxEdits + 2
    /\ \/ schema' = schema + 1 /\ wanted' \in SUBSET Targets /\ UNCHANGED <<code, reqs>>
       \/ code' = code + 1 /\ reqs' \in SUBSET Deps /\ UNCHANGED <<schema, wanted>>
    /\ edited' = TRUE
    /\ UNCHANGED <<generated, build, pc, loaded, todo, archive, outcome, stuck>>

Start(first) ==
    /\ pc = "idle" /\ pc' = first
    /\ loaded' = [schema |-> schema, targets |-> wanted]
    /\ outcome' = "none" /\ stuck' = FALSE /\ edited' = FALSE
    /\ archive' = EmptyArchive /\ todo' = {}
    /\ UNCHANGED <<developer, generated, build>>

End(how) == pc' = "idle" /\ outcome' = how

-----------------------------------------------------------------------------
(* generate                                                                  *)

Generate == Start("models")

\* Schema and type configuration resolve, and models.py is overwritten.
WriteModels ==
    /\ pc = "models" /\ pc' = "clear"
    /\ models' = loaded.schema
    /\ UNCHANGED <<developer, modules, build, loaded, todo, archive, outcome, stuck, edited>>

\* A slip: a module for every type ever targeted.
ClearTargetsAll ==
    /\ pc = "clear" /\ pc' = "targets" /\ todo' = Targets
    /\ UNCHANGED <<developer, generated, build, loaded, archive, outcome, stuck, edited>>

\* A slip: the folder of the target models is not removed first.
ClearTargetsNot ==
    /\ pc = "clear" /\ pc' = "targets" /\ todo' = loaded.targets
    /\ UNCHANGED <<developer, generated, build, loaded, archive, outcome, stuck, edited>>

\* rmtree with ignore_errors leaves the modules it cannot remove.
ClearTargets ==
    /\ pc = "clear" /\ pc' = "targets" /\ todo' = loaded.targets
    /\ \E kept \in SUBSET {t \in Targets : modules[t] # 0} :
          /\ modules' = [t \in Targets |-> IF t \in kept THEN modules[t] ELSE 0]
          /\ stuck' = (kept # {})
    /\ UNCHANGED <<developer, models, build, loaded, archive, outcome, edited>>

WriteTarget ==
    /\ pc = "targets"
    /\ \E t \in todo :
          modules' = [modules EXCEPT ![t] = loaded.schema] /\ todo' = todo \ {t}
    /\ UNCHANGED <<developer, models, build, pc, loaded, archive, outcome, stuck, edited>>

Generated ==
    /\ pc = "targets" /\ todo = {} /\ End("generated")
    /\ UNCHANGED <<developer, generated, build, loaded, todo, archive, stuck, edited>>

-----------------------------------------------------------------------------
(* package                                                                   *)

Package == Start("remove")

\* A slip: the build folder is not removed first.
RemoveBuildArtifactsNot ==
    /\ pc = "remove" /\ pc' = "build"
    /\ UNCHANGED <<developer, generated, build, loaded, todo, archive, outcome, stuck, edited>>

\* _remove_build_artifacts: rmtree with ignore_errors on build/.
RemoveBuildArtifacts ==
    /\ pc = "remove" /\ pc' = "build"
    /\ installed' \in SUBSET installed
    /\ copied' \in {{}} \cup {{part} : part \in UNION {Parts(tree) : tree \in copied}}
    /\ stuck' = (installed' # {} \/ copied' # {})
    /\ UNCHANGED <<developer, generated, loaded, todo, archive, outcome, edited>>

\* A slip: check=True is left out, and a failed installation goes unnoticed.
BuildFailsUnnoticed ==
    /\ pc = "build" /\ pc' = "copy"
    /\ \E some \in SUBSET reqs : installed' = installed \cup some
    /\ UNCHANGED <<developer, generated, copied, loaded, todo, archive, outcome, stuck, edited>>

\* pip fails, in docker or not, having installed some of the distributions.
BuildFails ==
    /\ pc = "build" /\ End("failed")
    /\ \E some \in SUBSET reqs : installed' = installed \cup some
    /\ UNCHANGED <<developer, generated, copied, loaded, todo, archive, stuck, edited>>

\* pip install --upgrade --requirement requirements.txt --target build
Build ==
    /\ pc = "build" /\ pc' = "copy"
    /\ installed' = installed \cup reqs
    /\ UNCHANGED <<developer, generated, copied, loaded, todo, archive, outcome, stuck, edited>>

\* A slip: copytree with dirs_exist_ok, which keeps the files of an earlier copy
\* that are gone from the package by now.
CopyHandlersOver ==
    /\ pc = "copy" /\ pc' = "zip"
    /\ \E old \in copied \cup {Tree} :
          /\ copied # {} => old \in copied
          /\ copied' = {[Tree EXCEPT !.modules = [t \in Targets |->
                             IF modules[t] = 0 THEN old.modules[t] ELSE modules[t]]]}
    /\ UNCHANGED <<developer, generated, installed, loaded, todo, archive, outcome, stuck,
                   edited>>

\* copytree: into a folder that is not there.
CopyHandlers ==
    /\ pc = "copy" /\ copied = {}
    /\ pc' = "zip" /\ copied' = {Tree}
    /\ UNCHANGED <<developer, generated, installed, loaded, todo, archive, outcome, stuck,
                   edited>>

\* copytree raises FileExistsError, or stops half way.
CopyFails ==
    /\ pc = "copy" /\ End("failed")
    /\ IF copied = {} THEN copied' \in {{part} : part \in Parts(Tree)}
                      ELSE UNCHANGED copied
    /\ UNCHANGED <<developer, generated, installed, loaded, todo, archive, stuck, edited>>

\* _pre_package(build_path) becomes ResourceProvider.zip.
ZipBuild ==
    /\ pc = "zip" /\ pc' = "sources"
    /\ archive' = [archive EXCEPT !.inner = copied, !.deps = installed]
    /\ UNCHANGED <<developer, generated, build, loaded, todo, outcome, stuck, edited>>

\* The handler package itself goes into the archive too.
ZipSources ==
    /\ pc = "sources" /\ End("packaged")
    /\ archive' = [archive EXCEPT !.outer = {Tree}]
    /\ UNCHANGED <<developer, generated, build, loaded, todo, stuck, edited>>

\* A step raises (a schema does not resolve, the disk is full), or the command is
\* killed between two steps.
Fails ==
    /\ pc # "idle" /\ End("failed")
    /\ UNCHANGED <<developer, generated, build, loaded, todo, archive, stuck, edited>>

Next ==
    \/ Edit \/ Generate \/ Package
    \/ WriteModels \/ ClearTargets \/ WriteTarget \/ Generated
    \/ RemoveBuildArtifacts \/ BuildFails \/ Build \/ CopyHandlers \/ CopyFails
    \/ ZipBuild \/ ZipSources \/ Fails

Spec == Init /\ [][Next]_vars

-----------------------------------------------------------------------------
(* Properties.                                                               *)

\* Whatever earlier commands left half done, a generate that succeeds leaves the
\* models of the schemas it read, and no module of a target the project no
\* longer has unless rmtree could not remove it.
GenerateRepairs ==
    outcome = "generated" =>
        /\ models = loaded.schema
        /\ \A t \in loaded.targets : modules[t] = loaded.schema
        /\ \A t \in Targets \ loaded.targets : modules[t] # 0 => stuck

\* What is deployed is what is in the project: unless an edit was made meanwhile,
\* the handler package in ResourceProvider.zip is the one in the source folder,
\* even when rmtree left an earlier copy of it behind.
DeployedCodeIsCurrent ==
    outcome = "packaged" /\ ~edited => archive.inner = {Tree} /\ archive.outer = {Tree}

\* ResourceProvider.zip has all that requirements.txt names, and nothing else
\* unless rmtree could not remove what an earlier build installed.
DeployedDepsAreCurrent ==
    outcome = "packaged" /\ ~edited =>
        reqs \subseteq archive.deps /\ (archive.deps # reqs => stuck)

\* What the README of a generated project promises: whatever models.py was, generate
\* and package both write it anew, so what is deployed fits the schemas.
PackagedModelsAreGenerated ==
    outcome = "packaged" /\ ~edited /\ models # 0 =>
        \A tree \in archive.inner : tree.models = loaded.schema
=============================================================================
