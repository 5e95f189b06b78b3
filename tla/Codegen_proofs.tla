---------------------------- MODULE Codegen_proofs ----------------------------
(* Proofs about generate and package, for every set of targets and of           *)
(* distributions and every number of edits.                                     *)
EXTENDS Codegen, FiniteSetTheorems, TLAPS

-----------------------------------------------------------------------------
(* The inductive invariant.                                                     *)

\* The archive, and the versions that have been written by hand so far.
FilesInv ==
    /\ archive \in [inner : SUBSET TreeType, deps : SUBSET Deps, outer : SUBSET TreeType]
    /\ schema >= 1 /\ code >= 1

\* A command has no outcome until it ends.
RunningInv == pc # "idle" => outcome = "none"

\* How far generate is: what is behind it is of the schemas it read.
GenerateInv ==
    /\ pc \in {"clear", "targets"} => models = loaded.schema
    /\ pc = "targets" =>
          /\ \A t \in loaded.targets \ todo : modules[t] = loaded.schema
          /\ \A t \in Targets \ loaded.targets : modules[t] # 0 => stuck
    /\ GenerateRepairs

\* How far package is: what is copied is what was in the source folder when the
\* command began, unless there was an edit since.
CopyInv ==
    /\ pc = "zip" /\ ~edited => copied = {Tree}
    /\ pc = "sources" /\ ~edited => archive.inner = {Tree}
    /\ DeployedCodeIsCurrent

\* These distributions are all that is required, and what else there is could not be
\* removed.
Enough(deps) == reqs \subseteq deps /\ (deps # reqs => stuck)

InstallInv ==
    /\ pc = "build" /\ installed # {} => stuck
    /\ pc \in {"copy", "zip"} /\ ~edited => Enough(installed)
    /\ pc = "sources" /\ ~edited => Enough(archive.deps)
    /\ DeployedDepsAreCurrent

IInv == CodegenTypeOK /\ FilesInv /\ RunningInv /\ GenerateInv /\ CopyInv /\ InstallInv

-----------------------------------------------------------------------------
(* Types.                                                                      *)

\* A part of a tree is a tree, one with files missing.
LEMMA PartsAreTrees == \A tree \in TreeType : Parts(tree) \subseteq TreeType
  <1>1. 0 \in Versions
    BY MaxEditsAssumption DEF Versions
  <1> SUFFICES ASSUME NEW tree \in TreeType, NEW part \in Parts(tree)
               PROVE  part \in TreeType
    OBVIOUS
  <1>2. tree.code \in Versions /\ tree.models \in Versions
    BY DEF TreeType
  <1>3. part \in [code : {0, tree.code}, models : {0, tree.models},
                  modules : [Targets -> Versions]]
    BY DEF Parts
  <1>. QED
    BY <1>1, <1>2, <1>3 DEF TreeType

\* There is at most one handler package in the build folder.
LEMMA AtMostOne ==
  /\ Cardinality({}) <= 1
  /\ \A x : Cardinality({x}) <= 1
  BY FS_EmptySet, FS_Singleton

\* A command that starts has read the schemas as they are, and has no archive yet.
LEMMA StartType ==
  ASSUME CodegenTypeOK, FilesInv, NEW first \in {"models", "remove"}, Start(first)
  PROVE  CodegenTypeOK' /\ FilesInv'
  <1> USE DEF developer, generated, build
  <1>1. schema \in Nat
    BY MaxEditsAssumption DEF CodegenTypeOK, Versions
  <1>2. loaded' \in [schema : Versions, targets : SUBSET Targets]
    BY DEF Start, CodegenTypeOK
  <1>3. loaded'.schema <= schema' /\ todo' \subseteq loaded'.targets
    BY <1>1 DEF Start
  <1>4. archive' = EmptyArchive /\ outcome' = "none" /\ stuck' = FALSE /\ edited' = FALSE
        /\ pc' = first
    BY DEF Start
  <1>5. /\ DOMAIN archive' = {"inner", "deps", "outer"} /\ archive'.deps \subseteq Deps
        /\ archive'.inner \cup archive'.outer \subseteq TreeType
        /\ archive' \in [inner : SUBSET TreeType, deps : SUBSET Deps, outer : SUBSET TreeType]
    BY <1>4 DEF EmptyArchive
  <1>6. UNCHANGED <<developer, generated, build>>
    BY DEF Start
  <1>. QED
    BY <1>2, <1>3, <1>4, <1>5, <1>6 DEF CodegenTypeOK, FilesInv

\* What archive holds, said of its fields.
LEMMA ArchiveType ==
  ASSUME NEW a \in [inner : SUBSET TreeType, deps : SUBSET Deps, outer : SUBSET TreeType]
  PROVE  /\ DOMAIN a = {"inner", "deps", "outer"} /\ a.deps \subseteq Deps
         /\ a.inner \cup a.outer \subseteq TreeType
  OBVIOUS

\* Every step keeps every variable in its type.
LEMMA TypeStep ==
  CodegenTypeOK /\ FilesInv /\ [Next]_vars => CodegenTypeOK' /\ FilesInv'
  <1> SUFFICES ASSUME CodegenTypeOK, FilesInv, [Next]_vars PROVE CodegenTypeOK' /\ FilesInv'
    OBVIOUS
  <1> USE DEF developer, generated, build
  <1>a. archive' \in [inner : SUBSET TreeType, deps : SUBSET Deps, outer : SUBSET TreeType]
          => /\ DOMAIN archive' = {"inner", "deps", "outer"} /\ archive'.deps \subseteq Deps
             /\ archive'.inner \cup archive'.outer \subseteq TreeType
    BY ArchiveType
  <1>t. Tree \in TreeType
    BY DEF Tree, TreeType, CodegenTypeOK
  <1>v. /\ loaded.schema \in Versions /\ loaded.targets \subseteq Targets
        /\ 0 \in Versions /\ schema \in Nat /\ loaded.schema \in Nat
    BY MaxEditsAssumption DEF CodegenTypeOK, Versions
  <1>1. CASE Edit
    <2>1. schema' \in Versions /\ code' \in Versions /\ schema' >= 1 /\ code' >= 1
          /\ loaded'.schema <= schema'
      BY <1>1, MaxEditsAssumption DEF Edit, CodegenTypeOK, FilesInv, Versions
    <2>2. wanted' \subseteq Targets /\ reqs' \subseteq Deps
      BY <1>1 DEF Edit, CodegenTypeOK
    <2>. QED
      BY <1>1, <2>1, <2>2 DEF Edit, CodegenTypeOK, FilesInv
  <1>2. CASE Generate \/ Package
    BY <1>2, StartType DEF Generate, Package
  <1>3. CASE WriteModels
    BY <1>3, <1>v DEF WriteModels, CodegenTypeOK, FilesInv
  <1>4. CASE ClearTargets
    <2>1. modules' \in [Targets -> Versions] /\ stuck' \in BOOLEAN
      BY <1>4, <1>v DEF ClearTargets, CodegenTypeOK
    <2>. QED
      BY <1>4, <2>1 DEF ClearTargets, CodegenTypeOK, FilesInv
  <1>5. CASE WriteTarget
    <2>1. modules' \in [Targets -> Versions] /\ todo' \subseteq loaded'.targets
      BY <1>5, <1>v DEF WriteTarget, CodegenTypeOK
    <2>. QED
      BY <1>5, <2>1 DEF WriteTarget, CodegenTypeOK, FilesInv
  <1>6. CASE Generated \/ Fails
    BY <1>6 DEF Generated, Fails, End, CodegenTypeOK, FilesInv
  <1>7. CASE RemoveBuildArtifacts
    <2>1. copied' \subseteq TreeType /\ Cardinality(copied') <= 1
      <3>1. CASE copied' = {}
        BY <3>1, AtMostOne
      <3>2. ASSUME NEW tree \in copied, NEW part \in Parts(tree), copied' = {part}
            PROVE  copied' \subseteq TreeType /\ Cardinality(copied') <= 1
        BY <3>2, PartsAreTrees, AtMostOne DEF CodegenTypeOK
      <3>. QED
        BY <1>7, <3>1, <3>2 DEF RemoveBuildArtifacts
    <2>2. installed' \subseteq Deps /\ stuck' \in BOOLEAN
      BY <1>7 DEF RemoveBuildArtifacts, CodegenTypeOK
    <2>. QED
      BY <1>7, <2>1, <2>2 DEF RemoveBuildArtifacts, CodegenTypeOK, FilesInv
  <1>8. CASE BuildFails \/ Build
    <2>1. installed' \subseteq Deps
      BY <1>8 DEF BuildFails, Build, CodegenTypeOK
    <2>. QED
      BY <1>8, <2>1 DEF BuildFails, Build, End, CodegenTypeOK, FilesInv
  <1>9. CASE CopyHandlers \/ CopyFails
    <2>1. copied' \subseteq TreeType /\ Cardinality(copied') <= 1
      <3>1. CASE copied' = copied
        BY <3>1 DEF CodegenTypeOK
      <3>2. ASSUME NEW part \in TreeType, copied' = {part}
            PROVE  copied' \subseteq TreeType /\ Cardinality(copied') <= 1
        BY <3>2, AtMostOne
      <3>3. CASE CopyHandlers
        BY <1>t, <3>2, <3>3 DEF CopyHandlers
      <3>4. CASE CopyFails
        BY <1>t, <3>1, <3>2, <3>4, PartsAreTrees DEF CopyFails
      <3>. QED
        BY <1>9, <3>3, <3>4
    <2>. QED
      BY <1>9, <2>1 DEF CopyHandlers, CopyFails, End, CodegenTypeOK, FilesInv
  <1>10. CASE ZipBuild
    <2>1. archive' \in [inner : SUBSET TreeType, deps : SUBSET Deps, outer : SUBSET TreeType]
      BY <1>10 DEF ZipBuild, CodegenTypeOK, FilesInv
    <2>. QED
      BY <1>10, <1>a, <2>1 DEF ZipBuild, CodegenTypeOK, FilesInv
  <1>11. CASE ZipSources
    <2>1. archive' \in [inner : SUBSET TreeType, deps : SUBSET Deps, outer : SUBSET TreeType]
      BY <1>11, <1>t DEF ZipSources, FilesInv
    <2>. QED
      BY <1>11, <1>a, <2>1 DEF ZipSources, End, CodegenTypeOK, FilesInv
  <1>12. CASE UNCHANGED vars
    BY <1>12 DEF vars, CodegenTypeOK, FilesInv
  <1>. QED
    BY <1>1, <1>2, <1>3, <1>4, <1>5, <1>6, <1>7, <1>8, <1>9, <1>10, <1>11, <1>12 DEF Next
-----------------------------------------------------------------------------
(* generate.                                                                   *)

\* The steps of package and of the developer leave the generated files alone.
LEMMA GenerateFrame ==
  ASSUME GenerateInv, RunningInv, UNCHANGED <<models, modules, loaded>>,
         pc' \notin {"clear", "targets"} \/ UNCHANGED <<pc, todo, stuck>>,
         outcome' # "generated" \/ UNCHANGED <<outcome, stuck>>
  PROVE  GenerateInv'
  BY DEF GenerateInv, GenerateRepairs

\* Every step of generate leaves the files it has got to at the schemas it read.
LEMMA GenerateStep ==
  CodegenTypeOK /\ RunningInv /\ GenerateInv /\ [Next]_vars => RunningInv' /\ GenerateInv'
  <1> SUFFICES ASSUME CodegenTypeOK, RunningInv, GenerateInv, [Next]_vars
               PROVE  RunningInv' /\ GenerateInv'
    OBVIOUS
  <1> USE DEF developer, generated, build
  <1>1. RunningInv'
    BY DEF RunningInv, Next, Edit, Generate, Package, Start, WriteModels, ClearTargets,
           WriteTarget, Generated, RemoveBuildArtifacts, BuildFails, Build, CopyHandlers,
           CopyFails, ZipBuild, ZipSources, Fails, End, vars
  <1> SUFFICES GenerateInv'
    BY <1>1
  <1>2. CASE Edit
    BY <1>2, GenerateFrame DEF Edit
  <1>3. CASE Generate \/ Package
    BY <1>3 DEF Generate, Package, Start, GenerateInv, GenerateRepairs
  <1>4. CASE WriteModels
    BY <1>4 DEF WriteModels, RunningInv, GenerateInv, GenerateRepairs
  <1>5. CASE ClearTargets
    <2>1. \A t \in loaded.targets \ todo' : modules'[t] = loaded.schema
      BY <1>5 DEF ClearTargets
    <2>2. \A t \in Targets \ loaded.targets : modules'[t] # 0 => stuck'
      BY <1>5 DEF ClearTargets
    <2>3. models' = loaded.schema /\ loaded' = loaded /\ pc' = "targets" /\ outcome' = "none"
      BY <1>5 DEF ClearTargets, RunningInv, GenerateInv
    <2>. QED
      BY <2>1, <2>2, <2>3 DEF GenerateInv, GenerateRepairs
  <1>6. CASE WriteTarget
    <2>1. PICK t \in todo :
             modules' = [modules EXCEPT ![t] = loaded.schema] /\ todo' = todo \ {t}
      BY <1>6 DEF WriteTarget
    <2>2. t \in loaded.targets /\ loaded.targets \subseteq Targets
          /\ modules \in [Targets -> Versions]
      BY DEF CodegenTypeOK
    <2>3. pc = "targets" /\ UNCHANGED <<pc, models, loaded, stuck, outcome>>
      BY <1>6 DEF WriteTarget
    <2>4. \A s \in loaded.targets \ todo' : modules'[s] = loaded.schema
      BY <2>1, <2>2, <2>3 DEF GenerateInv
    <2>5. \A s \in Targets \ loaded.targets : modules'[s] # 0 => stuck
      BY <2>1, <2>2, <2>3 DEF GenerateInv
    <2>. QED
      BY <2>3, <2>4, <2>5 DEF GenerateInv, GenerateRepairs, RunningInv
  <1>7. CASE Generated
    BY <1>7 DEF Generated, End, GenerateInv, GenerateRepairs
  <1>8. CASE RemoveBuildArtifacts \/ Build \/ CopyHandlers \/ ZipBuild
    BY <1>8, GenerateFrame
    DEF RemoveBuildArtifacts, Build, CopyHandlers, ZipBuild, RunningInv
  <1>9. CASE BuildFails \/ CopyFails \/ ZipSources \/ Fails
    BY <1>9, GenerateFrame DEF BuildFails, CopyFails, ZipSources, Fails, End
  <1>10. CASE UNCHANGED vars
    BY <1>10, GenerateFrame DEF vars
  <1>. QED
    BY <1>2, <1>3, <1>4, <1>5, <1>6, <1>7, <1>8, <1>9, <1>10 DEF Next

-----------------------------------------------------------------------------
(* package.                                                                    *)

\* A step that is none of package's leaves it where it was, or ends it.
LEMMA PackageFrame ==
  ASSUME CopyInv, InstallInv, RunningInv,
         \/ outcome' # "packaged" /\ pc' \notin {"build", "copy", "zip", "sources"}
         \/ UNCHANGED vars
         \/ Edit
  PROVE  CopyInv' /\ InstallInv'
  <1>1. CASE outcome' # "packaged" /\ pc' \notin {"build", "copy", "zip", "sources"}
    BY <1>1 DEF CopyInv, InstallInv, DeployedCodeIsCurrent, DeployedDepsAreCurrent
  <1>2. CASE UNCHANGED vars
    BY <1>2
    DEF vars, developer, generated, build, CopyInv, InstallInv, DeployedCodeIsCurrent,
        DeployedDepsAreCurrent, Enough, Tree
  <1>3. CASE Edit
    BY <1>3
    DEF Edit, build, CopyInv, InstallInv, DeployedCodeIsCurrent, DeployedDepsAreCurrent
  <1>. QED
    BY <1>1, <1>2, <1>3

\* Every step of package adds to the archive what is in the source folder and what
\* the requirements name.
LEMMA PackageStep ==
  CodegenTypeOK /\ FilesInv /\ RunningInv /\ CopyInv /\ InstallInv /\ [Next]_vars
    => CopyInv' /\ InstallInv'
  <1> SUFFICES ASSUME CodegenTypeOK, FilesInv, RunningInv, CopyInv, InstallInv, [Next]_vars
               PROVE  CopyInv' /\ InstallInv'
    OBVIOUS
  <1> USE DEF developer, generated, build
  <1>1. CASE Edit \/ UNCHANGED vars
    BY <1>1, PackageFrame
  <1>2. CASE Generate \/ Package
    BY <1>2, PackageFrame DEF Generate, Package, Start
  <1>3. CASE WriteModels \/ ClearTargets
    BY <1>3, PackageFrame DEF WriteModels, ClearTargets, RunningInv
  <1>4. CASE WriteTarget
    BY <1>4, PackageFrame DEF WriteTarget, RunningInv
  <1>5. CASE Generated \/ BuildFails \/ CopyFails \/ Fails
    BY <1>5, PackageFrame DEF Generated, BuildFails, CopyFails, Fails, End
  <1>6. CASE RemoveBuildArtifacts
    BY <1>6
    DEF RemoveBuildArtifacts, RunningInv, CopyInv, InstallInv, DeployedCodeIsCurrent,
        DeployedDepsAreCurrent
  <1>7. CASE Build
    <2>1. pc' = "copy" /\ outcome' = "none" /\ UNCHANGED <<reqs, stuck, edited>>
          /\ installed' = installed \cup reqs /\ (installed # {} => stuck)
      BY <1>7 DEF Build, RunningInv, InstallInv
    <2>2. reqs' \subseteq installed' /\ (installed' # reqs' => stuck')
      BY <2>1
    <2>. QED
      BY <2>1, <2>2 DEF CopyInv, InstallInv, DeployedCodeIsCurrent, DeployedDepsAreCurrent, Enough
  <1>8. CASE CopyHandlers
    BY <1>8
    DEF CopyHandlers, RunningInv, CopyInv, InstallInv, DeployedCodeIsCurrent,
        DeployedDepsAreCurrent, Enough, Tree
  <1>9. CASE ZipBuild
    <2>1. archive'.inner = copied /\ archive'.deps = installed
      BY <1>9 DEF ZipBuild, FilesInv
    <2>2. pc = "zip" /\ pc' = "sources" /\ outcome' = "none" /\ Tree' = Tree
          /\ UNCHANGED <<reqs, stuck, edited>>
      BY <1>9 DEF ZipBuild, RunningInv, Tree
    <2>. QED
      BY <2>1, <2>2
      DEF CopyInv, InstallInv, DeployedCodeIsCurrent, DeployedDepsAreCurrent, Enough
  <1>10. CASE ZipSources
    <2>1. archive'.inner = archive.inner /\ archive'.deps = archive.deps
          /\ archive'.outer = {Tree}
      BY <1>10 DEF ZipSources, FilesInv
    <2>2. pc = "sources" /\ pc' = "idle" /\ Tree' = Tree /\ UNCHANGED <<reqs, stuck, edited>>
      BY <1>10 DEF ZipSources, End, Tree
    <2>. QED
      BY <2>1, <2>2
      DEF CopyInv, InstallInv, DeployedCodeIsCurrent, DeployedDepsAreCurrent, Enough
  <1>. QED
    BY <1>1, <1>2, <1>3, <1>4, <1>5, <1>6, <1>7, <1>8, <1>9, <1>10 DEF Next

-----------------------------------------------------------------------------
(* The theorems.                                                               *)

LEMMA InvariantInit == Init => IInv
  <1> SUFFICES ASSUME Init PROVE IInv
    OBVIOUS
  <1>1. 0 \in Versions /\ 1 \in Versions
    BY MaxEditsAssumption DEF Versions
  <1>2. archive \in [inner : SUBSET TreeType, deps : SUBSET Deps, outer : SUBSET TreeType]
    BY DEF Init, EmptyArchive
  <1>3. FilesInv
    BY <1>2 DEF Init, FilesInv
  <1>4. loaded \in [schema : Versions, targets : SUBSET Targets] /\ loaded.schema <= schema
        /\ todo \subseteq loaded.targets
    BY <1>1 DEF Init
  <1>5. CodegenTypeOK
    BY <1>1, <1>2, <1>4, AtMostOne, ArchiveType DEF Init, CodegenTypeOK
  <1>6. RunningInv /\ GenerateInv
    BY DEF Init, RunningInv, GenerateInv, GenerateRepairs
  <1>7. CopyInv /\ InstallInv
    BY DEF Init, CopyInv, InstallInv, DeployedCodeIsCurrent, DeployedDepsAreCurrent
  <1>. QED
    BY <1>3, <1>5, <1>6, <1>7 DEF IInv

LEMMA InvariantHolds == Spec => []IInv
  <1>1. Init => IInv
    BY InvariantInit
  <1>2. IInv /\ [Next]_vars => IInv'
    BY TypeStep, GenerateStep, PackageStep DEF IInv
  <1>. QED
    BY <1>1, <1>2, PTL DEF Spec

\* CodegenTypeOK holds in every state, for every set of targets and distributions.
THEOREM CodegenTypeCorrect == Spec => []CodegenTypeOK
  <1>1. IInv => CodegenTypeOK
    BY DEF IInv
  <1>. QED
    BY <1>1, InvariantHolds, PTL

\* A generate that succeeds leaves the models of the schemas it read, whatever an
\* earlier command that failed left behind.
THEOREM GenerateAlwaysRepairs == Spec => []GenerateRepairs
  <1>1. IInv => GenerateRepairs
    BY DEF IInv, GenerateInv
  <1>. QED
    BY <1>1, InvariantHolds, PTL

\* What is deployed is what is in the source folder, unless it was edited meanwhile.
THEOREM CodeIsCurrent == Spec => []DeployedCodeIsCurrent
  <1>1. IInv => DeployedCodeIsCurrent
    BY DEF IInv, CopyInv
  <1>. QED
    BY <1>1, InvariantHolds, PTL

\* What is deployed has all that is required, and more only if an earlier build could
\* not be removed.
THEOREM DepsAreCurrent == Spec => []DeployedDepsAreCurrent
  <1>1. IInv => DeployedDepsAreCurrent
    BY DEF IInv, InstallInv
  <1>. QED
    BY <1>1, InvariantHolds, PTL
=============================================================================
