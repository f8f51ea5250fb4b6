-------------------------- MODULE BuildLibsProofs --------------------------
(* Theorems about BuildLibs, for every catalogue of libraries, every set of *)
(* dispatches and every number of faults and of pushes by people.           *)
EXTENDS BuildLibs, BuildShProofs

(* The steps of the script are steps of BuildSh. *)
LEMMA ScriptSteps ==
  ASSUME JobGoes, StartBuild \/ RunScript
  PROVE  Next
  <1>1. CASE StartBuild
    <2>1. job \in Jobs /\ Launch(job.args, job.force)
      BY <1>1 DEF StartBuild, JobGoes
    <2>2. job.args \in Dispatches /\ job.force \in Forces
      BY <2>1 DEF Jobs
    <2> QED
      BY <2>1, <2>2 DEF Next
  <1>2. CASE RunScript
    BY <1>2 DEF RunScript, Next
  <1> QED
    BY <1>1, <1>2

(* The other steps either leave the runner's disk and script alone, but for *)
(* a launch that is marked as failed, or bring in trees from the branch, or *)
(* begin on a new runner, or discard the old one.                           *)
LEMMA WStepCases ==
  ASSUME [WNext]_allvars
  PROVE  \/ StartBuild \/ RunScript
         \/ \E d \in Jobs : Dispatch(d)
         \/ BuildEnds \/ Commit \/ PushOK
         \/ \E l \in Libs : ForeignEdit(l) \/ ForeignDrop(l)
         \/ UNCHANGED allvars
         \/ SetupFails \/ PushRefused \/ PullFails
         \/ PullRebase \/ Checkout \/ EndJob \/ Cancel
  BY DEF WNext, JobStep

LEMMA BlankType ==
  ASSUME TypeOK, Blank, faults' \in 0 .. MaxFaults
  PROVE  TypeOK'
  <1>1. /\ recipe' \in [Libs -> Vers] /\ dl' \in [Libs -> [Vers -> Tgz]] /\ src' \in Tgz
        /\ bdir' \in [Libs -> SUBSET Vers]
    BY BoundsAssumption DEF Blank, Vers, Tgz
  <1>2. repo' \in [Libs -> Tree] /\ stg' \in [Libs -> Tree] /\ tmp' \in [Libs -> Tree]
    BY NoTreeType DEF Blank
  <1>3. /\ env' \in [roots : SUBSET Libs, extra : BOOLEAN, dirs : 0 .. MaxDirs + 1]
        /\ force' \in BOOLEAN
    <2>1. 0 \in 0 .. MaxDirs + 1 /\ {} \in SUBSET Libs
      BY BoundsAssumption
    <2> QED
      BY <2>1 DEF Blank
  <1>4. jobs' \in Seq(STRING) /\ i' \in 1 .. Len(jobs') + 1
    BY DEF Blank
  <1>5. pc' = "idle" /\ pc' \in Stopped /\ pc' \notin InRecipe /\ err' = "none"
    BY DEF Blank, Stopped, InRecipe
  <1> QED
    BY <1>1, <1>2, <1>3, <1>4, <1>5 DEF TypeOK

LEMMA CommitsType ==
  ASSUME WTypeOK
  PROVE  /\ remote.tree \in [Libs -> Tree] /\ remote.recipe \in [Libs -> Vers]
         /\ base.tree \in [Libs -> Tree] /\ base.recipe \in [Libs -> Vers]
         /\ sha.tree \in [Libs -> Tree] /\ sha.recipe \in [Libs -> Vers]
  BY DEF WTypeOK, Commits

(* What a push makes of the branch. *)
LEMMA OverlaidType ==
  ASSUME WTypeOK
  PROVE  Overlaid \in [Libs -> Tree]
  BY CommitsType DEF WTypeOK, TypeOK, Overlaid

LEMMA RunnerTypeStep == WTypeOK /\ JobGoes /\ [WNext]_allvars => TypeOK'
  <1> SUFFICES ASSUME WTypeOK, JobGoes, [WNext]_allvars PROVE TypeOK'
    OBVIOUS
  <1>0. TypeOK
    BY DEF WTypeOK
  <1>1. CASE StartBuild \/ RunScript
    BY <1>0, <1>1, ScriptSteps, NextTypeOK
  <1>2. CASE UNCHANGED vars
    BY <1>0, <1>2, NextTypeOK
  <1>3. CASE SetupFails
    BY <1>0, <1>3, FaultType
       DEF SetupFails, SameJob, SameLaunch, SameDisk, disk, Exit, TypeOK, JobGoes, InRecipe,
           Stopped, Lib
  <1>4. CASE PushRefused \/ PullFails
    <2>1. faults' \in 0 .. MaxFaults
      BY <1>0, <1>4, FaultType DEF PushRefused, PullFails, TypeOK
    <2> QED
      BY <1>0, <1>4, <2>1
         DEF PushRefused, PullFails, SameJob, SameLaunch, SameDisk, disk, TypeOK, Lib
  <1>5. CASE PullRebase
    <2>1. repo' \in [Libs -> Tree]
      BY <1>0, <1>5, CommitsType DEF PullRebase, Rebased, TypeOK
    <2> QED
      BY <1>0, <1>5, <2>1 DEF PullRebase, TypeOK, Lib
  <1>6. CASE Checkout
    <2>1. pc = "idle" /\ pc \notin InRecipe
      BY <1>6 DEF Checkout, JobGoes, InRecipe
    <2>2. repo' \in [Libs -> Tree] /\ recipe' \in [Libs -> Vers]
          /\ dl' \in [Libs -> [Vers -> Tgz]]
      BY <1>6, CommitsType DEF Checkout, WTypeOK
    <2> QED
      BY <1>0, <1>6, <2>1, <2>2 DEF Checkout, TypeOK
  <1>7. CASE EndJob \/ Cancel
    <2>1. faults' \in 0 .. MaxFaults
      BY <1>0, <1>7, FaultType DEF EndJob, Cancel, TypeOK
    <2> QED
      BY <1>0, <1>7, <2>1, BlankType DEF EndJob, Cancel, Discard
  <1> QED
    BY <1>1, <1>2, <1>3, <1>4, <1>5, <1>6, <1>7, WStepCases
       DEF Dispatch, BuildEnds, Commit, PushOK, ForeignEdit, ForeignDrop, ForeignPush, allvars

LEMMA JobGoesStep == WTypeOK /\ JobGoes /\ [WNext]_allvars => JobGoes'
  <1> SUFFICES ASSUME WTypeOK, JobGoes, [WNext]_allvars PROVE JobGoes'
    OBVIOUS
  <1> USE DEF JobGoes
  <1>0. ahead \in Nat /\ missed \in Nat /\ foreign \in 0 .. MaxForeign /\ MaxForeign \in Nat
    BY ForeignAssumption DEF WTypeOK
  <1>1. CASE StartBuild \/ RunScript
    BY <1>1 DEF StartBuild, RunScript, wvars, branch, local, waiting
  <1>2. CASE \E d \in Jobs : Dispatch(d)
    <2>1. NoJob \notin Jobs
      BY DEF NoJob, Jobs
    <2> QED
      BY <1>0, <1>2, <2>1 DEF Dispatch, vars, local
  <1>3. CASE BuildEnds \/ Commit
    BY <1>0, <1>3 DEF BuildEnds, Commit, vars, branch, local, waiting
  <1>4. CASE PushOK
    <2>1. missed' \in {0, missed, missed + 1} /\ phase = "push" /\ phase' = "over"
          /\ (pending' = NoJob => missed' = 0)
      BY <1>4 DEF PushOK, Misses, waiting
    <2> QED
      BY <1>0, <1>4, <2>1 DEF PushOK, vars, local, waiting
  <1>5. CASE \E l \in Libs : ForeignEdit(l) \/ ForeignDrop(l)
    <2>1. /\ foreign > 0 /\ foreign' = foreign - 1 /\ UNCHANGED <<vars, local, waiting, job, phase>>
          /\ ahead' = IF phase = "none" THEN 0 ELSE ahead + 1
          /\ missed' = IF pending = NoJob THEN 0 ELSE missed + 1
      BY <1>5 DEF ForeignEdit, ForeignDrop, ForeignPush, Misses
    <2>2. /\ ahead' + foreign' <= MaxForeign + 1
          /\ missed' + foreign' <= MaxForeign + (IF phase \in {"none", "over"} THEN 1 ELSE 0)
      BY <1>0, <2>1
    <2> QED
      BY <2>1, <2>2 DEF vars, local, waiting
  <1>6. CASE SetupFails \/ PushRefused \/ PullFails
    BY <1>0, <1>6 DEF SetupFails, PushRefused, PullFails, Exit, AfterPull, branch, local, waiting,
                SameJob, SameLaunch
  <1>7. CASE PullRebase
    BY <1>0, <1>7 DEF PullRebase, AfterPull, branch, waiting
  <1>8. CASE Checkout
    BY <1>0, <1>8 DEF Checkout, ClonedAt, WTypeOK
  <1>10. CASE EndJob \/ Cancel
    BY <1>0, <1>10 DEF EndJob, Cancel, Discard, Blank, ClonedAt, waiting
  <1>9. CASE UNCHANGED allvars
    BY <1>9 DEF allvars, vars, wvars
  <1> QED
    BY <1>1, <1>2, <1>3, <1>4, <1>5, <1>6, <1>7, <1>8, <1>9, <1>10, WStepCases

LEMMA WTypeStep == WTypeOK /\ JobGoes /\ [WNext]_allvars => WTypeOK'
  <1> SUFFICES ASSUME WTypeOK, JobGoes, [WNext]_allvars PROVE WTypeOK'
    OBVIOUS
  <1>0. TypeOK'
    BY RunnerTypeStep
  <1>a. /\ TypeOK /\ remote \in Commits /\ base \in Commits /\ sha \in Commits
        /\ start \in [Libs -> Tree] /\ MaxForeign \in Nat
        /\ ahead \in Nat /\ missed \in Nat /\ seen \in 0 .. ahead /\ foreign \in Nat
        /\ ahead + foreign <= MaxForeign + 1 /\ (phase = "none" => seen = 0)
        /\ missed + foreign <= MaxForeign + (IF phase \in {"none", "over"} THEN 1 ELSE 0)
    BY ForeignAssumption DEF WTypeOK, JobGoes
  <1>1. CASE StartBuild \/ RunScript
    BY <1>0, <1>1 DEF StartBuild, RunScript, wvars, branch, local, waiting, WTypeOK
  <1>2. CASE \E d \in Jobs : Dispatch(d)
    <2>1. sha' \in Commits /\ missed' \in 0 .. MaxForeign + 1
      BY <1>a, <1>2 DEF Dispatch
    <2> QED
      BY <1>0, <1>2, <2>1 DEF Dispatch, local, WTypeOK
  <1>3. CASE BuildEnds \/ Commit
    BY <1>0, <1>3 DEF BuildEnds, Commit, branch, local, waiting, WTypeOK, JobGoes, Attempts
  <1>4. CASE PushOK
    <2>1. remote' \in Commits
      BY <1>a, <1>4, OverlaidType DEF PushOK, Commits
    <2>2. missed' \in 0 .. MaxForeign + 1
      BY <1>a, <1>4 DEF PushOK, Misses
    <2> QED
      BY <1>0, <1>4, <2>1, <2>2 DEF PushOK, local, waiting, WTypeOK
  <1>5. ASSUME NEW l \in Libs, ForeignEdit(l) \/ ForeignDrop(l) PROVE WTypeOK'
    <2>1. remote' \in Commits
      <3>1. CASE ForeignEdit(l)
        BY <1>a, <3>1, BoundsAssumption DEF ForeignEdit, Commits, Vers
      <3>2. CASE ForeignDrop(l)
        BY <1>a, <3>2, NoTreeType DEF ForeignDrop, Commits
      <3> QED
        BY <1>5, <3>1, <3>2
    <2>2. /\ foreign > 0 /\ foreign' = foreign - 1 /\ UNCHANGED <<seen, phase>>
          /\ ahead' = IF phase = "none" THEN 0 ELSE ahead + 1
          /\ missed' = IF pending = NoJob THEN 0 ELSE missed + 1
      BY <1>5 DEF ForeignEdit, ForeignDrop, ForeignPush, Misses, local
    <2>3. /\ foreign' \in 0 .. MaxForeign /\ ahead' \in 0 .. MaxForeign + 1
          /\ missed' \in 0 .. MaxForeign + 1 /\ seen' \in 0 .. ahead'
      BY <1>a, <2>2
    <2> QED
      BY <1>0, <1>5, <2>1, <2>3 DEF ForeignEdit, ForeignDrop, ForeignPush, local, waiting, WTypeOK
  <1>6. CASE SetupFails \/ PullFails
    BY <1>0, <1>6 DEF SetupFails, PullFails, AfterPull, Attempts, branch, local, waiting, WTypeOK
  <1>7. CASE PushRefused
    BY <1>0, <1>7 DEF PushRefused, Attempts, branch, waiting, WTypeOK
  <1>8. CASE PullRebase
    <2>1. base' \in Commits /\ seen' \in 0 .. ahead
      BY <1>a, <1>8 DEF PullRebase, Rebased
    <2>2. stuck' \in BOOLEAN
      BY <1>8 DEF PullRebase, Rebased, WTypeOK
    <2> QED
      BY <1>0, <1>8, <2>1, <2>2 DEF PullRebase, AfterPull, Attempts, branch, waiting, WTypeOK
  <1>9. CASE Checkout
    <2>1. /\ base' \in Commits /\ start' \in [Libs -> Tree] /\ ahead' \in 0 .. MaxForeign + 1
          /\ missed' \in 0 .. MaxForeign + 1
          /\ seen' \in 0 .. ahead' /\ attempt' \in 0 .. Attempts /\ stuck' = FALSE
      BY <1>a, <1>9, CommitsType DEF Checkout, ClonedAt, Attempts
    <2> QED
      BY <1>0, <1>9, <2>1 DEF Checkout, WTypeOK
  <1>10. CASE EndJob \/ Cancel
    <2>1. /\ cache'.dl \in [Libs -> [Vers -> Tgz]]
          /\ cache'.key \in [Libs -> Vers] \cup {<<>>}
      BY <1>a, <1>10 DEF EndJob, Cancel, NewEntry, WTypeOK, TypeOK
    <2>2. /\ base' \in Commits /\ start' \in [Libs -> Tree] /\ ahead' \in 0 .. MaxForeign + 1
          /\ seen' \in 0 .. ahead' /\ attempt' \in 0 .. Attempts /\ stuck' = FALSE
      BY <1>a, <1>10, CommitsType DEF EndJob, Cancel, Discard, ClonedAt, Attempts
    <2> QED
      BY <1>0, <1>10, <2>1, <2>2 DEF EndJob, Cancel, Discard, waiting, WTypeOK
  <1>11. CASE UNCHANGED allvars
    BY <1>0, <1>11 DEF allvars, wvars, WTypeOK
  <1> QED
    BY <1>1, <1>2, <1>3, <1>4, <1>5, <1>6, <1>7, <1>8, <1>9, <1>10, <1>11, WStepCases

-----------------------------------------------------------------------------
(* What a step of the running script does to the repository. *)
LEMMA ScriptRepo ==
  ASSUME TypeOK, ScriptStep
  PROVE  /\ UNCHANGED <<recipe, jobs, force>>
         /\ \/ UNCHANGED repo
            \/ /\ pc \in InRecipe /\ repo' \in [Libs -> Tree]
               /\ \A l \in Libs \ {Lib} : repo'[l] = repo[l]
               /\ \/ At("harvest") /\ repo'[Lib] = NoTree
                  \/ At("move") /\ repo'[Lib] = tmp[Lib]
                  \/ At("post") /\ repo'[Lib] = [repo[Lib] EXCEPT !.post = TRUE]
  <1>1. CASE Skip \/ UnknownLib \/ StartRecipe \/ FinishLaunch \/ EnvTooLong \/ FetchCached
             \/ Download \/ Extract \/ ConfigureFails \/ Build \/ HarvestCopy
             \/ HarvestRelocate \/ PostMisses
    BY <1>1 DEF Skip, UnknownLib, StartRecipe, FinishLaunch, EnvTooLong, FetchCached, Download,
                Extract, ConfigureFails, Build, HarvestCopy, HarvestRelocate, PostMisses,
                SameJob, SameLaunch, SameDisk, disk
  <1>2. CASE StepFails
    BY <1>2 DEF StepFails, Interrupted, SameJob, SameLaunch, disk, At
  <1>3. CASE HarvestWipe
    BY <1>3, NoTreeType DEF HarvestWipe, At, InRecipe, SameJob, SameLaunch, TypeOK
  <1>4. CASE HarvestMove
    BY <1>4 DEF HarvestMove, At, InRecipe, SameLaunch, TypeOK
  <1>5. CASE PostMatches
    <2>1. pc \in InRecipe /\ Lib \in Libs /\ repo \in [Libs -> Tree]
      BY <1>5 DEF PostMatches, At, InRecipe, TypeOK
    <2>2. repo' = [repo EXCEPT ![Lib] = [repo[Lib] EXCEPT !.post = TRUE]]
      BY <1>5 DEF PostMatches
    <2>3. [repo[Lib] EXCEPT !.post = TRUE] \in Tree
      BY <2>1 DEF Tree
    <2> QED
      BY <1>5, <2>1, <2>2, <2>3 DEF PostMatches, SameLaunch
  <1> QED
    BY <1>1, <1>2, <1>3, <1>4, <1>5 DEF ScriptStep, Advance

(* Outside the script a step leaves the runner alone, or leaves it stopped. *)
LEMMA Offstage ==
  ASSUME WTypeOK, JobGoes, [WNext]_allvars, ~StartBuild, ~RunScript
  PROVE  \/ UNCHANGED vars
         \/ SetupFails
         \/ PushRefused \/ PullFails \/ PullRebase
         \/ Checkout
         \/ EndJob \/ Cancel
  BY WStepCases DEF Dispatch, BuildEnds, Commit, PushOK, ForeignEdit, ForeignDrop, ForeignPush,
                    allvars

LEMMA StoppedAfter ==
  ASSUME JobGoes, SetupFails \/ PushRefused \/ PullFails \/ PullRebase \/ Checkout \/ EndJob
                  \/ Cancel
  PROVE  /\ pc' \in {"idle", "done", "failed"} /\ pc' \notin InRecipe
         /\ SetupFails => pc' = "failed"
         /\ PushRefused \/ PullFails \/ PullRebase => pc \in {"done", "failed"} /\ pc' = pc
         /\ Checkout => pc = "idle" /\ pc' = "idle"
         /\ EndJob \/ Cancel => Blank
  BY DEF SetupFails, PushRefused, PullFails, PullRebase, Checkout, EndJob, Cancel, Discard, Blank,
         JobGoes, Exit, InRecipe

LEMMA WStrictSourcesStep ==
  WTypeOK /\ JobGoes /\ StrictSources /\ [WNext]_allvars => StrictSources'
  <1> SUFFICES ASSUME WTypeOK, JobGoes, StrictSources, [WNext]_allvars PROVE StrictSources'
    OBVIOUS
  <1>0. TypeOK
    BY DEF WTypeOK
  <1>1. CASE StartBuild \/ RunScript
    BY <1>0, <1>1, ScriptSteps, StrictSourcesStep
  <1>2. CASE UNCHANGED vars
    BY <1>0, <1>2, StrictSourcesStep
  <1>3. CASE pc' \notin InRecipe
    BY <1>3 DEF StrictSources
  <1> QED
    BY <1>1, <1>2, <1>3, Offstage, StoppedAfter

-----------------------------------------------------------------------------
(* Nothing broken is staged. *)
LEMMA OneBuildTrees ==
  /\ \A l \in Libs : OneBuild(l, NoTree)
  /\ \A l \in Libs, old, new \in Tree :
       old.vers \subseteq {recipe[l]} /\ OneBuild(l, new) => OneBuild(l, Overlay(old, new))
  /\ \A l \in Libs, t \in Tree : OneBuild(l, t) => OneBuild(l, Relocated(t))
  <1>1. \A l \in Libs : OneBuild(l, NoTree)
    BY DEF OneBuild, NoTree
  <1>2. ASSUME NEW l \in Libs, NEW old \in Tree, NEW new \in Tree,
               old.vers \subseteq {recipe[l]}, OneBuild(l, new)
        PROVE  OneBuild(l, Overlay(old, new))
    BY <1>2 DEF OneBuild, Overlay, Tree
  <1>3. ASSUME NEW l \in Libs, NEW t \in Tree, OneBuild(l, t)
        PROVE  OneBuild(l, Relocated(t))
    BY <1>3 DEF OneBuild, Relocated, Tree
  <1> QED
    BY <1>1, <1>2, <1>3

LEMMA OneBuildInstalled ==
  ASSUME TypeOK, At("build"), OneBuild(Lib, stg[Lib]), NEW paths \in Pcs
  PROVE  OneBuild(Lib, Installed(paths))
  <1> DEFINE new == [vers |-> {recipe[Lib]}, whole |-> TRUE, tgz |-> src, pcs |-> paths,
                     post |-> Lib \notin PostSteps]
  <1>1. Lib \in Libs /\ recipe[Lib] \in Vers /\ src \in Tgz
    BY DEF TypeOK, At, InRecipe
  <1>2. new \in Tree /\ OneBuild(Lib, new)
    BY <1>1 DEF Tree, OneBuild
  <1>3. Prefix \in Tree /\ Prefix.vers \subseteq {recipe[Lib]}
    BY <1>1, OneBuildTrees, InstalledType DEF Prefix, OneBuild
  <1>4. OneBuild(Lib, Overlay(Prefix, new))
    BY <1>1, <1>2, <1>3, OneBuildTrees
  <1> QED
    BY <1>4 DEF Installed

LEMMA ScriptStageStep ==
  ASSUME TypeOK, StageClean, ScriptStep
  PROVE  StageClean'
  <1>0. UNCHANGED <<recipe, jobs>>
    BY ScriptRepo
  <1>a. pc \notin Stopped => \A l \in Libs : OneBuild(l, stg[l])
    BY DEF StageClean, Stopped
  <1>b. /\ pc \in InRecipe => Lib \in Libs
        /\ stg \in [Libs -> Tree] /\ tmp \in [Libs -> Tree]
    BY DEF TypeOK
  <1>1. CASE UnknownLib \/ EnvTooLong \/ ConfigureFails \/ StepFails
    BY <1>1 DEF UnknownLib, EnvTooLong, ConfigureFails, StepFails, Exit, StageClean
  <1>2. CASE Skip \/ StartRecipe \/ FinishLaunch \/ FetchCached \/ Download \/ Extract
             \/ PostMatches \/ PostMisses
    <2>1. /\ UNCHANGED stg /\ pc \notin Stopped
          /\ pc' \notin {"idle", "copy", "reloc", "move"}
      BY <1>2 DEF Skip, StartRecipe, FinishLaunch, FetchCached, Download, Extract, PostMatches,
                  PostMisses, Looping, SameDisk, disk, At, GoTo, Exit, NextJob, Stopped
    <2> QED
      BY <1>0, <1>a, <2>1 DEF StageClean, OneBuild
  <1>3. CASE Build
    <2>1. At("build") /\ pc \notin Stopped /\ pc \in InRecipe /\ pc' = "harvest"
      BY <1>3 DEF Build, At, Stopped, InRecipe, GoTo
    <2>2. PICK paths \in Pcs : stg' = [stg EXCEPT ![Lib] = Installed(paths)]
      BY <1>3 DEF Build, Pcs
    <2>3. OneBuild(Lib, Installed(paths))
      BY <1>a, <1>b, <2>1, OneBuildInstalled
    <2>4. \A l \in Libs : stg'[l] = IF l = Lib THEN Installed(paths) ELSE stg[l]
      BY <1>b, <2>2
    <2> QED
      BY <1>0, <1>a, <1>b, <2>1, <2>3, <2>4 DEF StageClean, OneBuild
  <1>4. CASE HarvestWipe
    <2>1. /\ pc \notin Stopped /\ pc \in InRecipe /\ pc' = "copy" /\ UNCHANGED <<stg, i>>
          /\ tmp' = [tmp EXCEPT ![Lib] = NoTree]
      BY <1>4 DEF HarvestWipe, At, Stopped, InRecipe, GoTo, SameJob
    <2> QED
      BY <1>0, <1>a, <1>b, <2>1 DEF StageClean, OneBuild, Lib
  <1>5. CASE HarvestCopy
    <2>1. /\ pc \notin Stopped /\ pc \in InRecipe /\ pc' = "reloc" /\ UNCHANGED <<stg, i>>
          /\ tmp' = [tmp EXCEPT ![Lib] = Overlay(tmp[Lib], stg[Lib])] /\ pc = "copy"
      BY <1>5 DEF HarvestCopy, At, Stopped, InRecipe, GoTo, SameJob
    <2>2. tmp[Lib].vers \subseteq {recipe[Lib]}
      BY <1>b, <2>1, OneBuildTrees DEF StageClean, OneBuild
    <2>3. OneBuild(Lib, Overlay(tmp[Lib], stg[Lib]))
      BY <1>a, <1>b, <2>1, <2>2, OneBuildTrees
    <2> QED
      BY <1>0, <1>a, <1>b, <2>1, <2>3 DEF StageClean, OneBuild, Lib
  <1>6. CASE HarvestRelocate
    <2>1. /\ pc \notin Stopped /\ pc \in InRecipe /\ pc' \in {"move", "failed"}
          /\ UNCHANGED <<stg, i>> /\ pc = "reloc"
          /\ tmp' = [tmp EXCEPT ![Lib] = Relocated(tmp[Lib])]
      BY <1>6 DEF HarvestRelocate, At, Stopped, InRecipe, GoTo, Exit, SameJob
    <2>2. OneBuild(Lib, Relocated(tmp[Lib]))
      BY <1>b, <2>1, OneBuildTrees DEF StageClean
    <2> QED
      BY <1>0, <1>a, <1>b, <2>1, <2>2 DEF StageClean, OneBuild, Lib
  <1>7. CASE HarvestMove
    <2>1. pc \notin Stopped /\ pc' \in {"post", "loop"} /\ UNCHANGED stg
      BY <1>7 DEF HarvestMove, At, Stopped, GoTo, NextJob
    <2> QED
      BY <1>0, <1>a, <2>1 DEF StageClean, OneBuild
  <1> QED
    BY <1>1, <1>2, <1>3, <1>4, <1>5, <1>6, <1>7 DEF ScriptStep, Advance

LEMMA StageCleanStep == WTypeOK /\ JobGoes /\ StageClean /\ [WNext]_allvars => StageClean'
  <1> SUFFICES ASSUME WTypeOK, JobGoes, StageClean, [WNext]_allvars PROVE StageClean'
    OBVIOUS
  <1>0. TypeOK
    BY DEF WTypeOK
  <1>1. CASE StartBuild
    <2>1. /\ pc = "idle" /\ pc' \in {"loop", "failed"} /\ UNCHANGED <<stg, recipe>>
      BY <1>1 DEF StartBuild, Launch, JobGoes, Exit, SameDisk, disk
    <2> QED
      BY <2>1 DEF StageClean, OneBuild
  <1>2. CASE RunScript
    BY <1>0, <1>2, ScriptStageStep DEF RunScript
  <1>3. CASE UNCHANGED vars
    BY <1>3 DEF vars, disk, StageClean, OneBuild, Lib
  <1>4. CASE SetupFails
    BY <1>4, StoppedAfter DEF StageClean
  <1>5. CASE PushRefused \/ PullFails \/ PullRebase
    <2>1. UNCHANGED <<stg, recipe, pc>>
      BY <1>5 DEF PushRefused, PullFails, PullRebase, SameJob, SameLaunch, SameDisk, disk
    <2> QED
      BY <1>5, <2>1, StoppedAfter DEF StageClean, OneBuild
  <1>6. CASE Checkout
    <2>1. \A l \in Libs : stg'[l] = NoTree
      BY <1>6, StoppedAfter DEF Checkout, StageClean
    <2> QED
      BY <1>6, <2>1, StoppedAfter DEF StageClean, OneBuild, NoTree
  <1>7. CASE EndJob \/ Cancel
    <2>1. Blank
      BY <1>7, StoppedAfter
    <2>2. \A l \in Libs : stg'[l] = NoTree
      BY <2>1 DEF Blank
    <2> QED
      BY <2>1, <2>2 DEF Blank, StageClean, OneBuild, NoTree
  <1> QED
    BY <1>1, <1>2, <1>3, <1>4, <1>5, <1>6, <1>7, Offstage

-----------------------------------------------------------------------------
(* Every tree on the runner, in its base and on the branch is clean. *)
LEMMA CleanTrees ==
  /\ \A l \in Libs : Clean(l, NoTree)
  /\ \A l \in Libs, t \in Tree :
       /\ OneBuild(l, t) /\ (l \in Strict => t.tgz = "whole") => Clean(l, t)
       /\ Clean(l, t) => Clean(l, [t EXCEPT !.post = TRUE])
  <1>1. \A l \in Libs : Clean(l, NoTree)
    BY DEF Clean, NoTree, Present
  <1>2. ASSUME NEW l \in Libs, NEW t \in Tree, OneBuild(l, t), l \in Strict => t.tgz = "whole"
        PROVE  Clean(l, t)
    BY <1>2 DEF Clean, OneBuild
  <1>3. ASSUME NEW l \in Libs, NEW t \in Tree, Clean(l, t)
        PROVE  Clean(l, [t EXCEPT !.post = TRUE])
    BY <1>3 DEF Clean, Tree, Present
  <1> QED
    BY <1>1, <1>2, <1>3

LEMMA TreesCleanStep ==
  WTypeOK /\ JobGoes /\ StageClean /\ StrictSources /\ TreesClean /\ PublishedClean
    /\ [WNext]_allvars => TreesClean'
  <1> SUFFICES ASSUME WTypeOK, JobGoes, StageClean, StrictSources, TreesClean, PublishedClean,
                      [WNext]_allvars, NEW l \in Libs
               PROVE  /\ Clean(l, repo'[l]) /\ Clean(l, base'.tree[l])
                      /\ Clean(l, sha'.tree[l])
    BY DEF TreesClean, Clean
  <1>0. /\ TypeOK /\ Clean(l, repo[l]) /\ Clean(l, base.tree[l]) /\ Clean(l, remote.tree[l])
        /\ Clean(l, sha.tree[l])
    BY DEF WTypeOK, TreesClean, PublishedClean
  <1>1. CASE StartBuild
    BY <1>0, <1>1 DEF StartBuild, Launch, SameDisk, disk, local, waiting
  <1>2. CASE RunScript
    <2>1. ScriptStep /\ UNCHANGED <<base, sha>>
      BY <1>2 DEF RunScript, wvars
    <2>2. CASE At("move") /\ l = Lib /\ repo'[Lib] = tmp[Lib]
      <3>1. OneBuild(l, tmp[l]) /\ (l \in Strict => tmp[l].tgz = "whole") /\ tmp[l] \in Tree
        BY <1>0, <2>2 DEF StageClean, StrictSources, At, InRecipe, TypeOK
      <3> QED
        BY <1>0, <2>1, <2>2, <3>1, CleanTrees
    <2>3. CASE l = Lib /\ repo'[Lib] = [repo[Lib] EXCEPT !.post = TRUE]
      <3>1. repo[l] \in Tree
        BY <1>0 DEF TypeOK
      <3> QED
        BY <1>0, <2>1, <2>3, <3>1, CleanTrees
    <2> QED
      BY <1>0, <2>1, <2>2, <2>3, ScriptRepo, CleanTrees
  <1>3. CASE UNCHANGED <<repo, base>> /\ sha' \in {sha, remote}
    BY <1>0, <1>3
  <1>4. CASE PullRebase
    BY <1>0, <1>4 DEF PullRebase, Rebased, waiting
  <1>5. CASE Checkout
    BY <1>0, <1>5 DEF Checkout, ClonedAt
  <1>6. CASE EndJob \/ Cancel
    BY <1>0, <1>6, CleanTrees DEF EndJob, Cancel, Discard, Blank, ClonedAt, waiting
  <1> QED
    BY <1>1, <1>2, <1>3, <1>4, <1>5, <1>6, WStepCases
       DEF Dispatch, BuildEnds, Commit, PushOK, ForeignEdit, ForeignDrop, ForeignPush, SetupFails,
           PushRefused, PullFails, SameDisk, disk, local, waiting, vars, allvars, wvars

LEMMA PublishedCleanStep ==
  WTypeOK /\ TreesClean /\ PublishedClean /\ [WNext]_allvars => PublishedClean'
  <1> SUFFICES ASSUME WTypeOK, TreesClean, PublishedClean, [WNext]_allvars, NEW l \in Libs
               PROVE  Clean(l, remote'.tree[l])
    BY DEF PublishedClean, Clean
  <1>0. /\ Clean(l, repo[l]) /\ Clean(l, base.tree[l]) /\ Clean(l, remote.tree[l])
        /\ remote \in Commits
    BY DEF WTypeOK, TreesClean, PublishedClean
  <1>1. CASE PushOK
    <2>1. remote'.tree = Overlaid
      BY <1>0, <1>1 DEF PushOK, Commits
    <2> QED
      BY <1>0, <2>1 DEF Overlaid
  <1>2. CASE \E m \in Libs : ForeignEdit(m)
    <2>1. remote'.tree = remote.tree
      BY <1>0, <1>2 DEF ForeignEdit, Commits
    <2> QED
      BY <1>0, <2>1
  <1>3. ASSUME NEW m \in Libs, ForeignDrop(m) PROVE Clean(l, remote'.tree[l])
    <2>1. remote'.tree = [remote.tree EXCEPT ![m] = NoTree]
      BY <1>0, <1>3 DEF ForeignDrop, Commits
    <2>2. remote'.tree[l] \in {NoTree, remote.tree[l]}
      BY <2>1, CommitsType
    <2> QED
      BY <1>0, <2>2, CleanTrees
  <1>4. CASE UNCHANGED remote
    BY <1>0, <1>4
  <1> QED
    BY <1>1, <1>2, <1>3, <1>4, WStepCases
       DEF Dispatch, BuildEnds, Commit, StartBuild, RunScript, SetupFails, PushRefused, PullFails,
           PullRebase, Checkout, EndJob, Cancel, Discard, branch, allvars, wvars

-----------------------------------------------------------------------------
(* No tarball that cannot be built from is left to a launch that ends well. *)
LEMMA ScriptTarballsStep ==
  ASSUME TypeOK, TarballsClean, ScriptStep
  PROVE  TarballsClean'
  <1>0. UNCHANGED recipe /\ UNCHANGED jobs
    BY ScriptRepo
  <1> SUFFICES ASSUME pc' # "failed", NEW l \in Libs, NEW v \in Vers, dl'[l][v] \in Poison(l)
               PROVE  /\ pc' \in {"extract", "build"} /\ l = Lib' /\ v = recipe[l]
                      /\ pc' = "build" => src' = "stub"
    BY <1>0 DEF TarballsClean, Poison
  <1>a. pc # "failed" => (dl[l][v] \in Poison(l) =>
          /\ pc \in {"extract", "build"} /\ l = Lib /\ v = recipe[l]
          /\ pc = "build" => src = "stub")
    BY DEF TarballsClean
  <1>1. CASE UnknownLib \/ EnvTooLong \/ ConfigureFails \/ StepFails
    BY <1>1 DEF UnknownLib, EnvTooLong, ConfigureFails, StepFails, Exit
  <1>2. CASE Skip \/ StartRecipe \/ FinishLaunch \/ FetchCached \/ HarvestWipe \/ HarvestCopy
             \/ HarvestRelocate \/ HarvestMove \/ PostMatches \/ PostMisses
    <2>1. UNCHANGED dl /\ pc # "failed" /\ pc \notin {"extract", "build"}
      BY <1>2 DEF Skip, StartRecipe, FinishLaunch, FetchCached, HarvestWipe, HarvestCopy,
                  HarvestRelocate, HarvestMove, PostMatches, PostMisses, Looping, At, SameDisk
    <2> QED
      BY <1>a, <2>1
  <1>3. CASE Download
    <2>1. PICK t \in Tgz : dl' = [dl EXCEPT ![Lib][recipe[Lib]] = t]
      BY <1>3 DEF Download
    <2>2. /\ pc = "fetch" /\ pc' = "extract" /\ UNCHANGED i /\ Lib \in Libs
          /\ dl \in [Libs -> [Vers -> Tgz]] /\ recipe[Lib] \in Vers
      BY <1>3 DEF Download, At, GoTo, SameJob, TypeOK, InRecipe
    <2>3. dl[l][v] \notin Poison(l)
      BY <1>a, <2>2
    <2>4. l = Lib /\ v = recipe[l]
      BY <2>1, <2>2, <2>3
    <2> QED
      BY <1>0, <2>2, <2>4 DEF Lib
  <1>4. CASE Extract
    <2>1. /\ pc = "extract" /\ pc' = "build" /\ UNCHANGED <<i, dl>> /\ Lib \in Libs
          /\ src' = Tarball /\ ~TarNoticed
      BY <1>4 DEF Extract, At, GoTo, Exit, SameJob, TypeOK, InRecipe
    <2>2. l = Lib /\ v = recipe[l] /\ src' = dl[l][v]
      BY <1>a, <2>1 DEF Tarball
    <2>3. src' = "stub"
      BY <2>1, <2>2 DEF TarNoticed, Tarball, Poison
    <2> QED
      BY <1>0, <2>1, <2>2, <2>3 DEF Lib
  <1>5. CASE Build
    <2>1. pc = "build" /\ src # "stub" /\ UNCHANGED dl
      BY <1>5 DEF Build, At, HasSources
    <2> QED
      BY <1>a, <2>1
  <1> QED
    BY <1>1, <1>2, <1>3, <1>4, <1>5 DEF ScriptStep, Advance

LEMMA TarballsCleanStep ==
  WTypeOK /\ JobGoes /\ TarballsClean /\ CacheNeverPoisoned /\ [WNext]_allvars => TarballsClean'
  <1> SUFFICES ASSUME WTypeOK, JobGoes, TarballsClean, CacheNeverPoisoned, [WNext]_allvars
               PROVE  TarballsClean'
    OBVIOUS
  <1>0. TypeOK
    BY DEF WTypeOK
  <1>1. CASE StartBuild
    <2>1. pc = "idle" /\ UNCHANGED dl
      BY <1>1 DEF StartBuild, Launch, JobGoes, SameDisk
    <2> QED
      BY <2>1 DEF TarballsClean, Poison
  <1>2. CASE RunScript
    BY <1>0, <1>2, ScriptTarballsStep DEF RunScript
  <1>3. CASE UNCHANGED vars
    BY <1>3 DEF vars, disk, TarballsClean, Poison, Lib
  <1>4. CASE SetupFails
    BY <1>4, StoppedAfter DEF TarballsClean
  <1>5. CASE PushRefused \/ PullFails \/ PullRebase
    <2>1. UNCHANGED <<dl, pc>>
      BY <1>5 DEF PushRefused, PullFails, PullRebase, SameDisk
    <2> QED
      BY <1>5, <2>1, StoppedAfter DEF TarballsClean, Poison
  <1>6. CASE Checkout
    <2>1. dl' = cache.dl
      BY <1>6 DEF Checkout
    <2> QED
      BY <2>1 DEF TarballsClean, CacheNeverPoisoned, Poison
  <1>7. CASE EndJob \/ Cancel
    <2>1. dl' = [l \in Libs |-> [v \in Vers |-> "none"]]
      BY <1>7, StoppedAfter DEF Blank
    <2>2. \A l \in Libs, v \in Vers : dl'[l][v] = "none"
      BY <2>1
    <2> QED
      BY <2>2 DEF TarballsClean, Poison
  <1> QED
    BY <1>1, <1>2, <1>3, <1>4, <1>5, <1>6, <1>7, Offstage

LEMMA CacheStep ==
  TarballsClean /\ CacheNeverPoisoned /\ [WNext]_allvars => CacheNeverPoisoned'
  <1> SUFFICES ASSUME TarballsClean, CacheNeverPoisoned, [WNext]_allvars
               PROVE  CacheNeverPoisoned'
    OBVIOUS
  <1>1. CASE EndJob
    <2>1. cache'.dl \in {cache.dl, dl} /\ (cache'.dl # cache.dl => pc = "done")
      BY <1>1 DEF EndJob, NewEntry, Succeeds
    <2> QED
      BY <2>1 DEF TarballsClean, CacheNeverPoisoned, Poison
  <1>2. CASE UNCHANGED cache
    BY <1>2 DEF CacheNeverPoisoned, Poison
  <1> QED
    BY <1>1, <1>2, WStepCases
       DEF Dispatch, BuildEnds, Commit, StartBuild, RunScript, SetupFails, PushOK, PushRefused,
           PullFails, PullRebase, Checkout, Cancel, ForeignEdit, ForeignDrop, ForeignPush,
           allvars, wvars

-----------------------------------------------------------------------------
(* What differs from the branch was asked for and nobody else changed it.   *)
LEMMA OnlyAskedStep ==
  WTypeOK /\ JobGoes /\ OnlyAsked /\ [WNext]_allvars => OnlyAsked'
  <1> SUFFICES ASSUME WTypeOK, JobGoes, OnlyAsked, [WNext]_allvars PROVE OnlyAsked'
    OBVIOUS
  <1>0. TypeOK
    BY DEF WTypeOK
  <1>1. CASE StartBuild
    <2>1. /\ phase = "setup" /\ phase' = "build" /\ jobs' = JobsOf(job.args)
          /\ UNCHANGED <<repo, base, start, job>>
      BY <1>1 DEF StartBuild, Launch, SameDisk, disk, local
    <2> QED
      BY <2>1 DEF OnlyAsked, Changed
  <1>2. CASE RunScript
    <2>1. /\ phase = "build" /\ phase' = "build" /\ UNCHANGED <<base, start, job, jobs>>
          /\ ScriptStep
      BY <1>0, <1>2, ScriptRepo DEF RunScript, wvars
    <2>2. ASSUME NEW l \in Changed', repo'[l] # repo[l]
          PROVE  l \in ToSet(JobsOf(job.args))
      <3>1. pc \in InRecipe /\ l = Lib
        BY <1>0, <2>1, <2>2, ScriptRepo DEF Changed
      <3>2. i \in DOMAIN jobs /\ l = jobs[i] /\ jobs = JobsOf(job.args)
        BY <1>0, <2>1, <3>1 DEF TypeOK, OnlyAsked, Lib
      <3> QED
        BY <3>2 DEF ToSet
    <2>3. \A l \in Changed' : repo'[l] = repo[l] => l \in Changed
      BY <2>1 DEF Changed
    <2> QED
      BY <2>1, <2>2, <2>3 DEF OnlyAsked
  <1>3. CASE BuildEnds \/ Commit \/ PushOK \/ SetupFails \/ PushRefused \/ PullFails
    <2>1. /\ UNCHANGED <<repo, base, start, job>> /\ phase # "none"
          /\ phase' \notin {"setup", "build"}
      BY <1>3 DEF BuildEnds, Commit, PushOK, SetupFails, PushRefused, PullFails, AfterPull,
                  SameDisk, disk, local, vars
    <2> QED
      BY <2>1 DEF OnlyAsked, Changed
  <1>4. CASE PullRebase
    <2>1. /\ UNCHANGED <<start, job, remote>> /\ phase # "none"
          /\ phase' \notin {"setup", "build"}
      BY <1>4 DEF PullRebase, AfterPull, branch
    <2>2. CASE UNCHANGED <<repo, base>>
      BY <2>1, <2>2 DEF OnlyAsked, Changed
    <2>3. CASE ~MustConflict /\ Rebased
      <3>1. /\ base' = remote
            /\ repo' = [l \in Libs |-> IF l \in Changed THEN repo[l] ELSE remote.tree[l]]
        BY <2>3 DEF Rebased
      <3>2. \A l \in Changed' : l \in Changed /\ remote.tree[l] # repo[l]
        BY <3>1 DEF Changed
      <3>3. \A l \in Changed' : base'.tree[l] = base.tree[l]
        BY <2>3, <3>1, <3>2 DEF MustConflict, BothChanged, Changed
      <3> QED
        BY <2>1, <3>2, <3>3 DEF OnlyAsked
    <2> QED
      BY <1>4, <2>2, <2>3 DEF PullRebase
  <1>5. CASE Checkout
    <2>1. base' = sha /\ repo' = sha.tree /\ start' = sha.tree /\ phase' = "setup"
      BY <1>5 DEF Checkout, ClonedAt
    <2> QED
      BY <2>1 DEF OnlyAsked, Changed
  <1>6. CASE EndJob \/ Cancel
    BY <1>6 DEF EndJob, Cancel, Discard, OnlyAsked
  <1>7. CASE UNCHANGED <<repo, base, start, job, phase, jobs>>
    BY <1>7 DEF OnlyAsked, Changed
  <1> QED
    BY <1>1, <1>2, <1>3, <1>4, <1>5, <1>6, <1>7, WStepCases
       DEF Dispatch, ForeignEdit, ForeignDrop, ForeignPush, local, vars, allvars, disk, wvars

(* A runner that has seen every push has the branch as its base. *)
LEMMA BaseIsSeenStep == WTypeOK /\ JobGoes /\ BaseIsSeen /\ [WNext]_allvars => BaseIsSeen'
  <1> SUFFICES ASSUME WTypeOK, JobGoes, BaseIsSeen, [WNext]_allvars PROVE BaseIsSeen'
    OBVIOUS
  <1> USE DEF BaseIsSeen, Active
  <1>0. ahead \in Nat /\ missed \in Nat /\ seen \in 0 .. ahead
    BY DEF WTypeOK
  <1>1. CASE \E l \in Libs : ForeignEdit(l) \/ ForeignDrop(l)
    BY <1>0, <1>1 DEF ForeignEdit, ForeignDrop, ForeignPush, Misses, local, waiting
  <1>2. CASE PullRebase
    BY <1>2 DEF PullRebase, Rebased, branch, waiting
  <1>3. CASE Checkout
    BY <1>0, <1>3 DEF Checkout, ClonedAt
  <1>4. CASE PushOK
    <2>1. /\ phase' = "over" /\ UNCHANGED waiting /\ remote'.tree = Overlaid
          /\ base.tree = remote.tree
      BY <1>4 DEF PushOK, WTypeOK, Commits
    <2>2. ASSUME pending # NoJob, missed' = 0
          PROVE  Changed = {} /\ missed = 0
      BY <1>0, <1>4, <2>2 DEF PushOK, Misses
    <2>3. ASSUME Changed = {} PROVE Overlaid = remote.tree
      <3>1. Overlaid = [l \in Libs |-> remote.tree[l]]
        BY <2>1, <2>3 DEF Overlaid
      <3> QED
        BY <3>1, CommitsType
    <2> QED
      BY <2>1, <2>2, <2>3 DEF waiting
  <1>5. CASE EndJob \/ Cancel
    BY <1>5 DEF EndJob, Cancel, Discard, waiting
  <1>6. CASE \E d \in Jobs : Dispatch(d)
    BY <1>6 DEF Dispatch, local
  <1>7. CASE /\ UNCHANGED <<base, remote, ahead, seen, missed, pending, sha>>
             /\ phase \notin {"none", "over", "gaveup"} \/ UNCHANGED phase
    BY <1>7
  <1> QED
    BY <1>1, <1>2, <1>3, <1>4, <1>5, <1>6, <1>7, WStepCases
       DEF StartBuild, RunScript, BuildEnds, Commit, SetupFails, PushRefused, PullFails,
           branch, local, waiting, allvars, wvars

(* Without FORCE what the base has is as the base has it. *)
LEMMA KeepsPresentStep ==
  WTypeOK /\ JobGoes /\ OnlyAsked /\ KeepsPresent /\ [WNext]_allvars => KeepsPresent'
  <1> SUFFICES ASSUME WTypeOK, JobGoes, OnlyAsked, KeepsPresent, [WNext]_allvars, ~force'
               PROVE  /\ phase' # "none" =>
                           \A l \in Libs : Present(base'.tree[l]) => repo'[l] = base'.tree[l]
                      /\ pc' \in InRecipe => ~Present(base'.tree[Lib'])
    BY DEF KeepsPresent, Present
  <1>0. TypeOK
    BY DEF WTypeOK
  <1>1. CASE StartBuild
    <2>1. ~force /\ phase # "none" /\ UNCHANGED <<repo, base>> /\ pc' \notin InRecipe
      BY <1>1 DEF StartBuild, Launch, JobGoes, SameDisk, disk, local, Exit, InRecipe
    <2> QED
      BY <2>1 DEF KeepsPresent
  <1>2. CASE RunScript
    <2>1. ~force /\ phase # "none" /\ UNCHANGED <<base, phase, jobs>> /\ ScriptStep
      BY <1>0, <1>2, ScriptRepo DEF RunScript, wvars
    <2>2. ASSUME NEW l \in Libs, Present(base.tree[l]) PROVE repo'[l] = base.tree[l]
      <3>1. repo[l] = base.tree[l] /\ (pc \in InRecipe => l # Lib)
        BY <2>1, <2>2 DEF KeepsPresent
      <3> QED
        BY <1>0, <2>1, <3>1, ScriptRepo
    <2>3. ASSUME pc' \in InRecipe PROVE ~Present(base.tree[Lib'])
      <3>1. StartRecipe \/ (pc \in InRecipe /\ UNCHANGED <<jobs, i>>)
        BY <1>2, <2>3, ScriptSteps, RecipeStep
      <3>2. CASE StartRecipe
        <4>1. Lib \in Libs /\ ~Present(repo[Lib]) /\ UNCHANGED i
          BY <2>1, <3>2 DEF StartRecipe, SkipsJob
        <4> QED
          BY <2>1, <4>1 DEF KeepsPresent, Lib
      <3>3. CASE pc \in InRecipe /\ UNCHANGED <<jobs, i>>
        BY <2>1, <3>3 DEF KeepsPresent, Lib
      <3> QED
        BY <3>1, <3>2, <3>3
    <2> QED
      BY <2>1, <2>2, <2>3
  <1>3. CASE SetupFails \/ PushRefused \/ PullFails
    <2>1. ~force /\ phase # "none" /\ UNCHANGED <<repo, base>>
      BY <1>3 DEF SetupFails, PushRefused, PullFails, SameJob, SameLaunch, SameDisk, disk, local
    <2> QED
      BY <1>3, <2>1, StoppedAfter DEF KeepsPresent
  <1>4. CASE PullRebase
    <2>1. ~force /\ phase # "none"
      BY <1>4 DEF PullRebase
    <2>2. CASE UNCHANGED <<repo, base>>
      BY <1>4, <2>1, <2>2, StoppedAfter DEF KeepsPresent
    <2>3. CASE ~MustConflict /\ Rebased
      <3>1. /\ base' = remote
            /\ repo' = [l \in Libs |-> IF l \in Changed THEN repo[l] ELSE remote.tree[l]]
        BY <2>3 DEF Rebased
      <3>2. ASSUME NEW l \in Libs, Present(remote.tree[l]), l \in Changed
            PROVE  repo[l] = remote.tree[l]
        BY <2>1, <2>3, <3>2 DEF MustConflict, BothChanged, KeepsPresent, Changed
      <3> QED
        BY <1>4, <3>1, <3>2, StoppedAfter
    <2> QED
      BY <1>4, <2>2, <2>3 DEF PullRebase
  <1>5. CASE Checkout
    <2>1. base' = sha /\ repo' = sha.tree
      BY <1>5 DEF Checkout, ClonedAt
    <2> QED
      BY <1>5, <2>1, StoppedAfter
  <1>6. CASE EndJob \/ Cancel
    BY <1>6, StoppedAfter DEF EndJob, Cancel, Discard
  <1>7. CASE BuildEnds \/ UNCHANGED <<repo, base, phase, vars>>
    BY <1>7 DEF BuildEnds, vars, disk, local, KeepsPresent, Lib
  <1>8. CASE Commit \/ PushOK
    BY <1>8 DEF Commit, PushOK, vars, disk, local, KeepsPresent, Lib
  <1> QED
    BY <1>1, <1>2, <1>3, <1>4, <1>5, <1>6, <1>7, <1>8, WStepCases
       DEF Dispatch, ForeignEdit, ForeignDrop, ForeignPush, local, vars, allvars, disk, wvars

-----------------------------------------------------------------------------
(* What attempts were spent on. *)
LEMMA FaultsFall ==
  ASSUME TypeOK, JobGoes, StartBuild \/ RunScript
  PROVE  faults' <= faults
  <1>0. faults \in Nat
    BY BoundsAssumption DEF TypeOK
  <1>1. faults' = faults \/ faults' = faults - 1
    BY DEF StartBuild, Launch, RunScript, ScriptStep, Advance, Fault, Skip, UnknownLib,
           StartRecipe, FinishLaunch, EnvTooLong, FetchCached, Download, Extract, ConfigureFails,
           Build, HarvestWipe, HarvestCopy, HarvestRelocate, HarvestMove, PostMatches, PostMisses,
           StepFails
  <1> QED
    BY <1>0, <1>1

LEMMA FewerFaultsLeft ==
  ASSUME NEW m \in Nat, NEW s \in Nat, NEW a \in Nat, NEW f \in Nat, NEW g \in Nat,
         g <= f, f <= m
  PROVE  (a <= s + (m - f) => a <= s + (m - g)) /\ 0 <= 0 + (m - g)
  OBVIOUS

LEMMA CountedStep == WTypeOK /\ JobGoes /\ Counted /\ [WNext]_allvars => Counted'
  <1> SUFFICES ASSUME WTypeOK, JobGoes, Counted, [WNext]_allvars, ~stuck'
               PROVE  LET spent == seen' + (MaxFaults - faults')
                      IN  IF phase' = "pull"
                          THEN attempt' <= spent + 1 /\ attempt' <= ahead' + (MaxFaults - faults')
                          ELSE attempt' <= spent
    BY DEF Counted
  <1>0. /\ ahead \in Nat /\ seen \in Nat /\ seen <= ahead /\ attempt \in Nat
        /\ faults \in Nat /\ faults <= MaxFaults /\ MaxFaults \in Nat
    BY BoundsAssumption DEF WTypeOK, TypeOK, Attempts
  <1>a. ~stuck => /\ phase # "pull" => attempt <= seen + (MaxFaults - faults)
                  /\ phase = "pull" => /\ attempt <= seen + (MaxFaults - faults) + 1
                                       /\ attempt <= ahead + (MaxFaults - faults)
    BY DEF Counted
  <1>1. CASE StartBuild \/ RunScript
    <2>1. ~stuck /\ phase # "pull" /\ phase' # "pull" /\ UNCHANGED <<seen, attempt>>
      BY <1>1 DEF StartBuild, RunScript, wvars, local
    <2>2. TypeOK /\ TypeOK' /\ faults' <= faults
      BY <1>1, FaultsFall, ScriptSteps, NextTypeOK DEF WTypeOK
    <2>3. faults' \in Nat
      BY <2>2, BoundsAssumption DEF TypeOK
    <2>4. attempt <= seen + (MaxFaults - faults)
      BY <1>a, <2>1
    <2>5. attempt' <= seen' + (MaxFaults - faults')
      BY <1>0, <2>1, <2>2, <2>3, <2>4, FewerFaultsLeft
    <2> QED
      BY <2>1, <2>5
  <1>2. CASE SetupFails
    <2>1. ~stuck /\ phase # "pull" /\ phase' # "pull" /\ UNCHANGED <<seen, attempt>>
      BY <1>2 DEF SetupFails, local
    <2> QED
      BY <1>0, <1>2, <1>a, <2>1 DEF SetupFails, Fault
  <1>3. CASE PushRefused
    <2>1. /\ ~stuck /\ phase # "pull" /\ phase' = "pull" /\ UNCHANGED <<seen, ahead>>
          /\ attempt' = attempt + 1
      BY <1>3 DEF PushRefused, branch
    <2>2. CASE seen # ahead /\ UNCHANGED faults
      BY <1>0, <1>a, <2>1, <2>2
    <2>3. CASE Fault
      BY <1>0, <1>a, <2>1, <2>3 DEF Fault
    <2> QED
      BY <1>3, <2>1, <2>2, <2>3 DEF PushRefused
  <1>4. CASE PullRebase
    <2>1. ~stuck /\ Rebased
      BY <1>4 DEF PullRebase
    <2>2. /\ phase = "pull" /\ phase' # "pull" /\ UNCHANGED <<faults, attempt>>
          /\ seen' = ahead
      BY <1>4, <2>1 DEF PullRebase, AfterPull, Rebased
    <2> QED
      BY <1>0, <1>a, <2>1, <2>2
  <1>5. CASE PullFails
    <2>1. ~stuck /\ phase = "pull" /\ phase' # "pull" /\ UNCHANGED <<seen, attempt>>
      BY <1>5 DEF PullFails, AfterPull, local
    <2> QED
      BY <1>0, <1>5, <1>a, <2>1 DEF PullFails, Fault
  <1>6. CASE Checkout \/ EndJob \/ Cancel
    <2>1. phase' # "pull" /\ seen' = 0 /\ attempt' = 0
      BY <1>6 DEF Checkout, EndJob, Cancel, Discard, ClonedAt
    <2>2. faults' = faults \/ (faults > 0 /\ faults' = faults - 1)
      BY <1>6 DEF Checkout, EndJob, Cancel, Fault
    <2>3. faults' \in Nat /\ faults' <= faults
      BY <1>0, <2>2
    <2>4. attempt' <= seen' + (MaxFaults - faults')
      BY <1>0, <2>1, <2>3, FewerFaultsLeft
    <2> QED
      BY <2>1, <2>4
  <1>7. CASE \E l \in Libs : ForeignEdit(l) \/ ForeignDrop(l)
    <2>1. /\ ~stuck /\ UNCHANGED <<seen, attempt, faults, phase>>
          /\ phase # "none" => ahead' = ahead + 1
      BY <1>7 DEF ForeignEdit, ForeignDrop, ForeignPush, local, vars
    <2> QED
      BY <1>0, <1>a, <2>1
  <1>8. CASE BuildEnds \/ Commit \/ PushOK
    <2>1. /\ ~stuck /\ UNCHANGED <<seen, attempt, faults>> /\ phase # "pull" /\ phase' # "pull"
      BY <1>8 DEF BuildEnds, Commit, PushOK, local, vars
    <2> QED
      BY <1>0, <1>a, <2>1
  <1>9. CASE UNCHANGED <<seen, ahead, attempt, faults, phase, stuck>>
    BY <1>a, <1>9
  <1> QED
    BY <1>1, <1>2, <1>3, <1>4, <1>5, <1>6, <1>7, <1>8, <1>9, WStepCases
       DEF Dispatch, branch, local, vars, allvars, wvars

-----------------------------------------------------------------------------
WSafety == /\ WTypeOK /\ StrictSources /\ WIndInv /\ PublishedClean /\ CacheNeverPoisoned

LEMMA LegacyClean == \A l \in Libs : Clean(l, LegacyTree)
  BY DEF Clean, LegacyTree, Present

LEMMA WInitSafety == WInit => WSafety
  <1> SUFFICES ASSUME WInit PROVE WSafety
    OBVIOUS
  <1>0. TypeOK
    BY InitTypeOK DEF WInit
  <1>1. /\ pc = "idle" /\ ~force /\ jobs = <<>> /\ faults = MaxFaults /\ pc \notin InRecipe
        /\ \A l \in Libs : stg[l] = NoTree
        /\ \A l \in Libs : repo[l] \in {NoTree, LegacyTree}
    BY DEF WInit, Init, InRecipe
  <1>2. dl = [l \in Libs |-> [v \in Vers |-> "none"]]
    BY DEF WInit, Init
  <1>3. /\ remote = [tree |-> repo, recipe |-> recipe] /\ base = remote /\ start = repo
        /\ ahead = 0 /\ seen = 0 /\ pending = NoJob /\ job = NoJob /\ phase = "none"
        /\ sha = remote /\ missed = 0
        /\ attempt = 0 /\ stuck = FALSE /\ foreign = MaxForeign
    BY DEF WInit
  <1>4. cache.key = <<>> /\ cache.dl = dl
    BY DEF WInit
  <1>5. WTypeOK
    <2>1. remote \in Commits /\ base \in Commits /\ sha \in Commits /\ start \in [Libs -> Tree]
      BY <1>0, <1>3 DEF Commits, TypeOK
    <2>2. /\ ahead \in 0 .. MaxForeign + 1 /\ missed \in 0 .. MaxForeign + 1 /\ seen \in 0 .. ahead /\ foreign \in 0 .. MaxForeign
          /\ attempt \in 0 .. Attempts
      BY <1>3, ForeignAssumption DEF Attempts
    <2>3. cache.dl \in [Libs -> [Vers -> Tgz]] /\ cache.key \in [Libs -> Vers] \cup {<<>>}
      BY <1>0, <1>4 DEF TypeOK
    <2>4. /\ pending \in Jobs \cup {NoJob} /\ job \in Jobs \cup {NoJob} /\ stuck \in BOOLEAN
          /\ phase = "none"
      BY <1>3
    <2> QED
      BY <1>0, <2>1, <2>2, <2>3, <2>4 DEF WTypeOK
  <1>6. JobGoes
    BY <1>1, <1>3, ForeignAssumption DEF JobGoes
  <1>7. StageClean
    BY <1>1 DEF StageClean, OneBuild, NoTree
  <1>8. TreesClean /\ PublishedClean
    BY <1>1, <1>3, CleanTrees, LegacyClean DEF TreesClean, PublishedClean
  <1>9. \A l \in Libs, v \in Vers : dl[l][v] = "none"
    BY <1>2
  <1>10. TarballsClean /\ CacheNeverPoisoned
    BY <1>4, <1>9 DEF TarballsClean, CacheNeverPoisoned, Poison
  <1>11. OnlyAsked /\ BaseIsSeen /\ KeepsPresent /\ StrictSources
    BY <1>1, <1>3 DEF OnlyAsked, BaseIsSeen, KeepsPresent, StrictSources, Active
  <1>12. Counted
    BY <1>1, <1>3, BoundsAssumption DEF Counted
  <1> QED
    BY <1>5, <1>6, <1>7, <1>8, <1>10, <1>11, <1>12 DEF WSafety, WIndInv

LEMMA WNextSafety == WSafety /\ [WNext]_allvars => WSafety'
  BY WTypeStep, WStrictSourcesStep, JobGoesStep, StageCleanStep, TreesCleanStep,
     PublishedCleanStep, TarballsCleanStep, CacheStep, OnlyAskedStep, BaseIsSeenStep,
     KeepsPresentStep, CountedStep
     DEF WSafety, WIndInv

LEMMA WSafe == WSpec => []WSafety
  BY WInitSafety, WNextSafety, PTL DEF WSpec

(* The workflow and GitHub hold only what they can. *)
THEOREM WTyping == WSpec => []WTypeOK
  BY WSafe, PTL DEF WSafety

(* What a phase of a job knows of its runner, its base and the branch. *)
THEOREM JobHandsOn == WSpec => []WIndInv
  BY WSafe, PTL DEF WSafety

(* Every tree on the branch is complete, of one version and, for a strict   *)
(* recipe, from a complete tarball, whatever failed or was cancelled and    *)
(* whatever people pushed meanwhile.                                        *)
THEOREM BranchIsClean == WSpec => []PublishedClean
  BY WSafe, PTL DEF WSafety

(* A tarball no recipe can be built from never enters the cache. *)
THEOREM CacheIsClean == WSpec => []CacheNeverPoisoned
  BY WSafe, PTL DEF WSafety

(* On the runners too a strict recipe is harvested from complete tarballs   *)
(* only: the cache does not bring in broken ones.                           *)
THEOREM StrictOnRunners == WSpec => []StrictFromWhole
  <1>1. WSafety => StrictFromWhole
    BY TiersAssumption DEF WSafety, WIndInv, TreesClean, Clean, StrictFromWhole
  <1> QED
    BY <1>1, WSafe, PTL

LEMMA RefusalsCounted == WSafety => RefusalsAreRaces
  <1> SUFFICES ASSUME WSafety, phase # "none", ~stuck
               PROVE  attempt <= ahead + (MaxFaults - faults)
    BY DEF RefusalsAreRaces
  <1>1. /\ ahead \in Nat /\ seen \in Nat /\ seen <= ahead /\ attempt \in Nat
        /\ faults \in Nat /\ faults <= MaxFaults /\ MaxFaults \in Nat
    BY BoundsAssumption DEF WSafety, WTypeOK, TypeOK, Attempts
  <1>2. CASE phase = "pull"
    BY <1>2 DEF WSafety, WIndInv, Counted
  <1>3. CASE phase # "pull"
    <2>1. attempt <= seen + (MaxFaults - faults)
      BY <1>3 DEF WSafety, WIndInv, Counted
    <2> QED
      BY <1>1, <2>1
  <1> QED
    BY <1>2, <1>3

(* Unless a rebase has stopped, each refused push is a push since the       *)
(* dispatch that the runner had not seen, of people or of the job before,   *)
(* or a failure of the network.                                             *)
THEOREM RefusalsExplained == WSpec => []RefusalsAreRaces
  BY WSafe, RefusalsCounted, PTL

LEMMA UnforcedPush ==
  ASSUME WSafety, PushOK, ~force, NEW l \in Libs, Present(remote.tree[l])
  PROVE  remote'.tree[l] = remote.tree[l]
  <1>1. base.tree = remote.tree /\ phase # "none"
    BY DEF WSafety, WIndInv, BaseIsSeen, Active, PushOK
  <1>2. repo[l] = base.tree[l]
    BY <1>1 DEF WSafety, WIndInv, KeepsPresent
  <1>3. remote'.tree = Overlaid
    BY DEF PushOK, WSafety, WTypeOK, Commits
  <1> QED
    BY <1>1, <1>2, <1>3 DEF Overlaid, Changed

(* A job without FORCE takes no library off the branch and changes none. *)
THEOREM UnforcedJobsAdd == WSpec => UnforcedKeepsLibs
  <1>1. WSafety /\ [WNext]_allvars =>
          [PushOK /\ ~force => \A l \in Libs :
             Present(remote.tree[l]) => remote'.tree[l] = remote.tree[l]]_allvars
    BY UnforcedPush
  <1> QED
    BY <1>1, WSafe, PTL DEF WSpec, UnforcedKeepsLibs

-----------------------------------------------------------------------------
(* The workflow implements the catalogue. *)
cvars == <<remote.tree, Asked, start, sha.tree>>

LEMMA CatalogInit == WInit => C!Init
  <1> SUFFICES ASSUME WInit PROVE C!Init
    OBVIOUS
  <1>1. WSafety /\ phase = "none" /\ start = remote.tree /\ sha = remote
    BY WInitSafety DEF WInit
  <1>2. remote.tree \in [Libs -> Tree]
    BY <1>1, CommitsType DEF WSafety
  <1>3. C!IsCatalogue(remote.tree)
    BY <1>2 DEF C!IsCatalogue
  <1>4. C!AllGood
    BY <1>1, <1>2 DEF C!AllGood, Good, WSafety, PublishedClean
  <1> QED
    BY <1>1, <1>3, <1>4 DEF C!Init, Asked, Active

LEMMA CatalogRelease ==
  ASSUME WSafety, phase \notin {"none", "over", "gaveup"}, phase' \in {"over", "gaveup"},
         UNCHANGED <<start, sha>>, remote'.tree \in [Libs -> Tree],
         \A l \in Libs : remote'.tree[l] # remote.tree[l] =>
           /\ l \in Changed /\ base.tree = remote.tree /\ remote'.tree[l] = repo[l]
  PROVE  C!Release
  <1>1. C!IsCatalogue(remote'.tree)
    BY DEF C!IsCatalogue
  <1>2. ASSUME NEW l \in Libs, remote'.tree[l] # remote.tree[l]
        PROVE  l \in Asked /\ remote.tree[l] = start[l] /\ remote'.tree[l] \in Good[l]
    <2>1. l \in ToSet(JobsOf(job.args)) /\ base.tree[l] = start[l]
      BY <1>2 DEF WSafety, WIndInv, OnlyAsked
    <2>2. repo[l] \in Tree /\ Clean(l, repo[l])
      BY DEF WSafety, WTypeOK, TypeOK, WIndInv, TreesClean
    <2> QED
      BY <1>2, <2>1, <2>2 DEF Asked, Active, Good
  <1>3. Asked' = {}
    BY DEF Asked, Active
  <1> QED
    BY <1>1, <1>2, <1>3 DEF C!Release

LEMMA CatalogStep == WSafety /\ WSafety' /\ [WNext]_allvars => [C!Next]_cvars
  <1> SUFFICES ASSUME WSafety, WSafety', [WNext]_allvars PROVE C!Next \/ UNCHANGED cvars
    OBVIOUS
  <1>0. /\ remote \in Commits /\ remote.tree \in [Libs -> Tree]
        /\ remote'.tree \in [Libs -> Tree]
    BY DEF WSafety, WTypeOK, Commits
  <1>1. CASE Checkout
    <2>1. /\ Asked = {} /\ Asked' \in SUBSET Libs /\ start' = sha.tree
          /\ UNCHANGED <<remote, sha>>
      BY <1>1 DEF Checkout, ClonedAt, Asked, Active
    <2> QED
      BY <2>1 DEF C!Next, C!Begin
  <1>2. CASE PushOK
    <2>1. base.tree = remote.tree
      BY <1>2 DEF PushOK, WSafety, WIndInv, BaseIsSeen, Active
    <2>2. remote'.tree = Overlaid
      BY <1>0, <1>2 DEF PushOK, Commits
    <2>3. \A l \in Libs : remote'.tree[l] # remote.tree[l] =>
            l \in Changed /\ remote'.tree[l] = repo[l]
      BY <2>1, <2>2 DEF Overlaid
    <2>4. C!Release
      BY <1>0, <1>2, <2>1, <2>3, CatalogRelease DEF PushOK, local, waiting
    <2> QED
      BY <2>4 DEF C!Next
  <1>3. CASE Commit \/ PullRebase \/ PullFails
    <2>1. /\ UNCHANGED <<remote, start, job, sha>> /\ phase \notin {"none", "over", "gaveup"}
      BY <1>3 DEF Commit, PullRebase, PullFails, branch, local, waiting
    <2>2. CASE phase' \in {"over", "gaveup"}
      <3>1. C!Release
        BY <1>0, <2>1, <2>2, CatalogRelease
      <3> QED
        BY <3>1 DEF C!Next
    <2>3. CASE phase' \notin {"over", "gaveup"}
      <3>1. phase' # "none"
        BY <1>3 DEF Commit, PullRebase, PullFails, AfterPull
      <3> QED
        BY <2>1, <2>3, <3>1 DEF cvars, Asked, Active
    <2> QED
      BY <2>2, <2>3
  <1>4. CASE EndJob \/ Cancel
    <2>1. Asked' = {} /\ start' = remote.tree /\ UNCHANGED <<remote, sha>>
      BY <1>4 DEF EndJob, Cancel, Discard, ClonedAt, waiting, Asked, Active
    <2> QED
      BY <2>1 DEF C!Next, C!End
  <1>5. ASSUME NEW m \in Libs, ForeignDrop(m) PROVE C!Next
    <2>1. /\ remote'.tree = [remote.tree EXCEPT ![m] = NoTree]
          /\ UNCHANGED <<phase, job, start, sha>>
      BY <1>0, <1>5 DEF ForeignDrop, ForeignPush, Commits, local, waiting
    <2>2. UNCHANGED Asked
      BY <2>1 DEF Asked, Active
    <2> QED
      BY <2>1, <2>2 DEF C!Next, C!Withdraw
  <1>6. CASE \E m \in Libs : ForeignEdit(m)
    <2>1. remote'.tree = remote.tree /\ UNCHANGED <<phase, job, start, sha>>
      BY <1>0, <1>6 DEF ForeignEdit, ForeignPush, Commits, local, waiting
    <2> QED
      BY <2>1 DEF cvars, Asked, Active
  <1>7. CASE \E d \in Jobs : Dispatch(d)
    <2>1. /\ sha' = remote /\ UNCHANGED <<remote, phase, job, start>>
      BY <1>7 DEF Dispatch, local
    <2> QED
      BY <2>1 DEF C!Next, C!Request, Asked, Active
  <1>8. CASE StartBuild \/ RunScript \/ BuildEnds \/ SetupFails \/ PushRefused
    <2>1. /\ UNCHANGED <<remote, job, start, sha>> /\ phase \notin {"none", "over", "gaveup"}
          /\ phase' \notin {"none", "over", "gaveup"}
      BY <1>8 DEF StartBuild, RunScript, BuildEnds, SetupFails, PushRefused, branch, local, waiting, wvars
    <2> QED
      BY <2>1 DEF cvars, Asked, Active
  <1>9. CASE UNCHANGED allvars
    BY <1>9 DEF allvars, wvars, cvars, Asked, Active
  <1> QED
    BY <1>1, <1>2, <1>3, <1>4, <1>5, <1>6, <1>7, <1>8, <1>9, WStepCases

(* Whatever happens, a job is one transaction on the branch: it sees the    *)
(* branch as it was when it was dispatched, however long it waited, and one *)
(* push at most puts clean trees it was asked for, or none, in the place of *)
(* what nobody has changed since.                                           *)
THEOREM JobsAreTransactions == WSpec => CatalogSpec
  BY CatalogInit, CatalogStep, WSafe, PTL DEF WSpec, CatalogSpec, C!Spec, cvars

=============================================================================
