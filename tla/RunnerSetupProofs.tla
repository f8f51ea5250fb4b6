------------------------- MODULE RunnerSetupProofs -------------------------
(* Theorems about RunnerSetup, for every number of commits of Blender's     *)
(* repository, every set of NDK versions and every number of faults.        *)
EXTENDS RunnerSetup, TLAPS

LEMMA KeysFact ==
  /\ 0 \in Commits /\ Commits \subseteq Nat /\ NoKey \in Nat /\ NoKey \notin Commits
  /\ Nothing \in Copies /\ ~Present(Nothing)
  BY SetupAssumption DEF Commits, NoKey, Copies, Nothing, Present

LEMMA FaultType ==
  ASSUME TypeOK, Fault
  PROVE  faults' \in 0 .. MaxFaults
  BY SetupAssumption DEF TypeOK, Fault

(* What the cache service finds is an entry that exists, and what it        *)
(* restores, in whole or in part, is a copy.                                *)
LEMMA FoundType ==
  ASSUME TypeOK, NEW k \in Found
  PROVE  /\ k \in Keys /\ libsCache[k] \in Copies /\ Present(libsCache[k])
         /\ [libsCache[k] EXCEPT !.is = "part"] \in Copies
  <1>1. k \in Keys /\ Present(libsCache[k])
    BY DEF Found, TypeOK, Keys
  <1>2. libsCache[k] \in Copies
    BY <1>1 DEF TypeOK
  <1> QED
    BY <1>1, <1>2 DEF Copies

LEMMA RestoreType ==
  ASSUME TypeOK, RestoreLibs
  PROVE  libs' \in Copies /\ libsHit' \in BOOLEAN /\ faults' \in 0 .. MaxFaults
  <1>1. CASE Found = {} /\ UNCHANGED <<libs, libsHit, faults>>
    BY <1>1 DEF TypeOK
  <1>2. CASE \E k \in Found :
               libs' = libsCache[k] /\ libsHit' = (k = key) /\ UNCHANGED faults
    BY <1>2, FoundType DEF TypeOK
  <1>3. CASE /\ Fault /\ UNCHANGED libsHit
             /\ libs' \in {Nothing} \cup {[libsCache[k] EXCEPT !.is = "part"] : k \in Found}
    BY <1>3, FaultType, FoundType, KeysFact DEF TypeOK
  <1> QED
    BY <1>1, <1>2, <1>3 DEF RestoreLibs

LEMMA UnzippedType ==
  ASSUME ndk \in Folders
  PROVE  Unzipped \in Folders
  BY DEF Unzipped, Folders
-----------------------------------------------------------------------------
LEMMA InitTypeOK == Init => TypeOK
  <1> SUFFICES ASSUME Init PROVE TypeOK
    OBVIOUS
  <1>1. libsCache \in [Keys -> Copies] /\ ndkCache \in [Ndks -> Folders]
    BY KeysFact DEF Init, Folders
  <1>2. head \in Commits /\ key \in Keys /\ libs \in Copies /\ ndk \in Folders
    BY KeysFact DEF Init, NewRunner, Keys, Folders
  <1>3. faults \in 0 .. MaxFaults /\ step \in Steps /\ ndkOf \in Ndks
    BY SetupAssumption DEF Init, Steps
  <1>4. libsHit \in BOOLEAN /\ ndkHit \in BOOLEAN
    BY DEF Init, NewRunner
  <1> QED
    BY <1>1, <1>2, <1>3, <1>4 DEF TypeOK

LEMMA NextTypeOK == TypeOK /\ [Next]_vars => TypeOK'
  <1> SUFFICES ASSUME TypeOK, [Next]_vars PROVE TypeOK'
    OBVIOUS
  <1> USE DEF Then, Fails, caches, runner
  <1>1. CASE StartJob
    BY <1>1, KeysFact DEF StartJob, TypeOK, Keys, Folders, Steps
  <1>2. CASE Resolve
    BY <1>2, FaultType DEF Resolve, TypeOK, Keys, Steps
  <1>3. CASE RestoreLibs
    BY <1>3, RestoreType DEF RestoreLibs, TypeOK, Steps
  <1>4. CASE CloneLibs
    <2>1. libs' \in Copies
      BY <1>4 DEF CloneLibs, TypeOK, Copies
    <2> QED
      BY <1>4, <2>1, FaultType DEF CloneLibs, TypeOK, Steps
  <1>5. CASE SaveLibs
    BY <1>5, FaultType DEF SaveLibs, TypeOK, Steps
  <1>6. CASE VerifyLibs
    BY <1>6 DEF VerifyLibs, TypeOK, Steps
  <1>7. CASE InstallTools
    BY <1>7, FaultType DEF InstallTools, TypeOK, Steps
  <1>8. CASE RestoreNdk
    <2>1. ndk' \in Folders /\ ndkHit' \in BOOLEAN
      BY <1>8 DEF RestoreNdk, TypeOK, Folders
    <2> QED
      BY <1>8, <2>1, FaultType DEF RestoreNdk, TypeOK, Steps
  <1>9. CASE SetupNdk
    <2>1. ndk' \in Folders
      BY <1>9, UnzippedType DEF SetupNdk, TypeOK
    <2> QED
      BY <1>9, <2>1, FaultType DEF SetupNdk, TypeOK, Steps
  <1>10. CASE SaveNdk
    BY <1>10, FaultType DEF SaveNdk, TypeOK, Steps
  <1>11. CASE Build \/ Cancel
    BY <1>11, FaultType DEF Build, Cancel, TypeOK, Steps
  <1>12. CASE UpstreamCommit
    BY <1>12, SetupAssumption DEF UpstreamCommit, TypeOK, Commits
  <1>13. CASE Evict
    BY <1>13, KeysFact DEF Evict, TypeOK, Folders
  <1>14. CASE UNCHANGED vars
    BY <1>14 DEF vars, TypeOK
  <1> QED
    BY <1>1, <1>2, <1>3, <1>4, <1>5, <1>6, <1>7, <1>8, <1>9, <1>10, <1>11, <1>12, <1>13,
       <1>14 DEF Next, JobStep

(* The state is made of what the caches and a runner can hold. *)
THEOREM Typing == Spec => []TypeOK
  BY InitTypeOK, NextTypeOK, PTL DEF Spec
-----------------------------------------------------------------------------
(* A job saves what it has cloned, or nothing; either is new enough.        *)
LEMMA CacheNotStaleStep ==
  TypeOK /\ CacheNotStale /\ CopyNotStale /\ [Next]_vars => CacheNotStale'
  <1> SUFFICES ASSUME TypeOK, CacheNotStale, CopyNotStale, [Next]_vars,
                      NEW k \in Commits, Present(libsCache[k])'
               PROVE  libsCache'[k].of >= k
    BY DEF CacheNotStale
  <1> USE DEF Then, Fails, caches, runner
  <1>0. k \in Keys /\ k # NoKey
    BY KeysFact DEF Keys
  <1>1. CASE SaveLibs
    <2>1. CASE libsCache'[k] = libsCache[k]
      BY <2>1 DEF CacheNotStale, Present
    <2>2. CASE k = key /\ libsCache'[k] = libs
      BY <1>0, <1>1, <2>2 DEF SaveLibs, CopyNotStale
    <2> QED
      BY <1>0, <1>1, <2>1, <2>2 DEF SaveLibs, TypeOK
  <1>2. CASE Evict
    BY <1>0, <1>2, KeysFact DEF Evict, CacheNotStale, Present, TypeOK
  <1>3. CASE UNCHANGED libsCache
    BY <1>3 DEF CacheNotStale, Present
  <1> QED
    BY <1>1, <1>2, <1>3 DEF Next, JobStep, StartJob, Resolve, RestoreLibs, CloneLibs,
       VerifyLibs, InstallTools, RestoreNdk, SetupNdk, SaveNdk, Build, Cancel,
       UpstreamCommit, vars

LEMMA NoHitYetStep == NoHitYet /\ [Next]_vars => NoHitYet'
  BY DEF NoHitYet, Next, JobStep, StartJob, Resolve, RestoreLibs, CloneLibs, SaveLibs,
     VerifyLibs, InstallTools, RestoreNdk, SetupNdk, SaveNdk, Build, Cancel,
     UpstreamCommit, Evict, vars, Then, Fails, caches, runner

(* What a job restores under its key, and what it clones after resolving    *)
(* it, are at least as new as the commit it resolved.                       *)
LEMMA CopyNotStaleStep ==
  TypeOK /\ CacheNotStale /\ CopyNotStale /\ NoHitYet /\ [Next]_vars => CopyNotStale'
  <1> SUFFICES ASSUME TypeOK, CacheNotStale, CopyNotStale, NoHitYet, [Next]_vars,
                      key' # NoKey
               PROVE  /\ key' <= head'
                      /\ libsHit' \/ step' \notin {"resolve", "restore", "clone", "over"}
                           => libs'.of >= key'
    BY DEF CopyNotStale
  <1> USE DEF Then, Fails, caches, runner
  <1>0. head \in Nat /\ key \in Nat
    BY KeysFact DEF TypeOK, Keys
  <1>1. CASE StartJob
    BY <1>1 DEF StartJob
  <1>2. CASE Resolve
    BY <1>0, <1>2 DEF Resolve, NoHitYet
  <1>3. CASE RestoreLibs
    <2>1. key # NoKey /\ key \in Commits /\ key' = key /\ head' = head /\ ~libsHit
      BY <1>3 DEF RestoreLibs, TypeOK, Keys, NoHitYet
    <2>2. libsHit' => \E k \in Found : k = key /\ libs' = libsCache[k]
      BY <1>3, <2>1 DEF RestoreLibs
    <2>3. libsHit' => libs'.of >= key
      BY <2>1, <2>2, FoundType DEF CacheNotStale
    <2> QED
      BY <1>3, <2>1, <2>3 DEF RestoreLibs, CopyNotStale
  <1>4. CASE CloneLibs
    <2>1. key' = key /\ head' = head /\ libsHit' = libsHit
      BY <1>4 DEF CloneLibs
    <2>2. CASE UNCHANGED libs /\ (libsHit \/ step' = "over")
      BY <1>4, <2>1, <2>2 DEF CopyNotStale
    <2>3. CASE libs'.of = head
      BY <1>0, <2>1, <2>3 DEF CopyNotStale
    <2> QED
      BY <1>4, <2>2, <2>3 DEF CloneLibs
  <1>5. CASE SaveLibs \/ VerifyLibs \/ InstallTools \/ RestoreNdk \/ SetupNdk \/ SaveNdk
             \/ Build \/ Cancel
    BY <1>5 DEF SaveLibs, VerifyLibs, InstallTools, RestoreNdk, SetupNdk, SaveNdk, Build,
                Cancel, CopyNotStale
  <1>6. CASE UpstreamCommit
    BY <1>0, <1>6 DEF UpstreamCommit, CopyNotStale
  <1>7. CASE Evict \/ UNCHANGED vars
    BY <1>7 DEF Evict, vars, CopyNotStale
  <1> QED
    BY <1>1, <1>2, <1>3, <1>4, <1>5, <1>6, <1>7 DEF Next, JobStep

(* What a step has tested holds for the later ones. *)
LEMMA CheckedStep == Checked /\ [Next]_vars => Checked'
  <1> SUFFICES ASSUME Checked, [Next]_vars PROVE Checked'
    OBVIOUS
  <1> USE DEF Then, Fails, caches, runner, Checked
  <1>1. CASE StartJob \/ Resolve \/ RestoreLibs \/ CloneLibs \/ SaveLibs
    BY <1>1 DEF StartJob, Resolve, RestoreLibs, CloneLibs, SaveLibs
  <1>2. CASE VerifyLibs
    BY <1>2 DEF VerifyLibs, Verified
  <1>3. CASE InstallTools \/ RestoreNdk \/ SaveNdk \/ Build \/ Cancel
    BY <1>3 DEF InstallTools, RestoreNdk, SaveNdk, Build, Cancel
  <1>4. CASE SetupNdk
    BY <1>4 DEF SetupNdk
  <1>5. CASE UpstreamCommit \/ Evict \/ UNCHANGED vars
    BY <1>5 DEF UpstreamCommit, Evict, vars
  <1> QED
    BY <1>1, <1>2, <1>3, <1>4, <1>5 DEF Next, JobStep

LEMMA NdkCacheStep == TypeOK /\ Checked /\ NdkCacheWorks /\ [Next]_vars => NdkCacheWorks'
  <1> SUFFICES ASSUME TypeOK, Checked, NdkCacheWorks, [Next]_vars PROVE NdkCacheWorks'
    OBVIOUS
  <1> USE DEF Then, Fails, caches, runner, NdkCacheWorks
  <1>1. CASE SaveNdk
    BY <1>1 DEF SaveNdk, Checked, TypeOK
  <1>2. CASE Evict
    BY <1>2 DEF Evict, TypeOK
  <1>3. CASE UNCHANGED ndkCache
    BY <1>3
  <1> QED
    BY <1>1, <1>2, <1>3 DEF Next, JobStep, StartJob, Resolve, RestoreLibs, CloneLibs, SaveLibs,
       VerifyLibs, InstallTools, RestoreNdk, SetupNdk, Build, Cancel, UpstreamCommit, vars
-----------------------------------------------------------------------------
(* The invariant the theorems share. *)
Safety == TypeOK /\ IndInv /\ NdkCacheWorks

LEMMA InitSafety == Init => Safety
  BY InitTypeOK, KeysFact DEF Init, NewRunner, Safety, IndInv, CacheNotStale, CopyNotStale,
     Checked, NoHitYet, NdkCacheWorks, Keys

LEMMA NextSafety == Safety /\ [Next]_vars => Safety'
  BY NextTypeOK, CacheNotStaleStep, CopyNotStaleStep, CheckedStep, NoHitYetStep, NdkCacheStep
     DEF Safety, IndInv

LEMMA Safe == Spec => []Safety
  BY InitSafety, NextSafety, PTL DEF Spec

(* An entry is at least as new as its key says; after its test a job has no *)
(* copy whose zlib is a pointer or that is half restored, and saves no NDK  *)
(* whose clang does not run.                                                *)
THEOREM SetupHandsOn == Spec => []IndInv
  BY Safe, PTL DEF Safety

(* A build uses Blender's libraries as of the commit the job resolved or    *)
(* later, however commits, evictions and failures fall between its steps.   *)
THEOREM LibsAreFresh == Spec => []LibsNotStale
  <1>1. Safety => LibsNotStale
    BY DEF Safety, IndInv, CopyNotStale, LibsNotStale
  <1> QED
    BY <1>1, Safe, PTL

(* The clang of every NDK in the cache runs. *)
THEOREM CachedNdkWorks == Spec => []NdkCacheWorks
  BY Safe, PTL DEF Safety
-----------------------------------------------------------------------------
(* What of QuietJobBuilds needs no fairness.  The cache keeps no part of a  *)
(* copy, which no job can clone over, and nothing of a commit to come.      *)
NoParts ==
  /\ \A k \in Keys : libsCache[k].is # "part"
  /\ step = "save" => libs.is # "part"
  /\ step = "clone" /\ libsHit => libs.is # "part"
NotOfFuture == \A k \in Commits : Present(libsCache[k]) => k <= head
StartsEmpty == step \in {"resolve", "restore"} => ~Present(libs)

Entries == NoParts /\ NotOfFuture /\ StartsEmpty

(* A job is quiet when no fault is left to happen, its NDK exists, and the  *)
(* entry it is to restore, if there is one, is not of LFS pointers; then    *)
(* each step finds what it tests for.                                       *)
Quiet ==
  /\ faults = 0 /\ ndkOf \in Released /\ step # "over"
  /\ step = "resolve" => libsCache[head].is # "pointers"
  /\ step = "restore" => key \in Commits /\ libsCache[key].is # "pointers"
  /\ step = "clone" => IF libsHit THEN Verified ELSE ~Present(libs)
  /\ step \in {"save", "verify"} => Verified
  /\ step = "ndk" => ndk = "none" \/ Runs(ndk)

Job == <<"resolve", "restore", "clone", "save", "verify", "tools", "ndkrestore", "ndk",
         "ndksave", "build">>
OneOn == \E k \in 1 .. 9 : step = Job[k] /\ step' = Job[k + 1]

LEMMA EntriesStep ==
  TypeOK /\ CopyNotStale /\ NoHitYet /\ Entries /\ [Next]_vars => Entries'
  <1> SUFFICES ASSUME TypeOK, CopyNotStale, NoHitYet, Entries, [Next]_vars PROVE Entries'
    OBVIOUS
  <1> USE DEF Then, Fails, caches, runner
  <1>0. /\ NoParts /\ NotOfFuture /\ StartsEmpty /\ head \in Nat
        /\ libsCache \in [Keys -> Copies] /\ libs \in Copies /\ key \in Keys
    BY KeysFact DEF Entries, TypeOK
  <1>1. CASE StartJob
    BY <1>0, <1>1, KeysFact DEF StartJob, Entries, NoParts, NotOfFuture, StartsEmpty
  <1>2. CASE Resolve
    BY <1>0, <1>2 DEF Resolve, Entries, NoParts, NotOfFuture, StartsEmpty
  <1>3. CASE RestoreLibs
    <2>1. UNCHANGED <<head, libsCache, key>> /\ step' = "clone"
      BY <1>3 DEF RestoreLibs
    <2>2. libsHit' => libs'.is # "part"
      BY <1>0, <1>3, FoundType DEF RestoreLibs, NoParts, NoHitYet
    <2> QED
      BY <1>0, <2>1, <2>2 DEF Entries, NoParts, NotOfFuture, StartsEmpty
  <1>4. CASE CloneLibs
    BY <1>0, <1>4 DEF CloneLibs, Entries, NoParts, NotOfFuture, StartsEmpty
  <1>5. CASE SaveLibs
    <2>1. UNCHANGED <<head, libs>> /\ step = "save" /\ step' = "verify"
      BY <1>5 DEF SaveLibs
    <2>2. CASE UNCHANGED libsCache
      BY <1>0, <2>1, <2>2 DEF Entries, NoParts, NotOfFuture, StartsEmpty
    <2>3. CASE libsCache' = [libsCache EXCEPT ![key] = libs]
      <3>1. \A k \in Keys : libsCache'[k] = IF k = key THEN libs ELSE libsCache[k]
        BY <1>0, <2>3
      <3>2. key \in Commits => key <= head
        BY KeysFact DEF CopyNotStale
      <3> QED
        BY <1>0, <2>1, <3>1, <3>2 DEF Entries, NoParts, NotOfFuture, StartsEmpty, Keys
    <2> QED
      BY <1>5, <2>2, <2>3 DEF SaveLibs
  <1>6. CASE VerifyLibs \/ InstallTools \/ RestoreNdk \/ SetupNdk \/ SaveNdk \/ Build \/ Cancel
    BY <1>0, <1>6 DEF VerifyLibs, InstallTools, RestoreNdk, SetupNdk, SaveNdk, Build, Cancel,
                      Entries, NoParts, NotOfFuture, StartsEmpty
  <1>7. CASE UpstreamCommit
    BY <1>0, <1>7, KeysFact DEF UpstreamCommit, Entries, NoParts, NotOfFuture, StartsEmpty
  <1>8. CASE Evict
    <2>1. \A k \in Keys : libsCache'[k] \in {libsCache[k], Nothing}
      BY <1>0, <1>8 DEF Evict
    <2>2. Nothing.is = "none"
      BY DEF Nothing
    <2> QED
      BY <1>0, <1>8, <2>1, <2>2, KeysFact
         DEF Evict, Entries, NoParts, NotOfFuture, StartsEmpty, Present, Keys
  <1>9. CASE UNCHANGED vars
    BY <1>0, <1>9 DEF vars, Entries, NoParts, NotOfFuture, StartsEmpty
  <1> QED
    BY <1>1, <1>2, <1>3, <1>4, <1>5, <1>6, <1>7, <1>8, <1>9 DEF Next, JobStep

LEMMA InitEntries == Init => Entries
  <1> SUFFICES ASSUME Init PROVE Entries
    OBVIOUS
  <1>1. \A k \in Keys : libsCache[k] = Nothing
    BY DEF Init
  <1>2. libs = Nothing /\ step = "over" /\ Nothing.is = "none"
    BY DEF Init, NewRunner, Nothing
  <1> QED
    BY <1>1, <1>2 DEF Entries, NoParts, NotOfFuture, StartsEmpty, Present, Keys

(* The steps of a quiet job do what their names say. *)
LEMMA QuietJobStep ==
  Safety /\ Entries /\ Quiet /\ step # "build" /\ JobStep => Quiet' /\ OneOn
  <1> SUFFICES ASSUME Safety, Entries, Quiet, step # "build", JobStep PROVE Quiet' /\ OneOn
    OBVIOUS
  <1> USE DEF Then, Fails, caches, runner, Quiet, Verified
  <1>0. /\ ~Fault /\ faults = 0 /\ head \in Commits /\ key \in Keys
        /\ libsCache \in [Keys -> Copies] /\ libs \in Copies
        /\ NoParts /\ NotOfFuture /\ StartsEmpty /\ NdkCacheWorks /\ NoHitYet
    BY DEF Safety, IndInv, Entries, TypeOK, Fault
  <1>j. \A k \in 1 .. 9 : step = Job[k] /\ step' = Job[k + 1] => OneOn
    BY DEF Job, OneOn
  <1>1. CASE Resolve
    <2>1. key' = head /\ UNCHANGED <<libsCache, ndkOf, faults>> /\ step = "resolve" /\ step' = "restore"
      BY <1>0, <1>1 DEF Resolve
    <2> QED
      BY <1>0, <1>j, <2>1 DEF Job
  <1>2. CASE RestoreLibs
    <2>1. /\ step = "restore" /\ step' = "clone" /\ UNCHANGED <<ndkOf, faults>>
          /\ key \in Commits /\ libsCache[key].is # "pointers" /\ libsCache[key].is # "part"
      BY <1>0, <1>2 DEF RestoreLibs, Fault, NoParts
    <2>2. Found = IF Present(libsCache[key]) THEN {key} ELSE {}
      BY <2>1, KeysFact DEF Found
    <2>3. CASE Found = {} /\ UNCHANGED <<libs, libsHit, faults>>
      BY <1>0, <1>j, <2>1, <2>3 DEF StartsEmpty, NoHitYet, Job, Present
    <2>4. CASE \E k \in Found : libs' = libsCache[k] /\ libsHit' = (k = key)
      <3>1. libs' = libsCache[key] /\ libsHit' /\ Present(libsCache[key])
        BY <2>2, <2>4
      <3>2. Verified'
        BY <1>0, <2>1, <3>1 DEF Present, Copies
      <3> QED
        BY <1>j, <2>1, <3>1, <3>2 DEF Job
    <2> QED
      BY <1>0, <1>2, <2>3, <2>4 DEF RestoreLibs
  <1>3. CASE CloneLibs
    <2>1. /\ step = "clone" /\ step' = "save" /\ Verified' /\ UNCHANGED <<ndkOf, faults>>
      BY <1>0, <1>3 DEF CloneLibs
    <2> QED
      BY <1>j, <2>1 DEF Job
  <1>4. CASE SaveLibs
    <2>1. step = "save" /\ step' = "verify" /\ UNCHANGED <<libs, ndkOf, faults>>
      BY <1>0, <1>4 DEF SaveLibs
    <2> QED
      BY <1>j, <2>1 DEF Job
  <1>5. CASE VerifyLibs
    <2>1. step = "verify" /\ step' = "tools" /\ UNCHANGED <<ndkOf, faults>>
      BY <1>5 DEF VerifyLibs, Verified
    <2> QED
      BY <1>j, <2>1 DEF Job
  <1>6. CASE InstallTools
    <2>1. step = "tools" /\ step' = "ndkrestore" /\ UNCHANGED <<ndkOf, faults>>
      BY <1>0, <1>6 DEF InstallTools
    <2> QED
      BY <1>j, <2>1 DEF Job
  <1>7. CASE RestoreNdk
    <2>1. /\ step = "ndkrestore" /\ step' = "ndk" /\ UNCHANGED <<ndkOf, faults>>
          /\ ndk' = ndkCache[ndkOf]
      BY <1>0, <1>7 DEF RestoreNdk
    <2>2. ndkOf \in Ndks
      BY DEF Safety, TypeOK
    <2> QED
      BY <1>0, <1>j, <2>1, <2>2 DEF Job, NdkCacheWorks
  <1>8. CASE SetupNdk
    <2>1. step = "ndk" /\ step' = "ndksave" /\ UNCHANGED <<ndkOf, faults>>
      BY <1>0, <1>8 DEF SetupNdk, Unzipped, Runs
    <2> QED
      BY <1>j, <2>1 DEF Job
  <1>9. CASE SaveNdk
    <2>1. step = "ndksave" /\ step' = "build" /\ UNCHANGED <<ndkOf, faults>>
      BY <1>0, <1>9 DEF SaveNdk
    <2> QED
      BY <1>j, <2>1 DEF Job
  <1> QED
    BY <1>1, <1>2, <1>3, <1>4, <1>5, <1>6, <1>7, <1>8, <1>9 DEF JobStep, Build

(* Nor does anything else that may happen disturb it. *)
LEMMA QuietOtherStep ==
  Safety /\ Entries /\ Quiet /\ (StartJob \/ Cancel \/ UpstreamCommit \/ Evict) => Quiet'
  <1> SUFFICES ASSUME Safety, Entries, Quiet, StartJob \/ Cancel \/ UpstreamCommit \/ Evict
               PROVE  Quiet'
    OBVIOUS
  <1>0. /\ ~Fault /\ head \in Nat /\ head \in Commits /\ key \in Keys
        /\ libsCache \in [Keys -> Copies] /\ NotOfFuture
    BY KeysFact DEF Safety, Entries, TypeOK, Quiet, Fault
  <1>1. ~StartJob /\ ~Cancel
    BY <1>0 DEF Quiet, StartJob, Then, Cancel
  <1>2. CASE UpstreamCommit
    <2>1. /\ UNCHANGED <<libsCache, ndkOf, key, libsHit, libs, ndk, step, faults>>
          /\ head' = head + 1 /\ head + 1 \in Commits
      BY <1>0, <1>2, SetupAssumption DEF UpstreamCommit, caches, runner, Commits
    <2>2. ~Present(libsCache[head + 1])
      BY <1>0, <2>1 DEF NotOfFuture
    <2> QED
      BY <2>1, <2>2 DEF Quiet, Present, Verified
  <1>3. CASE Evict
    <2>1. UNCHANGED <<head, ndkOf, key, libsHit, libs, ndk, step, faults>>
      BY <1>3 DEF Evict, runner
    <2>2. \A k \in Keys : libsCache'[k] \in {libsCache[k], Nothing}
      BY <1>0, <1>3 DEF Evict
    <2>3. \A k \in Keys : libsCache[k].is # "pointers" => libsCache'[k].is # "pointers"
      BY <2>2 DEF Nothing
    <2>4. head \in Keys
      BY <1>0 DEF Keys
    <2>5. Runs(ndk)' = Runs(ndk) /\ Present(libs)' = Present(libs)
      BY <2>1 DEF Runs, Present
    <2> QED
      BY <1>0, <2>1, <2>3, <2>4, <2>5 DEF Quiet, Verified
  <1> QED
    BY <1>1, <1>2, <1>3

(* Where the liveness property of the run starts, and what steps keep from  *)
(* there on.                                                                *)
QuietStart ==
  step = "resolve" /\ faults = 0 /\ ndkOf \in Released /\ libsCache[head].is # "pointers"
QuietGoesOn == [][Quiet /\ step # "build" => Quiet' /\ (JobStep => OneOn)]_vars

(* Recovery, but for the scheduler: from where QuietJobBuilds starts, no    *)
(* step of the job ends it before its build, whatever the caches hold and   *)
(* whatever is committed or evicted meanwhile.                              *)
THEOREM QuietJobGoesOn == Spec => [](QuietStart => Quiet) /\ QuietGoesOn
  <1>1. QuietStart => Quiet
    BY DEF QuietStart, Quiet
  <1>2. Spec => []Entries
    <2>1. Safety => TypeOK /\ CopyNotStale /\ NoHitYet
      BY DEF Safety, IndInv
    <2> QED
      BY <2>1, Safe, InitEntries, EntriesStep, PTL DEF Spec
  <1>3. Safety /\ Entries /\ [Next]_vars
          => [Quiet /\ step # "build" => Quiet' /\ (JobStep => OneOn)]_vars
    BY QuietJobStep, QuietOtherStep DEF Next
  <1> QED
    BY <1>1, <1>2, <1>3, Safe, PTL DEF Spec, QuietGoesOn

=============================================================================
