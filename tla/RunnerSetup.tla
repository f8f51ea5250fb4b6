---------------------------- MODULE RunnerSetup ----------------------------
(***************************************************************************)
(* .github/workflows/build-libs.yml, the steps before "Build deps": what a *)
(* new runner takes from two caches that outlive it, Blender's libraries   *)
(* under the commit of their repository and the NDK under its version, and *)
(* what it fetches and puts into them when they have nothing.  Jobs run    *)
(* one at a time.  Meanwhile Blender's repository gets commits and GitHub  *)
(* evicts entries.  BuildLibs has all of this as its step from "setup".    *)
(*                                                                         *)
(* A step whose command fails ends the job.  A cache step never does: it   *)
(* warns, and the job goes on without.                                     *)
(*                                                                         *)
(* Bounds: MaxHead commits of Blender's repository, MaxFaults faults.      *)
(***************************************************************************)
EXTENDS Naturals

CONSTANTS
  Ndks,     \* the NDK versions jobs are dispatched with
  Released, \* those that Google has
  MaxHead, MaxFaults

ASSUME SetupAssumption ==
  Released \subseteq Ndks /\ MaxHead \in Nat /\ MaxFaults \in Nat

Commits == 0 .. MaxHead
NoKey   == MaxHead + 1 \* "libs-android-", when ls-remote printed nothing
Keys    == Commits \cup {NoKey}

(* .blender-libs, and an entry of its cache: the commit it is of, and       *)
(* whether files are missing, or its large files are still LFS pointers:    *)
(* all of them, or some but not zlib's archive.                             *)
Copies == [of : Commits, is : {"none", "part", "pointers", "mixed", "whole"}]
Nothing == [of |-> 0, is |-> "none"]

(* An NDK folder, and an entry of its cache: no clang in it, a clang that   *)
(* does not run, a clang that runs but other files missing, or all of it.   *)
Folders  == {"none", "noclang", "badclang", "clang", "whole"}
Runs(n)  == n \in {"clang", "whole"}

VARIABLES
  head,      \* HEAD of Blender's repository
  libsCache, \* per key
  ndkCache,  \* per version
  ndkOf,     \* inputs.ndk of the job
  key,       \* what the resolved commit makes of the cache's key
  libsHit, ndkHit, \* cache-hit of the two restore steps
  libs,      \* .blender-libs on the runner
  ndk,       \* ~/android-ndk-<version> on the runner
  step,      \* the step the job is at
  faults     \* faults left to happen

caches == <<libsCache, ndkCache>>
runner == <<ndkOf, key, libsHit, ndkHit, libs, ndk>>
vars   == <<head, caches, runner, step, faults>>

NewRunner ==
  /\ key = NoKey /\ libsHit = FALSE /\ ndkHit = FALSE /\ libs = Nothing /\ ndk = "none"

Init ==
  /\ head = 0 /\ faults = MaxFaults /\ step = "over" /\ ndkOf \in Ndks
  /\ libsCache = [k \in Keys |-> Nothing] /\ ndkCache = [v \in Ndks |-> "none"]
  /\ NewRunner

Fault == faults > 0 /\ faults' = faults - 1

Then(from, to) == step = from /\ step' = to

(* Dispatch, and Checkout. *)
StartJob ==
  /\ Then("over", "resolve")
  /\ ndkOf' \in Ndks /\ key' = NoKey /\ libsHit' = FALSE /\ ndkHit' = FALSE
  /\ libs' = Nothing /\ ndk' = "none"
  /\ UNCHANGED <<head, caches, faults>>

(* The status of ls-remote is lost inside $( ): without it the key is empty. *)
Resolve_EveryRef ==
  /\ Then("resolve", "restore") /\ key' = NoKey + 1 \* several lines, no commit
  /\ UNCHANGED <<head, caches, ndkOf, libsHit, ndkHit, libs, ndk, faults>>
Resolve ==
  /\ Then("resolve", "restore")
  /\ \/ key' = head /\ UNCHANGED faults
     \/ key' = NoKey /\ Fault
  /\ UNCHANGED <<head, caches, ndkOf, libsHit, ndkHit, libs, ndk>>

Present(c) == c.is # "none"

(* The service looks for the key itself, then for one that it is a prefix   *)
(* of; the empty key is a prefix of every other.                            *)
Found ==
  IF Present(libsCache[key]) THEN {key}
  ELSE {k \in Commits : key = NoKey /\ Present(libsCache[k])}

(* An entry found by its prefix is restored, but it is no hit. *)
RestoreLibs_AnyIsHit ==
  /\ Then("restore", "clone")
  /\ LET found == {k \in Keys : Present(libsCache[k])}
     IN  IF found = {} THEN UNCHANGED <<libs, libsHit>>
         ELSE libs' \in {libsCache[k] : k \in found} /\ libsHit' = TRUE
  /\ UNCHANGED <<head, caches, ndkOf, key, ndkHit, ndk, faults>>
RestoreLibs ==
  /\ Then("restore", "clone")
  /\ \/ Found = {} /\ UNCHANGED <<libs, libsHit, faults>>
     \/ \E k \in Found :
          libs' = libsCache[k] /\ libsHit' = (k = key) /\ UNCHANGED faults
     \/ /\ Fault /\ UNCHANGED libsHit \* the service fails, or stops half way
        /\ libs' \in {Nothing} \cup {[libsCache[k] EXCEPT !.is = "part"] : k \in Found}
  /\ UNCHANGED <<head, caches, ndkOf, key, ndkHit, ndk>>

Fails == step' = "over"

(* git clone refuses a folder that is not empty. *)
CloneLibs_Always ==
  /\ step = "clone"
  /\ IF Present(libs) THEN Fails /\ UNCHANGED libs
     ELSE step' = "save" /\ libs' = [of |-> head, is |-> "whole"]
  /\ UNCHANGED <<head, caches, ndkOf, key, libsHit, ndkHit, ndk, faults>>
CloneLibs ==
  /\ step = "clone"
  /\ \/ libsHit /\ step' = "save" /\ UNCHANGED <<libs, faults>>
     \/ ~libsHit /\ Present(libs) /\ Fails /\ UNCHANGED <<libs, faults>>
     \/ ~libsHit /\ Fault /\ Fails /\ UNCHANGED libs
     \/ /\ ~libsHit /\ ~Present(libs) /\ step' = "save"
        /\ \/ libs' = [of |-> head, is |-> "whole"] /\ UNCHANGED faults
           \/ \E form \in {"pointers", "mixed"} : libs' = [of |-> head, is |-> form] /\ Fault
  /\ UNCHANGED <<head, caches, ndkOf, key, libsHit, ndkHit, ndk>>

(* An entry is never replaced; a save that fails is a warning. *)
SaveLibs ==
  /\ Then("save", "verify")
  /\ \/ ~libsHit /\ ~Present(libsCache[key])
        /\ libsCache' = [libsCache EXCEPT ![key] = libs] /\ UNCHANGED faults
     \/ (libsHit \/ Present(libsCache[key])) /\ UNCHANGED <<libsCache, faults>>
     \/ ~libsHit /\ Fault /\ UNCHANGED libsCache
  /\ UNCHANGED <<head, ndkCache, runner>>

(* zlib's archive must be longer than a pointer, and libxml2's header there; *)
(* no other file is looked at.                                              *)
Verified_Always == TRUE
Verified == libs.is \in {"mixed", "whole"}

VerifyLibs ==
  /\ step = "verify"
  /\ IF Verified THEN step' = "tools" ELSE Fails
  /\ UNCHANGED <<head, caches, runner, faults>>

(* The tarball cache and the packages; meson must be new enough. *)
InstallTools ==
  /\ step = "tools"
  /\ \/ step' = "ndkrestore" /\ UNCHANGED faults
     \/ Fails /\ Fault
  /\ UNCHANGED <<head, caches, runner>>

RestoreNdk ==
  /\ Then("ndkrestore", "ndk")
  /\ \/ /\ ndk' = ndkCache[ndkOf] /\ ndkHit' = (ndk' # "none") /\ UNCHANGED faults
     \/ /\ Fault /\ UNCHANGED ndkHit
        /\ ndk' \in IF ndkCache[ndkOf] = "none" THEN {"none"} ELSE Folders \ {"whole"}
  /\ UNCHANGED <<head, caches, ndkOf, key, libsHit, libs>>

(* unzip finds nobody to ask and keeps the files that are there. *)
Unzipped == CASE ndk = "none"     -> "whole"
              [] ndk = "noclang"  -> "clang"
              [] ndk = "badclang" -> "badclang"
              [] OTHER            -> ndk

(* The zip is fetched unless there is a clang that runs, and the step ends  *)
(* with the same test.                                                      *)
SetupNdk_TestsBeforeOnly ==
  /\ Then("ndk", "ndksave")
  /\ ndk' = IF Runs(ndk) THEN ndk ELSE Unzipped
  /\ UNCHANGED <<head, caches, ndkOf, key, libsHit, ndkHit, libs, faults>>
SetupNdk ==
  /\ step = "ndk"
  /\ \/ Runs(ndk) /\ step' = "ndksave" /\ UNCHANGED <<ndk, faults>>
     \/ /\ ~Runs(ndk) /\ ndkOf \in Released /\ ndk' = Unzipped /\ UNCHANGED faults
        /\ IF Runs(Unzipped) THEN step' = "ndksave" ELSE Fails
     \/ ~Runs(ndk) /\ ndkOf \notin Released /\ Fails /\ UNCHANGED <<ndk, faults>>
     \/ ~Runs(ndk) /\ Fault /\ Fails /\ UNCHANGED ndk
  /\ UNCHANGED <<head, caches, ndkOf, key, libsHit, ndkHit, libs>>

SaveNdk ==
  /\ Then("ndksave", "build")
  /\ \/ ~ndkHit /\ ndkCache[ndkOf] = "none"
        /\ ndkCache' = [ndkCache EXCEPT ![ndkOf] = ndk] /\ UNCHANGED faults
     \/ (ndkHit \/ ndkCache[ndkOf] # "none") /\ UNCHANGED <<ndkCache, faults>>
     \/ ~ndkHit /\ Fault /\ UNCHANGED ndkCache
  /\ UNCHANGED <<head, libsCache, runner>>

(* The overlay, the build and the push, which use the caches no more. *)
Build ==
  /\ Then("build", "over")
  /\ UNCHANGED <<head, caches, runner, faults>>

Cancel ==
  /\ step # "over" /\ Fault /\ step' = "over"
  /\ UNCHANGED <<head, caches, runner>>

UpstreamCommit ==
  /\ head < MaxHead /\ head' = head + 1
  /\ UNCHANGED <<caches, runner, step, faults>>

Evict ==
  /\ \/ /\ \E k \in Keys : libsCache' = [libsCache EXCEPT ![k] = Nothing]
        /\ UNCHANGED ndkCache
     \/ /\ \E v \in Ndks : ndkCache' = [ndkCache EXCEPT ![v] = "none"]
        /\ UNCHANGED libsCache
  /\ UNCHANGED <<head, runner, step, faults>>

JobStep ==
  \/ Resolve \/ RestoreLibs \/ CloneLibs \/ SaveLibs \/ VerifyLibs \/ InstallTools
  \/ RestoreNdk \/ SetupNdk \/ SaveNdk \/ Build

Next == StartJob \/ JobStep \/ Cancel \/ UpstreamCommit \/ Evict

Spec == Init /\ [][Next]_vars

(* GitHub runs the job it has started. *)
FairSpec == Spec /\ WF_vars(JobStep /\ faults' = faults)
-----------------------------------------------------------------------------
Steps == {"resolve", "restore", "clone", "save", "verify", "tools", "ndkrestore",
          "ndk", "ndksave", "build", "over"}

(* The state is made of what the caches and a runner can hold. *)
TypeOK ==
  /\ head \in Commits /\ key \in Keys /\ ndkOf \in Ndks
  /\ libsCache \in [Keys -> Copies] /\ ndkCache \in [Ndks -> Folders]
  /\ libsHit \in BOOLEAN /\ ndkHit \in BOOLEAN
  /\ libs \in Copies /\ ndk \in Folders
  /\ step \in Steps /\ faults \in 0 .. MaxFaults

(* A build uses Blender's libraries as of the commit the job resolved, or   *)
(* later (yml:36-37), though HEAD is read in one step and cloned in         *)
(* another, and whatever cache entries were made by jobs of that kind.  A   *)
(* job whose ls-remote failed has resolved no commit.                       *)
LibsNotStale == step = "build" /\ key # NoKey => libs.of >= key

(* A clang in the NDK cache runs, also when the folder was made of half an  *)
(* entry and a zip over it, or the entry was evicted in between.            *)
NdkCacheWorks == \A v \in Ndks : ndkCache[v] = "none" \/ Runs(ndkCache[v])

(* What makes the properties above inductive: an entry is at least as new   *)
(* as its key says, so is what a job takes from it or clones, and what a    *)
(* step has tested holds for the later ones.                                *)
CacheNotStale == \A k \in Commits : Present(libsCache[k]) => libsCache[k].of >= k
CopyNotStale == key # NoKey =>
  /\ key <= head
  /\ libsHit \/ step \notin {"resolve", "restore", "clone", "over"} => libs.of >= key
Checked ==
  /\ step \in {"tools", "ndkrestore", "ndk", "ndksave", "build"} =>
       libs.is \notin {"none", "part", "pointers"}
  /\ step = "ndksave" => Runs(ndk)

NoHitYet == step \in {"resolve", "restore"} => ~libsHit

IndInv == CacheNotStale /\ CopyNotStale /\ Checked /\ NoHitYet

(* A job that meets no fault reaches its build when HEAD's entry is not     *)
(* broken: a broken one, and a half restored folder, are things of one job  *)
(* or of one commit of Blender's, whatever else the caches hold.            *)
QuietJobBuilds ==
  (/\ step = "resolve" /\ faults = 0 /\ ndkOf \in Released
   /\ libsCache[head].is # "pointers") ~> step = "build"

=============================================================================
