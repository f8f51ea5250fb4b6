----------------------------- MODULE BuildLibs -----------------------------
(***************************************************************************)
(* .github/workflows/build-libs.yml: jobs that check the repository out on *)
(* a new runner, run build.sh there, and push what is harvested, while     *)
(* people push to the same branch.  One job runs at a time; GitHub keeps   *)
(* at most one more waiting, and a newer dispatch takes its place.  A job  *)
(* checks out the commit of its dispatch, not that of its start, so one    *)
(* that waited starts behind what was pushed meanwhile.                    *)
(*                                                                         *)
(* The variables of BuildSh are the runner's disk and its script.  A       *)
(* cancelled or timed out job loses them, which is why Kill and Edit of    *)
(* BuildSh are not steps here.                                             *)
(*                                                                         *)
(* Bounds: those of BuildSh, and MaxForeign pushes by people.              *)
(***************************************************************************)
EXTENDS BuildSh

CONSTANT MaxForeign

ASSUME ForeignAssumption == MaxForeign \in Nat

Attempts == 5

NoJob == [args |-> <<>>, force |-> FALSE, asked |-> FALSE]
Jobs  == [args : Dispatches, force : Forces, asked : {TRUE}]

VARIABLES
  remote,  \* the branch: tree and recipe of every library
  base,    \* the commit of the branch that the runner's HEAD rests on
  start,   \* the trees of the commit that was checked out
  ahead,   \* pushes by anybody else since the commit that was checked out
  seen,    \* how many of them base has
  pending, \* the dispatch that waits
  sha,     \* the commit of the branch at the latest dispatch
  missed,  \* pushes by anybody since that dispatch, while it waits
  job,     \* the dispatch that runs
  phase,   \* where its steps are
  attempt, \* pushes it was refused
  stuck,   \* a rebase stopped at a conflict
  cache,   \* the newest entry of the tarball cache
  foreign  \* pushes by people still to come

branch  == <<remote, ahead, missed, foreign>>
local   == <<base, start, seen, attempt, stuck>>
waiting == <<pending, sha>>
wvars   == <<remote, base, start, ahead, seen, pending, sha, missed, job, phase,
             attempt, stuck, cache, foreign>>
allvars == <<vars, wvars>>

(* A runner without a checkout. *)
Blank ==
  /\ recipe' = [l \in Libs |-> 0]
  /\ repo' = [l \in Libs |-> NoTree]
  /\ dl' = [l \in Libs |-> [v \in Vers |-> "none"]]
  /\ src' = "none" /\ stg' = repo' /\ tmp' = repo' /\ bdir' = [l \in Libs |-> {}]
  /\ env' = [roots |-> {}, extra |-> FALSE, dirs |-> 0]
  /\ force' = FALSE /\ jobs' = <<>> /\ i' = 1 /\ pc' = "idle" /\ err' = "none"

WInit ==
  /\ Init
  /\ remote = [tree |-> repo, recipe |-> recipe] /\ base = remote /\ start = repo
  /\ ahead = 0 /\ seen = 0 /\ pending = NoJob /\ sha = remote /\ missed = 0
  /\ job = NoJob /\ phase = "none"
  /\ attempt = 0 /\ stuck = FALSE
  /\ cache = [key |-> <<>>, dl |-> dl] /\ foreign = MaxForeign

(* workflow_dispatch; the concurrency group keeps the newest that waits.    *)
(* The event carries the commit the branch is at: github.sha.               *)
Dispatch(d) ==
  /\ pending' = d /\ sha' = remote /\ missed' = 0
  /\ UNCHANGED <<vars, remote, ahead, foreign, local, job, phase, cache>>

ClonedAt(commit) ==
  /\ base' = commit /\ start' = commit.tree
  /\ seen' = 0 /\ attempt' = 0 /\ stuck' = FALSE

(* actions/checkout, without a ref, takes github.sha. *)
Checkout ==
  /\ phase = "none" /\ pending # NoJob
  /\ job' = pending /\ pending' = NoJob /\ phase' = "setup"
  /\ ClonedAt(sha) /\ ahead' = missed /\ missed' = 0
  /\ repo' = sha.tree /\ recipe' = sha.recipe /\ dl' = cache.dl
  /\ UNCHANGED <<src, stg, tmp, bdir, env, force, jobs, i, pc, err, faults,
                 remote, sha, cache, foreign>>

(* The steps before "Build deps". *)
SetupFails ==
  /\ phase = "setup" /\ Fault /\ phase' = "commit" /\ Exit("step")
  /\ SameJob /\ SameDisk
  /\ UNCHANGED <<branch, local, waiting, job, cache>>

StartBuild ==
  /\ phase = "setup" /\ Launch(job.args, job.force) /\ phase' = "build"
  /\ UNCHANGED <<branch, local, waiting, job, cache>>

RunScript ==
  /\ phase = "build" /\ ScriptStep /\ UNCHANGED wvars

BuildEnds ==
  /\ phase = "build" /\ pc \in {"done", "failed"} /\ phase' = "commit"
  /\ UNCHANGED <<vars, branch, local, waiting, job, cache>>

Changed == {l \in Libs : repo[l] # base.tree[l]}

(* git add -A; git commit, also after a failed build (!cancelled()).        *)
Commit ==
  /\ phase = "commit"
  /\ phase' = IF Changed = {} THEN "over" ELSE "push"
  /\ UNCHANGED <<vars, branch, local, waiting, job, cache>>

Overlaid == [l \in Libs |-> IF l \in Changed THEN repo[l] ELSE base.tree[l]]

(* One more push that a job which waits will not have in its checkout.      *)
Misses == missed' = IF pending = NoJob THEN 0 ELSE missed + 1

PushOK ==
  /\ phase = "push" /\ ~stuck /\ seen = ahead
  /\ remote' = [remote EXCEPT !.tree = Overlaid]
  /\ IF Changed = {} THEN UNCHANGED missed ELSE Misses
  /\ phase' = "over"
  /\ UNCHANGED <<vars, ahead, foreign, local, waiting, job, cache>>

(* The branch has moved, the rebase has left HEAD detached, or (a fault)    *)
(* the network is down.                                                     *)
PushRefused ==
  /\ phase = "push"
  /\ IF stuck \/ seen # ahead THEN UNCHANGED faults ELSE Fault
  /\ attempt' = attempt + 1 /\ phase' = "pull"
  /\ SameJob /\ SameDisk
  /\ UNCHANGED <<pc, err, branch, base, start, seen, stuck, waiting, job, cache>>

AfterPull_OneMore == phase' = IF attempt > Attempts THEN "gaveup" ELSE "push"
AfterPull == phase' = IF attempt = Attempts THEN "gaveup" ELSE "push"

(* Both sides have changed a library.  When both have built the same of it  *)
(* the files may still differ, and then it is a conflict too.               *)
BothChanged  == {l \in Changed : remote.tree[l] # base.tree[l]}
MustConflict == \E l \in BothChanged : remote.tree[l] # repo[l]
MayConflict  == \E l \in BothChanged : Present(repo[l])

Rebased_KeepsOurs == base' = remote /\ seen' = ahead /\ UNCHANGED <<stuck, repo>>
Rebased_FetchOnly == UNCHANGED <<base, seen, stuck, repo>>
Rebased ==
  /\ base' = remote /\ seen' = ahead /\ UNCHANGED stuck
  /\ repo' = [l \in Libs |-> IF l \in Changed THEN repo[l] ELSE remote.tree[l]]

(* git pull --rebase || true.  A conflict leaves a rebase in progress, which *)
(* every later pull and push trips over.                                    *)
PullRebase ==
  /\ phase = "pull"
  /\ \/ stuck /\ UNCHANGED <<base, seen, stuck, repo>>
     \/ /\ ~stuck /\ (MustConflict \/ MayConflict)
        /\ stuck' = TRUE /\ UNCHANGED <<base, seen, repo>>
     \/ ~stuck /\ ~MustConflict /\ Rebased
  /\ AfterPull
  /\ UNCHANGED <<recipe, dl, src, stg, tmp, bdir, env, force, jobs, i, pc, err, faults,
                 branch, start, attempt, waiting, job, cache>>

PullFails ==
  /\ phase = "pull" /\ Fault /\ AfterPull
  /\ SameJob /\ SameDisk
  /\ UNCHANGED <<pc, err, branch, local, waiting, job, cache>>

(* The runner is discarded.  actions/cache saves in its post step, which    *)
(* only a successful job runs, and only under a key that was not restored;  *)
(* the key is the hash of deps.md, edited with every recipe.                *)
Succeeds_Always == TRUE
Succeeds == phase = "over" /\ pc = "done"
NewEntry == IF cache.key = recipe THEN cache ELSE [key |-> recipe, dl |-> dl]

Discard ==
  /\ Blank /\ phase' = "none" /\ job' = NoJob
  /\ ClonedAt(remote) /\ ahead' = 0
  /\ UNCHANGED <<remote, missed, foreign, waiting>>

EndJob ==
  /\ phase \in {"over", "gaveup"}
  /\ cache' = IF Succeeds THEN NewEntry ELSE cache
  /\ Discard /\ UNCHANGED faults

(* Cancelled by hand or by timeout-minutes; no later step runs. *)
Cancel_Commits ==
  /\ phase = "build" /\ pc \notin Stopped /\ Fault /\ Interrupted
  /\ phase' = "commit" /\ pc' = "failed" /\ UNCHANGED <<dl, src, err>>
  /\ SameJob /\ UNCHANGED <<branch, local, waiting, job, cache>>
Cancel ==
  /\ phase \notin {"none", "over", "gaveup"} /\ Fault
  /\ Discard /\ UNCHANGED cache

(* People push: a new pin of a library, or the removal of a folder so that  *)
(* the next job builds it again.                                            *)
ForeignPush ==
  /\ foreign > 0 /\ foreign' = foreign - 1
  /\ ahead' = IF phase = "none" THEN 0 ELSE ahead + 1
  /\ Misses
  /\ UNCHANGED <<vars, local, waiting, job, phase, cache>>

ForeignEdit(l) ==
  /\ remote.recipe[l] < MaxVer
  /\ remote' = [remote EXCEPT !.recipe[l] = @ + 1]
  /\ ForeignPush

ForeignDrop(l) ==
  /\ Present(remote.tree[l])
  /\ remote' = [remote EXCEPT !.tree[l] = NoTree]
  /\ ForeignPush

(* The steps of GitHub and of the runner. *)
JobStep ==
  \/ Checkout \/ SetupFails \/ StartBuild \/ RunScript \/ BuildEnds \/ Commit
  \/ PushOK \/ PushRefused \/ PullRebase \/ PullFails \/ EndJob

WNext ==
  \/ \E d \in Jobs : Dispatch(d)
  \/ JobStep
  \/ Cancel
  \/ \E l \in Libs : ForeignEdit(l) \/ ForeignDrop(l)

WSpec == WInit /\ [][WNext]_allvars

(* GitHub runs the job it has started; people need not do anything. *)
WFairSpec == WSpec /\ WF_allvars(JobStep /\ faults' = faults)
-----------------------------------------------------------------------------
Commits == [tree : [Libs -> Tree], recipe : [Libs -> Vers]]

(* The workflow's own state is what GitHub and git can hold. *)
WTypeOK ==
  /\ TypeOK
  /\ remote \in Commits /\ base \in Commits /\ start \in [Libs -> Tree]
  /\ sha \in Commits
  /\ ahead \in 0 .. MaxForeign + 1 /\ missed \in 0 .. MaxForeign + 1 /\ seen \in 0 .. ahead
  /\ pending \in Jobs \cup {NoJob} /\ job \in Jobs \cup {NoJob}
  /\ phase \in {"none", "setup", "build", "commit", "push", "pull", "over", "gaveup"}
  /\ attempt \in 0 .. Attempts /\ (phase = "push" => attempt < Attempts)
  /\ stuck \in BOOLEAN
  /\ cache.dl \in [Libs -> [Vers -> Tgz]]
  /\ cache.key \in [Libs -> Vers] \cup {<<>>}
  /\ foreign \in 0 .. MaxForeign

(* A tree as a consumer of the repository expects it: no file missing, all  *)
(* files from one version, ICU from a complete tarball.                     *)
Clean(l, t) ==
  /\ t.whole
  /\ \A v, w \in t.vers : v = w
  /\ l \in Strict /\ Present(t) => t.tgz = "whole"

(* Whatever fails or is cancelled, in whatever order people push, every     *)
(* tree on the branch is clean.  This rests on three things in two files:   *)
(* harvest moves a tree into place only when it is complete, a cancelled    *)
(* job commits nothing, and staging does not outlive the runner.            *)
PublishedClean == \A l \in Libs : Clean(l, remote.tree[l])

(* The tarball cache outlives jobs, so a tarball that cannot be built from  *)
(* must not enter it: every later job would restore it and fail.            *)
Poison(l) == {"stub"} \cup (IF l \in Strict THEN {"part"} ELSE {})

CacheNeverPoisoned == \A l \in Libs, v \in Vers : cache.dl[l][v] \notin Poison(l)

(* The branch is the catalogue of Catalog, and each job a transaction on it: *)
(* git add -A takes everything that differs, but what differs is what the   *)
(* job was asked for, and the rebase lets nothing of other people's go.     *)
(* A job sees the branch as it was when it was dispatched.                  *)
Active == phase \notin {"none", "over", "gaveup"}
Asked  == IF Active THEN ToSet(JobsOf(job.args)) \cap Libs ELSE {}
Good   == [l \in Libs |-> {t \in Tree : Clean(l, t)}]

C == INSTANCE Catalog WITH tree <- remote.tree, asked <- Asked, start <- start,
                           noted <- sha.tree, Nothing <- NoTree
CatalogSpec == C!Spec

(* Without FORCE a job takes no library off the branch, even if it fails.   *)
UnforcedKeepsLibs == [][PushOK /\ ~force => \A l \in Libs :
  Present(remote.tree[l]) => remote'.tree[l] = remote.tree[l]]_allvars

(* Each refused push is accounted for by a push since the dispatch that the *)
(* runner had not seen, of people or of the job before, or by a failing     *)
(* network, unless a rebase stopped at a conflict: the job gives up only    *)
(* after five races lost.                                                   *)
RefusalsAreRaces ==
  phase # "none" /\ ~stuck => attempt <= ahead + (MaxFaults - faults)

(* What makes the properties above inductive.  What a phase knows of the    *)
(* job; that nothing broken is staged, cached or about to be moved, unless  *)
(* the launch has failed; that what differs from the branch was asked for   *)
(* and is as it was at the checkout; and what attempts were spent on.       *)
JobGoes ==
  /\ phase # "none" => job \in Jobs
  /\ phase = "none" => ahead = 0 /\ seen = 0
  /\ phase \in {"none", "setup"} => pc = "idle" /\ ~force
  /\ phase \notin {"none", "setup", "build"} => pc \in {"done", "failed"}
  /\ phase \in {"none", "setup", "build", "commit"} => attempt = 0
  /\ ahead + foreign <= MaxForeign + 1
  /\ missed + foreign <= MaxForeign + (IF phase \in {"none", "over"} THEN 1 ELSE 0)
  /\ pending = NoJob => missed = 0

OneBuild(l, t) == t.whole /\ t.vers \subseteq {recipe[l]}

StageClean ==
  /\ pc # "failed" => \A l \in Libs : OneBuild(l, stg[l])
  /\ pc = "idle" => \A l \in Libs : stg[l] = NoTree
  /\ pc = "copy" => tmp[Lib] = NoTree
  /\ pc \in {"reloc", "move"} => OneBuild(Lib, tmp[Lib])

TreesClean == \A l \in Libs :
  Clean(l, repo[l]) /\ Clean(l, base.tree[l]) /\ Clean(l, sha.tree[l])

TarballsClean == pc # "failed" => \A l \in Libs, v \in Vers :
  dl[l][v] \in Poison(l) =>
    /\ pc \in {"extract", "build"} /\ l = Lib /\ v = recipe[l]
    /\ pc = "build" => src = "stub"

OnlyAsked ==
  /\ phase # "none" => \A l \in Changed :
       l \in ToSet(JobsOf(job.args)) /\ base.tree[l] = start[l]
  /\ phase \in {"setup", "build"} => base.tree = start
  /\ phase = "build" => jobs = JobsOf(job.args)

BaseIsSeen ==
  /\ Active /\ seen = ahead => base.tree = remote.tree
  /\ pending # NoJob /\ missed = 0 => sha.tree = remote.tree

KeepsPresent == ~force =>
  /\ phase # "none" => \A l \in Libs : Present(base.tree[l]) => repo[l] = base.tree[l]
  /\ pc \in InRecipe => ~Present(base.tree[Lib])

Counted == ~stuck =>
  LET spent == seen + (MaxFaults - faults)
  IN  IF phase = "pull" THEN attempt <= spent + 1 /\ attempt <= ahead + (MaxFaults - faults)
      ELSE attempt <= spent

WIndInv == /\ JobGoes /\ StageClean /\ TreesClean /\ TarballsClean /\ OnlyAsked
           /\ BaseIsSeen /\ KeepsPresent /\ Counted

(* A job over everything whose checkout is the newest commit, when no more   *)
(* faults or pushes of people are to come, leaves every library on the      *)
(* branch, whatever the cache holds, provided it finds in every tree it     *)
(* skips and every tarball it links against what is looked up there.        *)
LookedUp == UNION {Needs[l] : l \in Libs}
SoundDeps ==
  /\ job.force \/ UsableTrees
  /\ \A l \in LookedUp : dl[l][recipe[l]] \in {"none", "whole"}
QuietJobPublishes ==
  (/\ phase = "setup" /\ job.args = <<"all">> /\ seen = ahead /\ SoundDeps
   /\ faults = 0 /\ foreign = 0)
    ~> \A l \in Libs : Present(remote.tree[l])

-----------------------------------------------------------------------------
(* What the source says and the workflow does not do. *)

(* build-libs.yml:157: when the build fails half way, push the libraries    *)
(* that did come out.  What did not come out is not touched.                *)
NeverUnpublishes == [][PushOK => \A l \in Libs :
  Present(remote.tree[l]) => Present(remote'.tree[l])]_allvars

=============================================================================
