# A TLA+ model of lib-inkscape-android_arm64

The repository builds about thirty C and C++ libraries for Android arm64, keeps
the results as folders of the repository itself (`<lib>/lib`, `<lib>/include`)
and publishes them for a port of Inkscape. Most of its 18 735 files are that
output: headers and `.pc` files of other projects. The program proper is small:

| file | lines | what it is |
|---|---|---|
| `build/build.sh` | 852 | downloads, compiles and harvests the libraries |
| `.github/workflows/build-libs.yml` | 186 | runs `build.sh` on a GitHub runner, commits and pushes |
| `patches/gtk4-nightmode-defer.py` | 237 | C code put into GTK: night mode between two threads |
| `patches/gtk4-touch-as-pointer.py` | 410 | C code put into GTK: a finger becomes a mouse |
| `patches/gtk4-keymap-null-deref.py` | 70 | one guard put into GTK |
| `patches/gtk4-touch-slop.py` | 30 | prints a message; superseded |
| `scripts/gen-pc.sh` | 94 | writes `.pc` files for libraries built elsewhere |

## 1. Inventory

### build.sh (`BuildSh`, `BuildShMC`, `BuildShTiers`, `BuildShProofs`)

*State.* On disk: `$ROOT/<lib>` (the harvested trees, under version control),
`$ROOT/.harvest-<lib>` (a tree being put together), `.work/dl` (tarballs),
`.work/src` (unpacked sources), `.work/build-<lib>` (what CMake was configured for;
Meson's is emptied first), `.work/stage/<lib>` (the prefix a recipe installs
into). In the process: `FORCE`, the list `JOBS`, the loop's index, the exported
`PKG_CONFIG_LIBDIR`, `CPPFLAGS`, `LDFLAGS`, and `LIBRARY_PATH`, which only grows.
*Operations.* The expansion of the arguments, `selftest`, `refresh_env`, `fetch`,
`extract`, the recipes, `harvest` (wipe, copy, rewrite `.pc`, check, move), and
for four recipes commands on the tree after `harvest`.
*Hard behaviour.* `set -e` ends a launch at the first failing command, except
inside `$( )`; a launch may be killed anywhere; whatever is on disk is what the
next launch starts from, and whether a folder exists is all that tells a finished
library from an unfinished one.
*Correct when* a library is compiled only with its dependencies in place and a launch
that misses one misses it for what earlier ones left and not for its order, the loop
leaves a library behind only when its tree is there, a launch without `FORCE`
damages nothing, a harvested `.pc` names no path of the build machine, and a
launch after a failure can finish, and a list of reasonable length does not make
`LIBRARY_PATH` too long for a command to start.

### build-libs.yml: build and push (`BuildLibs`, `Catalog`, `BuildLibsMC`, `BuildLibsProofs`)

*State.* The branch, the queue of the concurrency group with the commit of the
dispatch that waits, the runner (a checkout,
`build.sh` and its `.work`), the commits of the runner on top of a base, the cache
of tarballs.
*Operations.* Dispatch, checkout of the dispatch's commit with restoring of the cache, the steps before the
build, the build, `git add -A` and commit, up to five attempts of `git push` with a
`git pull --rebase` after each refusal, the saving of the cache, cancellation.
*Hard behaviour.* People push to the same branch while a job runs; a job that waited
starts behind what the one before it pushed; a job that
fails in the middle still commits; a runner may vanish; the cache is the one thing
that outlives a job besides the branch.
*Correct when* the branch only ever has whole trees, a job does not undo what
others pushed, gives up only after losing races, and a bad download cannot poison
later jobs.

### build-libs.yml: the runner's setup (`RunnerSetup`, `RunnerSetupProofs`)

*State.* HEAD of the repository with Blender's libraries; a cache of those libraries
under that commit, and one of the NDK under its version; on the runner, the key the
job resolved, `.blender-libs`, the NDK's folder and the `cache-hit` of both restores.
*Operations.* `ls-remote`, restore, clone, save, verify; restore, download and test,
save; commits to Blender's repository, evictions, cancellation.
*Hard behaviour.* The commit is read in one step and cloned in another; the status of
`ls-remote` is lost; a restore may find an entry by a prefix of its key, or stop half
way; entries are saved before they are verified, by a look at two files, and never
replaced.
*Correct when* a build uses Blender's libraries as of the commit it resolved or later,
and none that the verification can tell are LFS pointers, the NDK cache holds only a clang that runs, and no entry or half folder
keeps every later job from building.

### The edits of the sources (`SourceEdits`, `SourceEditsProofs`)

*State.* The places of the unpacked sources that `build.sh` and `patches/` edit, in
`.work/src`, and how upstream has them.
*Operations.* For glib, gdk-pixbuf, gtk4, glibmm and gtkmm: `sed`, counts of the old
text, Python scripts that count and write, `grep` for the new text and against the
old; a new pin.
*Hard behaviour.* `sed` says nothing when its text is not there; the scripts refuse
text they have already changed; four files are written one after the other; a launch
may die in between.
*Correct when* what is compiled is edited, sources as the edits expect them are never
refused, whatever an earlier launch left, and other sources are refused.

### gtk4-nightmode-defer.py (`NightMode`, `NightModeProofs`)

*State.* `android_bind_depth`, `night_mode_pending`, the display's night mode; on the
Java side the main thread and the latch of `blockForMain`; the main context's queue.
*Operations.* `begin_bind`, `end_bind`, `update_night_mode`, `set_night_mode`,
`commit_pending_night_mode`; `onCreate`, `onConfigurationChanged`.
*Hard behaviour.* Emitting a change needs the main thread, which may be waiting
for the very thread that emits.
*Correct when* a bind emits nothing, every bind returns, and no value is lost.

### gtk4-touch-as-pointer.py (`TouchPointer`, `TouchPointerMC`, `TouchPointerProofs`, `Trees`)

*State.* `f13_down`, `f13_down_x`, `f13_target` with `f13_drag_surface`, the button
state; the tree of popups with `popup_bounds` and Java's `cfg`.
*Operations.* DOWN, MOVE, UP, CANCEL, `popup_offset`, `pick_child`.
*Hard behaviour.* Popups open, move and close during a gesture; Java lays out later
than GTK presents; two views may have fingers at once.
*Correct when* a press reaches the popup under the finger, a gesture ends where it
began, nothing stays armed, and a tap is a click at one point.

### The rest

`gtk4-keymap-null-deref.py` adds one guard to GTK (its application is in
`SourceEdits`). `gtk4-touch-slop.py` does nothing any more. `gen-pc.sh` writes a fixed
list of files.

*How they interact.* The workflow calls `gen-pc.sh`, then `build.sh`; the two share
the checkout. `build.sh` calls the patches on the sources of GTK. The patches meet
only inside GTK, on different functions.

## 2. Modules

| module | models | relation to the others |
|---|---|---|
| `BuildSh` | `build.sh` on one disk, over many launches | |
| `BuildShMC` | four libraries with every kind of recipe | extends `BuildSh` for TLC |
| `BuildShTiers` | the real `TIER1` and `TIER2` with their dependencies | data of both MC modules |
| `BuildShProofs` | theorems about `BuildSh` | extends `BuildSh` |
| `Catalog` | what consumers are promised: jobs are transactions on a catalogue | abstract |
| `BuildLibs` | the workflow; its runner *is* a `BuildSh` | extends `BuildSh`, implements `Catalog` |
| `BuildLibsMC` | three libraries, one of which needs another | extends `BuildLibs` for TLC |
| `BuildLibsProofs` | theorems about `BuildLibs`, its refinement of `Catalog` among them | extends `BuildLibs` and `BuildShProofs` |
| `RunnerSetup` | the two caches and the steps before the build | what `BuildLibs` has as its step from `"setup"` |
| `RunnerSetupProofs` | theorems about `RunnerSetup` | extends `RunnerSetup` |
| `SourceEdits` | the edits of the sources between `extract` and configure | what `BuildSh` has inside `Build` and `StepFails` |
| `SourceEditsProofs` | theorems about `SourceEdits` | extends `SourceEdits` |
| `NightMode` | the night-mode patch and the two threads | |
| `NightModeProofs` | theorems about `NightMode` | extends `NightMode` |
| `TouchPointer` | the touch patch, popups and fingers | |
| `TouchPointerMC` | two popups, two fingers | extends `TouchPointer` for TLC |
| `Trees` | a lemma of mathematics: functions defined by recursion over a forest | |
| `TouchPointerProofs` | theorems about `TouchPointer` | extends `TouchPointer` and `Trees` |

A definition whose name has an underscore (`RecipeEnv_KeepsFlags`) is a plausible
slip in the definition below it. Nothing uses it; put in that definition's place it
makes the property fail that is meant to notice.

### BuildSh and the code

`recipe` is the version a `U_*` line pins; `repo`, `tmp`, `dl`, `src`, `stg` and `bdir`
are the directories above. A tree is a record: the versions its files come from (an
install over an older one leaves the older one's extra files), whether files are
missing, what tarball it was compiled from, what its `.pc` files name, whether the
commands after `harvest` were run and found what they look for. `env` is what `refresh_env`
exported, with the number of folders in `LIBRARY_PATH` (what is too long stays too
long, so one value stands for it), `pc` the command that is next. One action is one command, or a run of
commands no fault or kill can tell apart:

| action | code |
|---|---|
| `Launch` | lines 810-841: `refresh_env`, `selftest`, the expansion of `"$@"` |
| `Skip`, `UnknownLib`, `StartRecipe`, `FinishLaunch` | the loop and the head of `build_one` |
| `FetchCached`, `Download` | `fetch` |
| `EnvTooLong` | no external command starts: `fetch` prints no name, `extract` does not know its type |
| `Extract` | `extract`; `icu`'s own `tar` is the one whose failure is noticed (`Strict`) |
| `Build`, `ConfigureFails` | a recipe up to its install; it stops for want of sources, for a CMake directory of another pin, for a dependency not found |
| `HarvestWipe`, `HarvestCopy`, `HarvestRelocate`, `HarvestMove` | `harvest` |
| `PostMatches`, `PostMisses` | the commands after `harvest` |
| `StepFails`, `Kill` | `set -e`, at any command outside `$( )`; the process dies; `Interrupted` says what is left |
| `Edit` | a commit changes a pin |

*Dependencies.* `refresh_env` puts every folder on the search paths; what a configure
step looks up there are `.pc` files, tools and headers. So a folder that is missing
ends the launch for certain (`DepsThere`), and one that is there satisfies a recipe for
certain only if the tree is `Usable`: whole, of the pin (others ask for its version),
from a whole tarball, with its `.pc` as the commands after `harvest` leave it, and
naming what is on the disk. Over any other tree, one torn by a kill in `rm -rf` or one
of glib whose tools were never re-pointed, the recipe may go on or end the launch, and
the model lets it do either.

*Failures.* Any command outside `$( )` may fail. The trees belong to the user who runs
the script, so an `rm -rf` is taken to fail as a whole, on a file system that takes no
writes, and only a kill stops it half way; an I/O error in the middle of a tree would
leave half of it, which the workflow would then commit.

What a recipe compiles is data, kept in constants: what it looks up (`Needs`),
whether it runs `tar` outside `$( )` (`Strict`: icu), empties its staging prefix
(`WipesStage`: boost), has commands after `harvest` (`PostSteps`, of which `Gated`
end the launch), extends `LDFLAGS` (`LdExtra`: libxkbcommon), uses `cmake_build` (`CMakes`: expat,
double-conversion, tiff). `Legacy` are trees
older than the rewriting of `.pc` paths, as the checked-in `icu` and `gsl` are.

### BuildLibs and the code

The variables of `BuildSh` are the runner's; `RunScript` takes the steps of the
running script, and `Checkout`, `Discard` and `PullRebase` set the disk as a fresh
clone, the end of the runner and a rebase do. `actions/checkout` has no `ref`, so it
takes the commit of the `workflow_dispatch` event: `Dispatch` notes it in `sha`,
`missed` counts what is pushed while the dispatch waits, by people or by the job before
it, and `Checkout` starts from `sha` with `missed` pushes to catch up with. `base` is the commit of the branch the
runner's HEAD rests on, so that `Changed` is what `git add -A` finds; `ahead` and
`seen` count the pushes of others since the commit that was checked out, and those the
runner has. `stuck` is a rebase stopped at a conflict: both sides have changed a library
and it has not come out the same (`MustConflict`); or it has, by the pin, but two builds
need not agree in every byte, and then it may conflict or not (`MayConflict`). Cancellation takes the whole runner, so nothing
after it runs and `Kill` is no step here.

`Catalog` is the promise: a job sees the catalogue as it was when it was requested,
however long it waited (`noted`), and changes it in one step, touching only libraries it was asked for, that nobody else
has changed since, and leaving each good or absent. `BuildLibs` implements it with
`tree <- remote.tree`, `start <- start`, `noted <- sha.tree`, and `asked` the libraries of the job that
runs (`CatalogSpec`).

### RunnerSetup and the code

One action per step of the workflow, `step` is the step the job is at. A copy of
Blender's libraries is the commit it is of and whether it is whole, has only a part of
its files, or has unresolved LFS pointers: in the one archive whose size is looked at
(`"pointers"`), or elsewhere (`"mixed"`), which the verification does not see; an NDK folder is told apart by what the tests of
the step see: no clang, one that does not run, one that runs but has other files
missing, all of it. A step whose command fails ends the job; the cache actions only
warn. `NoKey` is the empty commit of a failed `ls-remote`; as a key it is a prefix of
every other, so `Found` may give any entry, which is then no hit.

### SourceEdits and the code

A library is the list of its edits in their order, each with the places of the text it
looks at; `Matches` says what a step asks of a place, `Edited` what it makes of it.
The forms of a place are what the commands can tell apart: the text as expected, twice,
in other words, with the new text elsewhere in the file, already done, edited, edited
twice, in a file that is half written, not unpacked. Places nobody edits are there
because a check looks at them: text of upstream's own (`"finger"`, `"icon_instance"`), and
text that must not be in the file (`"slop_global"`, `"loose_include"`).

### NightMode and the code

The main thread is `"free"` or at the `"latch"`; the main context runs one runnable
at a time, `run = [op, at]`. `BeginBind` and `EndBind` are `begin_bind` and
`end_bind`, between which the bind calls `update_night_mode` (`UpdateNightMode`,
with `SetNightMode` inside); `CommitPending` is the runnable `onCreate` posts after
the latch. `at = "emit"` is the wait inside the notification for `ServeNotify`, the
main thread's part. The Java and GLib actions are external.

### TouchPointer and the code

`Origin(bounds)` is `popup_offset`, `Pick` is `pick_child` with its depth guard
(`Enter` is one level of it), `ToToplevel` the first lines of the handler, `OnDown`,
`OnMove` and `OnUp` its cases. `out` is the event the step emits, `press` an
observer: what GTK has seen of a press that is not released. Space is a line, since
both axes are treated alike, and scales are 1. Popups are created, presented (which
sets `popup_bounds`), laid out (which sets `cfg`; also before they are presented,
the case the fallback of lines 295-311 is for) and closed; Android sends the events
of a finger to a view laid out where it came down, any of them when views overlap,
and index 0 of an event is the finger with the least identifier. That a popup which is
hidden loses its `popup_bounds` (`Close`) is taken of GTK: `pick_child` no longer looks
at `visible`, so one that kept them would still be picked. There is one
toplevel: with two, the code casts a toplevel to a popup, and what that reads is
not defined.

## 3. Runs

| run | question | states |
|---|---|---|
| `launches` | what may a launch rely on, and what may it not damage, after any history? | 4 libraries, any number of launches |
| `atomic`, `gate` | two claims of `build.sh` that do not hold | as `launches` |
| `publish` | what reaches the branch and the cache? does the workflow implement `Catalog`? | 3 libraries, any number of jobs |
| `unpublish` | a claim of the workflow that does not hold | as `publish`, without people's pushes or new pins |
| `setup` | what does a build start from, and what may the caches keep? | any number of jobs, 3 NDKs, 2 commits, 2 faults |
| `edits` | is what is compiled edited, and is nothing refused for what a launch left? | 5 libraries, 1 odd place, 2 faults |
| `bind` | binds, values and deadlock for several activities | 3 activities, 3 changes |
| `twocreate` | a claim of the patch that does not hold | 2 activities |
| `touch` | where events go while popups and fingers come and go | 2 popups, 2 fingers |
| `submenu`, `slop` | two claims of the patch that do not hold | as `touch` |

### What the passing runs show

`launches`. `DepsBeforeUse`: a launch over a list in dependency order never ends for a
dependency that has no folder. It may end for one that has: the skip keeps trees a
recipe cannot rely on, torn by a kill, of an older pin or never edited after `harvest`.
Under `FORCE` none of these is a reason, since each has been built again before: the
tree was misbuilt, by a short tarball, a path `harvest` does not know or an upstream file
the commands after it do not match. `PassedIsHarvested`, `ForcedIsCurrent`: what the loop
has passed is in the repository and, under `FORCE`, has all the current recipe installs,
whole, with `.pc` files that name what is there; the exception is a library
named twice while it is being rebuilt (`Retaken`). `KeepsHarvested`: without `FORCE`
nothing changes a harvested tree. `FlagsIsolated`: the flags libxkbcommon exports
reach no other recipe, nor the next launch. `EnvFits`: a list that is short enough for
`names + 1` times all folders never meets a `LIBRARY_PATH` that is too long; of the
three lists `tier2 all` can be too long, the others cannot. `GateOnRunner`: what the
`.pc` check is worth. `IndInv` is the strengthening
the proofs use. `QuietLaunchFinishes`: a launch of everything that meets no fault
ends well from whatever earlier ones left, unless they left a broken tarball or a
CMake directory of another pin; under `FORCE` whatever the trees are, and without it if
those it skips are usable (`UsableTrees`).

`publish`. `PublishedClean`: whatever fails or is cancelled, trees on the branch are
whole and of one version. It rests on three things in two files: the move at the end
of `harvest`, that a cancelled job commits nothing, and that `.work` does not outlive
the runner. `CacheNeverPoisoned`: only successful jobs save the cache.
`StrictFromWhole`: what the one noticed `tar` is worth when tarballs come from the
cache. `AllFindsDeps`: when a launch of everything ends for a dependency there is a
folder for each, so the order of `build.sh:75-77` is not the reason. `WIndInv` is the strengthening the proofs use. `RefusalsAreRaces`: without a stuck
rebase every refused push is accounted for by a push since the dispatch, of people or of
the job before, or by the network. `CatalogSpec`: the refinement.
`UnforcedKeepsLibs`: without `FORCE` a push takes nothing away. `QuietJobPublishes`:
a job over everything that was checked out at the newest commit and meets no fault and
no push leaves every library on the branch, after any history, if the trees it skips are
usable and the tarballs of what others look up are whole (`SoundDeps`). One checked out
behind may build what the branch has and give up in a conflict: `UnforcedKeepsLibs` and
`CatalogSpec` say what it cannot do even so.

`setup`. `LibsNotStale`: a build uses Blender's libraries as of the commit its job
resolved or later, though HEAD is read and cloned in different steps. `NdkCacheWorks`:
a clang in the cache runs, also when a half restored folder was unzipped over. `IndInv`
is the strengthening the proofs use; in it, no build starts from half a folder or from
pointers the verification looks at, although the cache is filled before it is verified. `QuietJobBuilds`: a job
without faults reaches its build whatever the caches hold, but for an entry under the
very commit that the verification refuses, which lasts until Blender's repository gets a commit.

`edits`. `CompiledIsEdited`: whatever upstream writes and whatever was left, what is
compiled has each counted edit, and the old text nowhere a `grep` looks for it; a `sed`
without a `grep` (gdk-pixbuf's) has no such guarantee. `RefusedForUpstream`: a launch is
refused only for what upstream has or for a tarball that did not unpack, never for
what an earlier launch left among the edits. `ExpectedSourcesCompile`: expected
sources do compile, from any state of `.work/src`.

`bind`. `NoEmitInBind`, `BindOpensLatch`: what the patch is for, with any number of
activities. `LastValueWins`: when nothing is under way the display has the system's
mode. `FirstIsSafe`, `FirstCreateEnds`: with one activity the two threads never wait
for each other, and its `onCreate` returns.

`touch`. `GestureIsSticky`: a press only when none is held, motion and release only
to the surface that holds it. `NothingStaysArmed`: when no view has a finger, nothing
is held, unless a view closed with a finger in it; then the press stays until the
next finger is lifted. `PressReachesPopup`: a press goes to the topmost popup under
the finger, at the right place in it, before and after Java's layout; "under the
finger" asks the same of its ancestors, and popups nested deeper than the nine levels
`pick_child` goes into (`TooDeep`) are left out. `MouseFollowsFinger`: a finger lifted
within the slop, or at it (line 172; lines 25-26 say otherwise, see `slop`), clicks at
one point, one that went further drags by what it moved.

### What the violations show

| run | claim | what happens |
|---|---|---|
| `atomic` | `build.sh:224` "atomico" | a kill inside `rm -rf` of the old tree leaves half of it, which later launches skip |
| `gate` | `build.sh:690-691` "Compuerta ruidosa" | the gate fails after the tree is in place; the next launch skips the library and ends well |
| `unpublish` | `build-libs.yml:157` | a `FORCE` job that fails in `harvest` commits the removal of the old tree |
| `slop` | `gtk4-touch-as-pointer.py:25-26` "si jitter >= slop (drag)" | line 172 has `<=`: at the slop exactly it is a tap |
| `twocreate` | `gtk4-nightmode-defer.py:24-26` | the commit of one activity may run while another is at its latch |
| `submenu` | `gtk4-touch-as-pointer.py:210-219` | a nested popup is looked for only at points its parent covers; a submenu beside its menu is missed |

Two more claims do not hold in the models, and have no run of their own. Serialised
dispatches do meet in the push (`build-libs.yml:20` "Serializar dispatches para no
pisarnos en el push"): one that waited is checked out at the commit of its dispatch, and
its first push is refused for that of the job before it, which is why `RefusalsAreRaces`
counts such pushes. And "Verify libs (LFS resuelto)" (lines 66 and 77) looks at two
files: a clone with pointers in others (`"mixed"`) passes, and is built from.

### Bounds, and why they are enough

The libraries of both instances are some of the real ones, with the real order and
dependencies among them (`BuildShTiers`). That the 28 themselves are in dependency order
is that module's assumption `TiersAreInOrder`, which TLC evaluates in each of these runs.
The dependencies are those the recipes and `deps.md` record.

*BuildSh.* The recipes differ only in the constants, so four libraries, one of each
kind, have every pair of kinds next to each other in a list. The lists have a tier, a
library named twice and a name with no recipe. Launches are unbounded. `MaxVer = 1`:
properties tell the current pin from an older one only. `MaxFaults = 1`: a fault's
effect is what it leaves on disk, so a second one finds what several launches can
leave anyway; the theorems hold for any number. `MaxDirs = 25` lies between what the
longest list and the others can need ((4 + 1) * (4 + 1) = 25). On the runner the
longest prefix has 41 folders in about 3600 bytes and an argument or a variable may
have 131 072, so that `all`, with (28 + 1) * 41 = 1189 of about 1490 folders, fits.
*BuildLibs.* Three libraries: one strict, one gated, and one the gated one looks up, so
that a job may find its dependency of an older pin, dropped, or built by the job before.
A push of people, the push of the job before and a fault are three that a job may lose
to (`MaxForeign = 1`, `MaxFaults = 1`); a conflict that stays uses up the five attempts.
`MaxVer = 1`: a new pin may come between a dispatch and its checkout. The theorems hold
for any number of each.
*RunnerSetup.* Two commits after the first make an entry of the past, one of HEAD and
one that is cloned under an older key; of the NDKs one is not there to be downloaded.
Two faults: one that spoils an entry or a restore, one in the job that finds it.
*SourceEdits.* A step looks at its own places only, so a second odd place has no effect
the first does not have. Two faults: one that leaves an edit half done, one after it.
*NightMode.* A latch, a pending commit and a third activity yet to start are the
most that interact; three changes give a value that is deferred, overtaken and set
again. `GtkStep` and the queue are not bounded otherwise.
*TouchPointer.* Two popups nest or overlap as siblings; `MCRects` has one place
that covers its like in part, so that a nested popup lies inside, across or beyond
its parent. `F13_SLOP = 1` of coordinates 0 to 2 gives both taps and drags. Two
fingers are enough for one to land, move or lift while another holds the gesture.
The depth guard (nine levels) is in the model and not reached by two popups; the
theorems are of any number of popups, nested to any depth.
Popups are interchangeable, and no property of the run is temporal beyond one step,
so the symmetry is sound.

`CHECK_DEADLOCK FALSE` is said of `bind` only, where all activities may have been
created and all changes made.

### Fairness

`FairSpec` asks that a running script takes its next step and that no fault is forced
on it: the kernel schedules the process and nothing in it waits for anyone.
Launching is never asked for. `WFairSpec` asks the same of GitHub and the runner's
steps, not of dispatches, cancellations or people; so does `FairSpec` of `RunnerSetup`.
That of `SourceEdits` is the script's again. `GtkFairSpec` asks that the GLib
thread runs when it can; the main thread is not assumed to run at all, except as the
hypothesis of `FirstCreateEnds`.

## 4. Proofs

All are checked by TLAPS for every value of the constants that meets the assumptions.

`BuildSh`, from `TiersAssumption` (lists and dependencies are of libraries),
`BoundsAssumption` and `JobsAssumption` (lists are sequences of names). `TypeOK` is
inductive alone (`Typing`). The other invariants are not: that the loop leaves a
current tree behind needs that `harvest` moves the tree the recipe has just
installed, and that needs what each command hands to the next. `IndInv` says that:
`HandedOn` (the current version is in the stage, then in `.harvest-*`, then in the
repository), `FoundDeps` (for a list in order, every folder a recipe looks in is on the search paths
it runs with; whether what it looks for is in it is `Usable`),
`FewDirs` (`LIBRARY_PATH` has at most as many prefixes as the loop has gone through
names), `StrictSources` (icu gets past `tar` only with a whole tarball), `GatePassed`
(nothing is moved unchecked), `NothingToLose` (without `FORCE` a recipe runs only
when there is no tree). Each has its own step lemma, and `Safety` is the conjunction.
`FoundDeps` is where the order of the lists is used: what precedes a library in the
list has been passed, so by `PassedIsHarvested` it is there, so `refresh_env` sees it.
`OrderSuffices` adds what else a configure step can miss: under `FORCE` what precedes has
been built in this launch, so by `ForcedIsCurrent` it is whole, current and names what is
there, and what is left to be wrong with it is what `Misbuilt` lists.

`TiersInOrder` says of the script's own list that a dependency it ends for has a folder;
the order of the list is its hypothesis (`TiersAreInOrder` for the real one). `ShortListsFit` bounds `LIBRARY_PATH` by `FewDirs`.

`BuildLibs`, from the same and `ForeignAssumption`. The runner's steps are steps of
`BuildSh` (`ScriptSteps`), so what is proved of them there is used here; the other steps
find the script stopped (`Offstage`, `StoppedAfter`). What reaches the branch is clean
because of three parts of `WIndInv`, none of which stands alone: nothing broken is
staged while the launch has not failed (`StageClean`), so what is moved is clean, so
every tree on the runner and in its base is (`TreesClean`), so what a push overlays is
(`PublishedClean`), and what the next checkout brings in. The cache is clean because a
tarball that cannot be built from is left only by a launch that fails (`TarballsClean`).
For the refinement (`JobsAreTransactions`) `OnlyAsked` says that what differs from the
base was asked for and is in the base as it was in the commit of the dispatch, also across a
rebase, and `BaseIsSeen` that a push which is accepted has the branch as its base, for
which it must know that a dispatch which missed nothing has the branch as its commit;
then each step is `Request`, `Begin`, `Release`, `End`, `Withdraw` or a stutter of
`Catalog`. `KeepsPresent`
gives `UnforcedJobsAdd`, `Counted` gives `RefusalsExplained`.

`RunnerSetup`, from `SetupAssumption`. `LibsNotStale` needs that entries are at least as
new as their key (`CacheNotStale`), so that a copy is (`CopyNotStale`); `NdkCacheWorks`
needs `Checked`, that a step hands on only what passes the test it makes, which of
Blender's libraries is of two files.

`NightMode`, from `ModesAssumption`. `BindInv`: the depth is 1 exactly inside a bind.
`NoEmitInBind` follows from it. For `FirstIsSafe`, as long as one activity exists its
commit is posted after its latch has opened. For `LastValueWins`, `Order` says that
binds wait in the queue only while the main thread is at the latch, `CommitIsNext`
that a pending value has a commit behind it, and `Corrected` that whenever the
display differs from the system there is a runnable still to come that corrects it.

`SourceEdits`, from `EditsAssumption`; the five lists are definitions, so what is proved
of them is by cases over what they contain, and is for any number of odd places and
faults (the run has one and two). `IndInv` has three parts. `Audited`: what a step that
is done asked of a place is still true of it. It is inductive because of the order of
the lists (`AllInOrder`: a script counts a text before any edit of its place, and edits
what it has counted; a `grep` comes after the edit), and gives `CompiledIsEdited` at the end of the list. `OnCourse`:
over expected sources a place is edited exactly if a step that is done was to edit it;
with `ExpectedPasses`, that such a place then meets what the next step asks, it gives
`RefusedForUpstream`. The third, that a launch compiles at the end of its list only.

`TouchPointer`, from `SurfacesAssumption` (the toplevel is not a popup) and
`SpaceAssumption` (places and widths are numbers). `GestureIsSticky` and
`NothingStaysArmed` follow, whatever popups do, from `Gesture`: the surface held is the
target while `f13_down`, and a gesture has a finger or is orphaned. The two others are
about sums and searches over the tree of popups, recursive functions of which it must
first be known that they exist: the lemma `TreeFunction` of `Trees` says so for any recursion
towards the root of a forest of finite depth, by induction on a set of naturals (the
library's `WFMin`; its recursion theorem takes an operator, which the provers cannot
instantiate, so the step is a function here). `Sound` supplies the forest, as an
invariant: a popup is created under a surface that exists and destroyed when nothing is
in it, so there is a rank; and it lists each popup once. `MouseFollowsFinger` is
then from `Anchored`: while nothing disturbs a press, its finger is in the view it came
down on, and `f13_down_x` and the place GTK was told are both where it landed; what is
added to get to the toplevel and taken away to get to the target is the same for each
event of the gesture. For `PressReachesPopup`, each node of `pick_child`'s way is where
GTK draws it, in the stack under the finger, and the newest of its siblings there
(`Reached`); where the way ends no child is, since the guard ends it only with a chain
of popups that `TooDeep` excludes.

*What liveness needs.* Three of the liveness properties are proved as far as they say
something of the code and not of the scheduler: from every state they start from, the
process takes no step but the one it should, until it is where it should come to.
`QuietLaunchGoesOn`, for `QuietLaunchFinishes`: without faults no command of the launch
fails, no configure step misses a dependency and the environment is never too long, and
each step lowers `StepsLeft`, a natural number; as in the run, the tiers are in order and
fit, and without `FORCE` the trees that are there are usable. `QuietJobGoesOn`, for
`QuietJobBuilds`: each step of the job is the next of the workflow, while commits and
evictions go on; it needs of the caches (`Entries`) that no entry is a part of a folder
or of a commit to come. `ExpectedGoesOn`, for
`ExpectedSourcesCompile`. What remains is that a process with a next step takes it.

Only model-checked: the liveness properties as such (`QuietLaunchFinishes`,
`QuietJobPublishes`, `QuietJobBuilds`, `ExpectedSourcesCompile`, `BindOpensLatch`,
`FirstCreateEnds`): from fairness they need `ENABLED`, which is out of this prover's
reach. Every invariant and every action property of a passing run is a theorem.

## 5. Not modelled, and why

- The contents of sources, headers and libraries: other projects' work. That a
  compilation fails is `StepFails`.
- Harvested headers and `.pc` files, nearly all lines of the repository: they are what
  the recipes install, not code that runs here. The order in which a linker sees
  folders of `LIBRARY_PATH`, and what a configure script does with an older copy of its
  own library, are in those projects too.
- `gen-pc.sh`: a fixed list of files written from templates, from nothing each time;
  no state and no decision. `gtk4-touch-slop.py` prints a message.
- What the edits of the sources do to the meaning of the C++ code they change, but for
  the two patches that have modules of their own.
- An NDK whose clang runs and which lacks other files: the steps do not look, and the
  model keeps the form (`"clang"`) without a claim about it.
- In `TouchPointer`: the device's current surface (`maybe_update_surface`, which follows
  every event to the same surface and place), the reference that keeps a closed target
  alive, a second toplevel, scales other than 1, and the queue between Android's input
  and the handler.
- The order of the views and popups that overlap as Android draws them.

## 6. Plan

Written, in the order of importance: `BuildSh` and its proofs, `BuildLibs` with
`Catalog`, `NightMode` and its proofs, `TouchPointer`, `RunnerSetup` and its proofs,
`SourceEdits`, the proofs about `BuildLibs`, those about `SourceEdits`, the rest of those
about `TouchPointer`, and the parts of three liveness properties that need no fairness.

What could follow:
1. The same part of `QuietJobPublishes` (with what is proved of `QuietLaunchFinishes`
   for the script in it), and of `BindOpensLatch` and `FirstCreateEnds`.
2. A mouse as an abstract specification, with `TouchPointer` shown to implement it:
   `GestureIsSticky` and `MouseFollowsFinger` say most of what it would.
3. `RunnerSetup` composed with `BuildLibs` in place of `SetupFails`, if the two come to
   share state: so far all that passes between them is whether the setup succeeds.
4. A second toplevel in `TouchPointer`, as far as it has a defined outcome.
