----------------------------- MODULE NightMode -----------------------------
(***************************************************************************)
(* patches/gtk4-nightmode-defer.py: the C code it puts into GTK's Android  *)
(* backend, between Android's main thread and the thread that runs the     *)
(* GLib main context.                                                      *)
(*                                                                         *)
(* The main thread posts runnables to the main context, which runs them in *)
(* order.  For an activity's onCreate it posts the bind and waits on a     *)
(* latch (blockForMain), then posts the commit (runOnMain).  Emitting a    *)
(* change of night mode needs work of the main thread before it returns    *)
(* (lines 9-12 of the patch).  The Java side and GLib are not in this      *)
(* repository; they are modelled from what the patch says of them.         *)
(*                                                                         *)
(* Bound: MaxChanges changes of the system's configuration.                *)
(***************************************************************************)
EXTENDS Naturals, Sequences

CONSTANTS Activities, Modes, Undefined, MaxChanges

ASSUME ModesAssumption ==
  Undefined \notin Modes /\ Modes # {} /\ MaxChanges \in Nat

VARIABLES
  config,   \* the system's night mode
  changes,  \* changes of it so far
  life,     \* onCreate of each activity: "new", "creating" or "created"
  main,     \* the main thread: "free", or "latch" inside blockForMain
  latch,    \* whether the latch it waits on is still closed
  queue,    \* the runnables posted to the main context
  run,      \* the runnable the main context is in, and where
  depth,    \* android_bind_depth
  pending,  \* night_mode_pending
  mode      \* self->night_mode

vars  == <<config, changes, life, main, latch, queue, run, depth, pending, mode>>
jvars == <<config, changes, life, main>>

Ops    == {"bind", "update", "commit"}
Places == {"start", "night", "emit", "end"}
Idle   == [op |-> "none", at |-> "end"]

Init ==
  /\ config \in Modes /\ changes = 0
  /\ life = [a \in Activities |-> "new"] /\ main = "free" /\ latch = FALSE
  /\ queue = <<>> /\ run = Idle
  /\ depth = 0 /\ pending = Undefined /\ mode = Undefined

Post(op) == queue' = Append(queue, op)

(* ToplevelActivity.onCreate: blockForMain(bind) ... *)
OnCreate(a) ==
  /\ main = "free" /\ life[a] = "new"
  /\ life' = [life EXCEPT ![a] = "creating"]
  /\ main' = "latch" /\ latch' = TRUE /\ Post("bind")
  /\ UNCHANGED <<config, changes, run, depth, pending, mode>>

(* ... and runOnMain(commitPendingNightMode), the latch being open. *)
OnCreateReturns(a) ==
  /\ main = "latch" /\ life[a] = "creating" /\ ~latch
  /\ life' = [life EXCEPT ![a] = "created"]
  /\ main' = "free" /\ Post("commit")
  /\ UNCHANGED <<config, changes, latch, run, depth, pending, mode>>

(* onConfigurationChanged of an activity posts an update. *)
ConfigChange(m) ==
  /\ main = "free" /\ changes < MaxChanges
  /\ \E a \in Activities : life[a] = "created"
  /\ config' = m /\ changes' = changes + 1 /\ Post("update")
  /\ UNCHANGED <<life, main, latch, run, depth, pending, mode>>

(* The main thread's part of the notification chain. *)
ServeNotify ==
  /\ main = "free" /\ run.at = "emit"
  /\ run' = [run EXCEPT !.at = "end"]
  /\ UNCHANGED <<jvars, latch, queue, depth, pending, mode>>

(* The main context takes the next runnable. *)
TakeRunnable ==
  /\ run = Idle /\ queue # <<>>
  /\ run' = [op |-> Head(queue), at |-> "start"] /\ queue' = Tail(queue)
  /\ UNCHANGED <<jvars, latch, depth, pending, mode>>

(* gdk_android_display_begin_bind, then the calls before the night mode's.  *)
BeginBind ==
  /\ run = [op |-> "bind", at |-> "start"]
  /\ depth' = depth + 1 /\ run' = [run EXCEPT !.at = "night"]
  /\ UNCHANGED <<jvars, latch, queue, pending, mode>>

BeginUpdate ==
  /\ run = [op |-> "update", at |-> "start"]
  /\ run' = [run EXCEPT !.at = "night"]
  /\ UNCHANGED <<jvars, latch, queue, depth, pending, mode>>

(* gdk_android_display_set_night_mode. *)
SetNightMode(m) ==
  IF mode = m THEN run' = [run EXCEPT !.at = "end"] /\ UNCHANGED mode
              ELSE run' = [run EXCEPT !.at = "emit"] /\ mode' = m

Deferring_Never == FALSE
Deferring == mode # config /\ depth > 0

(* gdk_android_display_update_night_mode. *)
UpdateNightMode ==
  /\ run.at = "night"
  /\ IF Deferring THEN /\ pending' = config /\ run' = [run EXCEPT !.at = "end"]
                       /\ UNCHANGED mode
                  ELSE SetNightMode(config) /\ UNCHANGED pending
  /\ UNCHANGED <<jvars, latch, queue, depth>>

(* gdk_android_display_commit_pending_night_mode. *)
CommitPending_Nothing ==
  /\ run = [op |-> "commit", at |-> "start"]
  /\ pending' = Undefined /\ run' = [run EXCEPT !.at = "end"]
  /\ UNCHANGED <<jvars, latch, queue, depth, mode>>
CommitPending ==
  /\ run = [op |-> "commit", at |-> "start"]
  /\ pending' = Undefined
  /\ IF pending = Undefined THEN run' = [run EXCEPT !.at = "end"] /\ UNCHANGED mode
                            ELSE SetNightMode(pending)
  /\ UNCHANGED <<jvars, latch, queue, depth>>

(* gdk_android_display_end_bind; the runnable of blockForMain then opens    *)
(* the latch.                                                               *)
EndBind_Unbalanced ==
  /\ run = [op |-> "bind", at |-> "end"]
  /\ UNCHANGED depth /\ latch' = FALSE /\ run' = Idle
  /\ UNCHANGED <<jvars, queue, pending, mode>>
EndBind ==
  /\ run = [op |-> "bind", at |-> "end"]
  /\ depth' = IF depth > 0 THEN depth - 1 ELSE depth
  /\ latch' = FALSE /\ run' = Idle
  /\ UNCHANGED <<jvars, queue, pending, mode>>

EndOther ==
  /\ run.op \in {"update", "commit"} /\ run.at = "end"
  /\ run' = Idle
  /\ UNCHANGED <<jvars, latch, queue, depth, pending, mode>>

GtkStep == TakeRunnable \/ BeginBind \/ BeginUpdate \/ UpdateNightMode
           \/ CommitPending \/ EndBind \/ EndOther

MainStep == ServeNotify \/ \E a \in Activities : OnCreateReturns(a)

Next ==
  \/ GtkStep \/ MainStep
  \/ \E a \in Activities : OnCreate(a)
  \/ \E m \in Modes : ConfigChange(m)

Spec == Init /\ [][Next]_vars

(* The GTK thread runs when it can; nothing is assumed of the main thread.  *)
GtkFairSpec == Spec /\ WF_vars(GtkStep)

-----------------------------------------------------------------------------
(* The state is made of what the two threads hold. *)
TypeOK ==
  /\ config \in Modes /\ changes \in 0 .. MaxChanges
  /\ life \in [Activities -> {"new", "creating", "created"}]
  /\ main \in {"free", "latch"} /\ latch \in BOOLEAN
  /\ queue \in Seq(Ops)
  /\ run \in [op : Ops, at : Places] \cup {Idle}
  /\ depth \in 0 .. 1
  /\ pending \in Modes \cup {Undefined} /\ mode \in Modes \cup {Undefined}

(* No change of night mode is emitted inside a bind (the main thread is     *)
(* then behind the latch that only the bind's return opens), neither by the *)
(* bind itself nor by the commit an earlier onCreate posted, for any number *)
(* of activities.                                                           *)
Emitting == run.at = "emit"
NoEmitInBind == Emitting => depth = 0

(* A bind needs nothing of the main thread: once the main context is in it  *)
(* the latch opens.  This is what FASE 6B is for.                           *)
BindOpensLatch == (run.op = "bind") ~> ~latch

(* When nothing is under way the display has the mode of the system: no     *)
(* deferred value is lost and none overwrites a later one (lines 22, 31).   *)
Quiet == queue = <<>> /\ run = Idle /\ main = "free"
LastValueWins ==
  Quiet /\ (\E a \in Activities : life[a] = "created") => mode = config

(* The two threads do not wait for each other: no emission runs while the   *)
(* main thread is behind a latch (lines 24-26: the commit runs with the     *)
(* latch already open).                                                     *)
NoCircularWait == ~(Emitting /\ main = "latch" /\ latch)

(* So it is as long as the application has started one activity, however    *)
(* often the configuration changes: this is the deadlock of the phases      *)
(* before FASE 6B (lines 4-18).                                             *)
OnlyOne(a) == \A b \in Activities \ {a} : life[b] = "new"
FirstIsSafe == (\E a \in Activities : OnlyOne(a)) => NoCircularWait

(* The first onCreate returns, if the main thread runs when it can. *)
FirstCreateEnds == WF_vars(MainStep) =>
  \A a \in Activities : (life[a] = "creating" /\ OnlyOne(a)) ~> (life[a] = "created")

=============================================================================
