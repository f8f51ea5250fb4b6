-------------------------- MODULE NightModeProofs --------------------------
(* Theorems about NightMode, for any number of activities and of changes.   *)
EXTENDS NightMode, SequenceTheorems, TLAPS

(* A bind counts in android_bind_depth from its begin to its end, and emits *)
(* nothing: it holds the depth up while it asks for the mode.               *)
BindInv ==
  /\ depth = IF run.op = "bind" /\ run.at # "start" THEN 1 ELSE 0
  /\ run.op = "bind" => run.at # "emit"

Inv == TypeOK /\ BindInv

LEMMA InitInv == Init => Inv
  <1> SUFFICES ASSUME Init PROVE Inv
    OBVIOUS
  <1>1. changes \in 0 .. MaxChanges /\ depth \in 0 .. 1
    BY ModesAssumption DEF Init
  <1>2. latch \in BOOLEAN
    BY DEF Init
  <1>4. queue \in Seq(Ops)
    BY DEF Init
  <1>3. BindInv
    BY DEF Init, BindInv, Idle
  <1> QED
    BY <1>1, <1>2, <1>3, <1>4 DEF Init, Inv, TypeOK

(* The runnable the main context is in, taken apart. *)
LEMMA RunType ==
  ASSUME TypeOK
  PROVE  /\ run.op \in Ops \cup {"none"} /\ run.at \in Places
         /\ run = [op |-> run.op, at |-> run.at]
         /\ \A p \in Places : [run EXCEPT !.at = p] = [op |-> run.op, at |-> p]
         /\ run.op = "none" => run = Idle
  BY DEF TypeOK, Ops, Places, Idle

LEMMA NextTypeOK == Inv /\ [Next]_vars => TypeOK'
  <1> SUFFICES ASSUME Inv, [Next]_vars PROVE TypeOK'
    OBVIOUS
  <1> USE DEF Inv, jvars
  <1>0. TypeOK
    OBVIOUS
  <1>1. ASSUME NEW a \in Activities, OnCreate(a) PROVE TypeOK'
    BY <1>1 DEF OnCreate, Post, TypeOK, Ops
  <1>2. ASSUME NEW a \in Activities, OnCreateReturns(a) PROVE TypeOK'
    BY <1>2 DEF OnCreateReturns, Post, TypeOK, Ops
  <1>3. ASSUME NEW m \in Modes, ConfigChange(m) PROVE TypeOK'
    BY <1>3, ModesAssumption DEF ConfigChange, Post, TypeOK, Ops
  <1>4. CASE ServeNotify
    BY <1>4, RunType DEF ServeNotify, TypeOK, Places, Idle
  <1>5. CASE TakeRunnable
    BY <1>5 DEF TakeRunnable, TypeOK, Places
  <1>6. CASE BeginBind
    <2>1. depth' \in 0 .. 1
      BY <1>6 DEF BeginBind, BindInv
    <2>2. run' \in [op : Ops, at : Places]
      BY <1>6, RunType DEF BeginBind, Ops, Places
    <2> QED
      BY <1>6, <2>1, <2>2 DEF BeginBind, TypeOK
  <1>7. CASE BeginUpdate
    BY <1>7, RunType DEF BeginUpdate, TypeOK, Ops, Places
  <1>8. CASE UpdateNightMode
    BY <1>8, RunType DEF UpdateNightMode, SetNightMode, TypeOK, Places, Idle
  <1>9. CASE CommitPending
    BY <1>9, RunType DEF CommitPending, SetNightMode, TypeOK, Ops, Places
  <1>10. CASE EndBind
    <2>1. depth' \in 0 .. 1
      BY <1>10 DEF EndBind, TypeOK
    <2>2. latch' \in BOOLEAN
      BY <1>10 DEF EndBind
    <2> QED
      BY <1>10, <2>1, <2>2 DEF EndBind, TypeOK
  <1>11. CASE EndOther
    BY <1>11 DEF EndOther, TypeOK
  <1>12. CASE UNCHANGED vars
    BY <1>12 DEF vars, TypeOK
  <1> QED
    BY <1>1, <1>2, <1>3, <1>4, <1>5, <1>6, <1>7, <1>8, <1>9, <1>10, <1>11, <1>12
       DEF Next, GtkStep, MainStep

LEMMA NextBindInv == Inv /\ [Next]_vars => BindInv'
  <1> SUFFICES ASSUME Inv, [Next]_vars PROVE BindInv'
    OBVIOUS
  <1> USE DEF Inv, BindInv, jvars
  <1>0. TypeOK
    OBVIOUS
  <1>1. CASE \/ \E a \in Activities : OnCreate(a) \/ OnCreateReturns(a)
             \/ \E m \in Modes : ConfigChange(m)
             \/ UNCHANGED vars
    BY <1>1 DEF OnCreate, OnCreateReturns, ConfigChange, vars
  <1>2. CASE ServeNotify
    BY <1>2, RunType DEF ServeNotify, Places
  <1>3. CASE TakeRunnable
    BY <1>3 DEF TakeRunnable, Idle
  <1>4. CASE BeginBind \/ BeginUpdate
    BY <1>4, RunType DEF BeginBind, BeginUpdate, Places
  <1>5. CASE UpdateNightMode
    BY <1>5, RunType DEF UpdateNightMode, Deferring, SetNightMode, Places
  <1>6. CASE CommitPending
    BY <1>6, RunType DEF CommitPending, SetNightMode, Places
  <1>7. CASE EndBind \/ EndOther
    BY <1>7 DEF EndBind, EndOther, Idle
  <1> QED
    BY <1>1, <1>2, <1>3, <1>4, <1>5, <1>6, <1>7 DEF Next, GtkStep, MainStep

LEMMA Invariance == Spec => []Inv
  <1>1. Inv /\ [Next]_vars => Inv'
    BY NextTypeOK, NextBindInv DEF Inv
  <1> QED
    BY InitInv, <1>1, PTL DEF Spec

(* The patched display keeps its state made of what the two threads hold;   *)
(* android_bind_depth is 0 or 1.                                            *)
THEOREM Typing == Spec => []TypeOK
  BY Invariance, PTL DEF Inv

(* No bind emits a change of night mode, for any number of activities.      *)
THEOREM BindsAreSilent == Spec => []NoEmitInBind
  <1>1. Inv => NoEmitInBind
    BY DEF Inv, BindInv, NoEmitInBind, Emitting
  <1> QED
    BY Invariance, <1>1, PTL
-----------------------------------------------------------------------------
(* While the application has started one activity: until its onCreate has   *)
(* returned the main context has nothing but its bind to run.               *)
OneInv == \A a \in Activities : OnlyOne(a) =>
  /\ life[a] = "new" => queue = <<>> /\ run = Idle /\ main = "free"
  /\ main = "latch" /\ latch =>
       (queue = <<"bind">> /\ run = Idle) \/ (queue = <<>> /\ run.op = "bind")

LEMMA OneInvStep == Inv /\ OneInv /\ [Next]_vars => OneInv'
  <1> SUFFICES ASSUME Inv, OneInv, [Next]_vars PROVE OneInv'
    OBVIOUS
  <1> USE DEF Inv, OneInv, OnlyOne, jvars
  <1>0. TypeOK
    OBVIOUS
  <1>1. ASSUME NEW a \in Activities, OnCreate(a) PROVE OneInv'
    <2> SUFFICES ASSUME NEW b \in Activities, OnlyOne(b)'
                 PROVE  life'[b] # "new" /\ queue' = <<"bind">> /\ UNCHANGED run /\ run = Idle
      OBVIOUS
    <2>1. a = b /\ OnlyOne(b) /\ life'[b] # "new"
      BY <1>1 DEF OnCreate, TypeOK
    <2>2. queue = <<>> /\ run = Idle /\ UNCHANGED run
      BY <1>1, <2>1 DEF OnCreate
    <2>3. queue' = Append(queue, "bind")
      BY <1>1 DEF OnCreate, Post
    <2>4. queue' = <<"bind">>
      BY <2>2, <2>3
    <2> QED
      BY <2>1, <2>2, <2>4
  <1>2. ASSUME NEW a \in Activities, OnCreateReturns(a) PROVE OneInv'
    <2>1. main' = "free" /\ \A b \in Activities : OnlyOne(b)' => life'[b] # "new"
      BY <1>2 DEF OnCreateReturns, TypeOK
    <2> QED
      BY <2>1
  <1>3. ASSUME NEW m \in Modes, ConfigChange(m) PROVE OneInv'
    <2>1. main = "free" /\ UNCHANGED main /\ \A b \in Activities : OnlyOne(b)' => life'[b] # "new"
      BY <1>3 DEF ConfigChange, TypeOK
    <2> QED
      BY <2>1
  <1>4. CASE ServeNotify
    BY <1>4, RunType DEF ServeNotify, Places, Idle
  <1>5. CASE TakeRunnable
    <2>1. run = Idle /\ queue # <<>> /\ UNCHANGED <<life, main, latch>>
      BY <1>5 DEF TakeRunnable
    <2>2. queue = <<"bind">> => queue' = <<>> /\ run'.op = "bind"
      BY <1>5 DEF TakeRunnable
    <2> SUFFICES ASSUME NEW b \in Activities, OnlyOne(b)
                 PROVE  /\ life[b] # "new"
                        /\ main = "latch" /\ latch => queue = <<"bind">>
      BY <2>1, <2>2
    <2> QED
      BY <2>1 DEF Idle
  <1>6. CASE BeginBind \/ BeginUpdate \/ UpdateNightMode \/ CommitPending
    BY <1>6, RunType DEF BeginBind, BeginUpdate, UpdateNightMode, CommitPending,
                         SetNightMode, Places, Idle
  <1>7. CASE EndBind \/ EndOther
    BY <1>7 DEF EndBind, EndOther, Idle
  <1>8. CASE UNCHANGED vars
    BY <1>8 DEF vars
  <1> QED
    BY <1>1, <1>2, <1>3, <1>4, <1>5, <1>6, <1>7, <1>8 DEF Next, GtkStep, MainStep

(* As long as one activity has been started the two threads never wait for  *)
(* each other, however often the configuration changes.                     *)
THEOREM FirstActivityIsSafe == Spec => []FirstIsSafe
  <1>1. Init => OneInv
    BY DEF Init, OneInv
  <1>2. Inv /\ OneInv => FirstIsSafe
    BY DEF Inv, BindInv, OneInv, FirstIsSafe, NoCircularWait, Emitting, Idle
  <1> QED
    BY Invariance, OneInvStep, <1>1, <1>2, PTL DEF Spec
-----------------------------------------------------------------------------
(* The main thread posts nothing while it waits, so a bind is the last of   *)
(* the queue and its commit finds the queue empty: no update can come       *)
(* between a deferred value and the commit of it.                           *)
Order ==
  /\ \A k \in 1 .. Len(queue) : queue[k] = "bind" =>
       k = Len(queue) /\ main = "latch" /\ latch /\ run.op # "bind"
  /\ run.op = "bind" => main = "latch" /\ latch /\ queue = <<>>
  /\ main = "latch" /\ latch /\ run.op # "bind" =>
       queue # <<>> /\ queue[Len(queue)] = "bind"
  /\ main = "latch" /\ ~latch => queue = <<>> /\ run = Idle

CommitIsNext ==
  pending # Undefined =>
    \/ run = [op |-> "commit", at |-> "start"]
    \/ run = Idle /\ queue # <<>> /\ queue[1] = "commit"
    \/ run = Idle /\ main = "latch" /\ ~latch
    \/ run = [op |-> "bind", at |-> "end"]

(* A value that is not the system's has something coming that corrects it.  *)
Coming(op) == \/ \E k \in 1 .. Len(queue) : queue[k] = op
              \/ run.op = op /\ run.at \in {"start", "night"}

Corrected ==
  \/ pending = config
  \/ pending = Undefined /\ mode = config
  \/ Coming("update") \/ Coming("bind")
  \/ \A a \in Activities : life[a] = "new"

(* Adding at the end of a queue, and taking its head. *)
LEMMA AppendFacts ==
  ASSUME TypeOK, NEW op \in Ops, NEW q, q = Append(queue, op)
  PROVE  /\ Len(queue) \in Nat /\ (queue = <<>> <=> Len(queue) = 0)
         /\ Len(q) = Len(queue) + 1 /\ q[Len(q)] = op /\ q # <<>>
         /\ \A k \in 1 .. Len(queue) : q[k] = queue[k]
  <1>1. queue \in Seq(Ops)
    BY DEF TypeOK
  <1>2. Len(queue) \in Nat /\ (queue = <<>> <=> Len(queue) = 0)
    BY <1>1, EmptySeq, LenProperties
  <1> QED
    BY <1>1, <1>2, AppendProperties

LEMMA TailFacts ==
  ASSUME TypeOK, queue # <<>>, NEW q, q = Tail(queue)
  PROVE  /\ Len(queue) \in Nat /\ Len(q) = Len(queue) - 1
         /\ Head(queue) = queue[1] /\ queue[1] \in Ops
         /\ q = <<>> <=> Len(queue) = 1
         /\ \A k \in 1 .. Len(q) : q[k] = queue[k + 1]
  <1>1. queue \in Seq(Ops)
    BY DEF TypeOK
  <1>2. Len(queue) \in Nat /\ Len(queue) # 0
    BY <1>1, EmptySeq, LenProperties
  <1>3. q \in Seq(Ops) /\ Len(q) = Len(queue) - 1 /\ Head(queue) \in Ops
    BY <1>1, HeadTailProperties
  <1>4. \A k \in 1 .. Len(q) : q[k] = queue[k + 1]
    BY <1>1, HeadTailProperties
  <1>5. Head(queue) = queue[1]
    BY <1>1
  <1>6. q = <<>> <=> Len(q) = 0
    BY <1>3, EmptySeq
  <1> QED
    BY <1>2, <1>3, <1>4, <1>5, <1>6

LEMMA OrderStep == Inv /\ Order /\ [Next]_vars => Order'
  <1> SUFFICES ASSUME Inv, Order, [Next]_vars PROVE Order'
    OBVIOUS
  <1> USE DEF Inv, Order, jvars
  <1>0. TypeOK
    OBVIOUS
  <1>1. ASSUME NEW a \in Activities, OnCreate(a) PROVE Order'
    BY <1>1, AppendFacts DEF OnCreate, Post, Ops
  <1>2. ASSUME NEW a \in Activities, OnCreateReturns(a) PROVE Order'
    BY <1>2, AppendFacts DEF OnCreateReturns, Post, Ops, Idle
  <1>3. ASSUME NEW m \in Modes, ConfigChange(m) PROVE Order'
    BY <1>3, AppendFacts DEF ConfigChange, Post, Ops
  <1>4. CASE ServeNotify
    BY <1>4, RunType DEF ServeNotify, Places, Idle
  <1>5. CASE TakeRunnable
    <2>1. /\ run = Idle /\ queue # <<>> /\ UNCHANGED <<main, latch>>
          /\ run'.op = queue[1] /\ queue[1] \in Ops
          /\ Len(queue) \in Nat /\ Len(queue') = Len(queue) - 1
          /\ queue' = <<>> <=> Len(queue) = 1
          /\ \A k \in 1 .. Len(queue') : queue'[k] = queue[k + 1]
      BY <1>5, TailFacts DEF TakeRunnable
    <2>2. main = "latch" => latch /\ queue[Len(queue)] = "bind"
      BY <2>1 DEF Idle, TypeOK
    <2>3. 1 \in 1 .. Len(queue)
      BY <2>1, <1>0, TailFacts
    <2>4. run'.op = "bind" => main = "latch" /\ latch /\ queue' = <<>>
      BY <2>1, <2>3
    <2>5. \A k \in 1 .. Len(queue') : k + 1 \in 1 .. Len(queue)
      BY <2>1
    <2>6. \A k \in 1 .. Len(queue') : queue'[k] = "bind" =>
            k = Len(queue') /\ main = "latch" /\ latch /\ run'.op # "bind"
      BY <2>1, <2>3, <2>5
    <2>7. main = "latch" /\ run'.op # "bind" =>
            queue' # <<>> /\ queue'[Len(queue')] = "bind"
      BY <2>1, <2>2, <2>3
    <2> QED
      BY <2>1, <2>2, <2>4, <2>6, <2>7
  <1>6. CASE BeginBind \/ BeginUpdate \/ UpdateNightMode \/ CommitPending
    BY <1>6, RunType DEF BeginBind, BeginUpdate, UpdateNightMode, CommitPending,
                         SetNightMode, Places, Idle
  <1>7. CASE EndBind \/ EndOther
    BY <1>7 DEF EndBind, EndOther, Idle
  <1>8. CASE UNCHANGED vars
    BY <1>8 DEF vars
  <1> QED
    BY <1>1, <1>2, <1>3, <1>4, <1>5, <1>6, <1>7, <1>8 DEF Next, GtkStep, MainStep

LEMMA CommitIsNextStep == Inv /\ Order /\ CommitIsNext /\ [Next]_vars => CommitIsNext'
  <1> SUFFICES ASSUME Inv, Order, CommitIsNext, [Next]_vars PROVE CommitIsNext'
    OBVIOUS
  <1> USE DEF Inv, CommitIsNext, jvars
  <1>0. TypeOK
    OBVIOUS
  <1>1. ASSUME NEW a \in Activities, OnCreate(a) PROVE CommitIsNext'
    BY <1>1, AppendFacts DEF OnCreate, Post, Ops, Order
  <1>2. ASSUME NEW a \in Activities, OnCreateReturns(a) PROVE CommitIsNext'
    BY <1>2, AppendFacts DEF OnCreateReturns, Post, Ops, Order
  <1>3. ASSUME NEW m \in Modes, ConfigChange(m) PROVE CommitIsNext'
    BY <1>3, AppendFacts DEF ConfigChange, Post, Ops, Order
  <1>4. CASE ServeNotify
    BY <1>4 DEF ServeNotify, Idle
  <1>5. CASE TakeRunnable
    BY <1>5, TailFacts DEF TakeRunnable, Order, Idle
  <1>6. CASE BeginBind \/ BeginUpdate
    BY <1>6 DEF BeginBind, BeginUpdate, Idle
  <1>7. CASE UpdateNightMode
    BY <1>7, RunType DEF UpdateNightMode, Deferring, BindInv, Places, Idle, Ops
  <1>8. CASE CommitPending
    BY <1>8 DEF CommitPending
  <1>9. CASE EndBind \/ EndOther
    BY <1>9 DEF EndBind, EndOther, Order
  <1>10. CASE UNCHANGED vars
    BY <1>10 DEF vars
  <1> QED
    BY <1>1, <1>2, <1>3, <1>4, <1>5, <1>6, <1>7, <1>8, <1>9, <1>10
       DEF Next, GtkStep, MainStep

LEMMA CorrectedStep ==
  Inv /\ Order /\ CommitIsNext /\ Corrected /\ [Next]_vars => Corrected'
  <1> SUFFICES ASSUME Inv, Order, CommitIsNext, Corrected, [Next]_vars PROVE Corrected'
    OBVIOUS
  <1> USE DEF Inv, Corrected, Coming, jvars
  <1>0. TypeOK
    OBVIOUS
  <1>1. ASSUME NEW a \in Activities, OnCreate(a) PROVE Corrected'
    BY <1>1, AppendFacts DEF OnCreate, Post, Ops
  <1>2. ASSUME NEW a \in Activities, OnCreateReturns(a) PROVE Corrected'
    BY <1>2, AppendFacts DEF OnCreateReturns, Post, Ops
  <1>3. ASSUME NEW m \in Modes, ConfigChange(m) PROVE Corrected'
    BY <1>3, AppendFacts DEF ConfigChange, Post, Ops
  <1>4. CASE ServeNotify
    BY <1>4, RunType DEF ServeNotify, Places
  <1>5. CASE TakeRunnable
    <2>1. /\ run.op = "none" /\ run'.op = queue[1] /\ run'.at = "start"
          /\ UNCHANGED <<config, pending, mode, life>>
          /\ Len(queue) \in Nat /\ Len(queue') = Len(queue) - 1
          /\ \A k \in 1 .. Len(queue') : queue'[k] = queue[k + 1]
      BY <1>5, TailFacts DEF TakeRunnable, Idle
    <2>2. ASSUME NEW op \in {"update", "bind"}, Coming(op) PROVE Coming(op)'
      <3>1. PICK k \in 1 .. Len(queue) : queue[k] = op
        BY <2>1, <2>2
      <3>2. CASE k = 1
        BY <2>1, <3>1, <3>2
      <3>3. CASE k # 1
        <4>1. k - 1 \in 1 .. Len(queue') /\ queue'[k - 1] = queue[k]
          BY <2>1, <3>1, <3>3
        <4> QED
          BY <3>1, <4>1
      <3> QED
        BY <3>2, <3>3
    <2> QED
      BY <2>1, <2>2
  <1>6. CASE BeginBind \/ BeginUpdate
    BY <1>6, RunType DEF BeginBind, BeginUpdate, Places
  <1>7. CASE UpdateNightMode
    BY <1>7, RunType DEF UpdateNightMode, SetNightMode, CommitIsNext, Idle
  <1>8. CASE CommitPending
    BY <1>8, RunType, ModesAssumption DEF CommitPending, SetNightMode, TypeOK
  <1>9. CASE EndBind \/ EndOther
    BY <1>9 DEF EndBind, EndOther
  <1>10. CASE UNCHANGED vars
    BY <1>10 DEF vars
  <1> QED
    BY <1>1, <1>2, <1>3, <1>4, <1>5, <1>6, <1>7, <1>8, <1>9, <1>10
       DEF Next, GtkStep, MainStep

(* Whenever nothing is under way the display has the system's mode, for any *)
(* number of activities, modes and changes.                                 *)
THEOREM NoValueIsLost == Spec => []LastValueWins
  <1>1. Init => Order /\ CommitIsNext /\ Corrected
    BY DEF Init, Order, CommitIsNext, Corrected, Idle
  <1>2. Inv /\ Order /\ CommitIsNext /\ Corrected => LastValueWins
    BY ModesAssumption DEF Inv, TypeOK, CommitIsNext, Corrected, Coming, LastValueWins,
                           Quiet, Idle
  <1> QED
    BY Invariance, OrderStep, CommitIsNextStep, CorrectedStep, <1>1, <1>2, PTL DEF Spec

=============================================================================
