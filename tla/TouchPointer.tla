---------------------------- MODULE TouchPointer ----------------------------
(***************************************************************************)
(* patches/gtk4-touch-as-pointer.py: the C code it puts into GTK's Android *)
(* backend, which turns the primary finger into a mouse button and picks   *)
(* the popup a gesture belongs to.                                         *)
(*                                                                         *)
(* There is one toplevel.  A popup is a surface with a parent; present()   *)
(* sets its rectangle in the parent's space (popup_bounds) at once, and    *)
(* Java lays its view out there some time later (cfg).  Android sends the  *)
(* events of a finger to the view it came down on, in that view's          *)
(* coordinates.  Popups, views and fingers are not in this repository;     *)
(* they are modelled from what the patch reads of them.  Space has one     *)
(* dimension, and every scale is 1.                                        *)
(*                                                                         *)
(* Bounds: coordinates up to MaxX, rectangles in Rects.                    *)
(*                                                                         *)
(* A name with an underscore (OnCancel_Ignored) is a plausible slip in the *)
(* definition below it, which no action uses.                              *)
(***************************************************************************)
EXTENDS Integers, Sequences, SequencesExt

CONSTANTS Top, Pops, None, Fingers, Rects, MaxX, F13_SLOP

ASSUME SurfacesAssumption == Top \notin Pops /\ None \notin Pops \cup {Top}
ASSUME SpaceAssumption ==
  /\ MaxX \in Nat /\ F13_SLOP \in Nat /\ Fingers \subseteq Nat
  /\ Rects \subseteq [x : 0 .. MaxX, w : 1 .. MaxX]

Surfaces == Pops \cup {Top}
NoRect   == [x |-> 0, w |-> 0]
X        == 0 .. MaxX

VARIABLES
  parent, \* of each popup; None when it is not created
  stack,  \* the created popups, the newest first (g_list_prepend)
  bounds, \* popup_bounds
  java,   \* cfg of the view that is laid out
  touch,  \* the fingers of each view's stream of events
  pos,    \* where each finger is
  down, downX, target, \* f13_down, f13_down_x, f13_target
  out,    \* the event the last step emitted
  press   \* what GTK has seen of a press that is not released

popups  == <<parent, stack, bounds, java>>
fingers == <<touch, pos>>
gesture == <<down, downX, target>>
vars    == <<popups, fingers, gesture, out, press>>

Silence == [kind |-> "none", to |-> None, at |-> 0]

(* held: the surfaces that have had a press and no release; at, landed:     *)
(* where the last press was, for its surface and on the screen; steady: no  *)
(* other finger was or came down then, and no popup has changed; orphan: a  *)
(* view has closed with a finger in it.                                     *)
NoPress == [held |-> {}, at |-> 0, landed |-> 0, steady |-> FALSE, orphan |-> FALSE]

Init ==
  /\ parent = [p \in Pops |-> None] /\ stack = <<>>
  /\ bounds = [p \in Pops |-> NoRect] /\ java = bounds
  /\ touch = [s \in Surfaces |-> {}] /\ pos = [f \in Fingers |-> 0]
  /\ down = FALSE /\ downX = 0 /\ target = None
  /\ out = Silence /\ press = NoPress

Created(p) == parent[p] # None
-----------------------------------------------------------------------------
(* The C code. *)

(* gdk_android_surface_popup_offset: the sum of the rectangles of a popup   *)
(* and its ancestors.                                                       *)
Origin(rect) ==
  LET o[s \in Surfaces \cup {None}] ==
        IF s \in Pops THEN rect[s].x + o[parent[s]] ELSE 0
  IN  o
Offset(s) == Origin(bounds)[s]

(* gdk_android_surface_pick_child.  A popup's rectangle is popup_bounds,    *)
(* and the view's only when there is none; of the children of a node the    *)
(* newest that contains the point is entered, and its siblings are not      *)
(* looked at again.                                                         *)
Rect_FromJava(p) == java[p]
Rect(p) == IF bounds[p].w > 0 THEN bounds[p] ELSE java[p]

Inside(origin, p, x) ==
  /\ x >= origin + Rect(p).x
  /\ x < origin + Rect(p).x + Rect(p).w

MaxDepth == 8

Hits(n, x) == {k \in DOMAIN stack : parent[stack[k]] = n.node /\ Inside(n.at, stack[k], x)}
Enter(n, x) ==
  IF Hits(n, x) = {} THEN n
  ELSE LET p == stack[Min(Hits(n, x))] IN [node |-> p, at |-> n.at + Rect(p).x]

Path(x) ==
  LET path[d \in 0 .. MaxDepth + 1] ==
        IF d = 0 THEN [node |-> Top, at |-> 0] ELSE Enter(path[d - 1], x)
  IN  path
Pick(x) == Path(x)[MaxDepth + 1].node

(* An event's position in the toplevel's space. *)
JavaOrigin(v) == Origin(java)[v]
ToToplevel(v, x) == x - JavaOrigin(v) + Offset(v)

Emit(kind, to, x) == out' = [kind |-> kind, to |-> to, at |-> x - Offset(to)]
Ignored == out' = Silence /\ UNCHANGED <<gesture, press>>
Disturbed ==
  out' = Silence /\ press' = [press EXCEPT !.steady = FALSE] /\ UNCHANGED gesture

Alone == \A v \in Surfaces : touch[v] = {}

(* ACTION_DOWN; x is the finger's place on the screen. *)
OnDown(v, x) ==
  \/ down /\ Disturbed
  \/ /\ ~down
     /\ down' = TRUE /\ downX' = ToToplevel(v, x) /\ target' = Pick(downX')
     /\ Emit("press", target', downX')
     /\ press' = [press EXCEPT !.held = @ \cup {target'}, !.at = out'.at,
                               !.landed = x, !.steady = Alone, !.orphan = FALSE]

(* ACTION_MOVE. *)
OnMove_Repicks(v, x) ==
  \/ ~down /\ Ignored
  \/ down /\ Emit("motion", Pick(ToToplevel(v, x)), ToToplevel(v, x))
     /\ UNCHANGED <<gesture, press>>
OnMove(v, x) ==
  \/ ~down /\ Ignored
  \/ down /\ Emit("motion", target, ToToplevel(v, x)) /\ UNCHANGED <<gesture, press>>

(* ACTION_UP and ACTION_CANCEL. *)
IsTap_Never(x) == FALSE
IsTap(x) == (x - downX) * (x - downX) <= F13_SLOP * F13_SLOP

ReleaseX(x) == IF IsTap(x) THEN downX ELSE x

EndGesture_KeepsTarget == down' = FALSE /\ UNCHANGED <<downX, target>>
EndGesture == down' = FALSE /\ target' = None /\ UNCHANGED downX

OnUp(v, x) ==
  \/ ~down /\ Ignored
  \/ /\ down
     /\ Emit("release", target, ReleaseX(ToToplevel(v, x)))
     /\ press' = [NoPress EXCEPT !.held = press.held \ {target}]
     /\ EndGesture
-----------------------------------------------------------------------------
(* Fingers.  Index 0 of an event is the finger with the least identifier,   *)
(* and a new finger takes the least that is free.                           *)

Touching == UNION {touch[v] : v \in Surfaces}
Primary(v, at) == at[Min(touch[v])]

(* A finger comes down on one of the views that are laid out there.  The    *)
(* first finger of a view is its DOWN, another is a POINTER_DOWN.           *)
LaidOutAt(v, x) ==
  v \in Pops => x \in JavaOrigin(v) .. JavaOrigin(v) + java[v].w - 1

FingerDown(v, x) ==
  /\ Fingers \ Touching # {} /\ LaidOutAt(v, x)
  /\ LET f == Min(Fingers \ Touching) IN
       /\ touch' = [touch EXCEPT ![v] = @ \cup {f}]
       /\ pos' = [pos EXCEPT ![f] = x]
  /\ IF touch[v] = {} THEN OnDown(v, x) ELSE Disturbed
  /\ UNCHANGED popups

FingerMove(v, f, x) ==
  /\ f \in touch[v] /\ pos' = [pos EXCEPT ![f] = x]
  /\ OnMove(v, Primary(v, pos'))
  /\ UNCHANGED <<popups, touch>>

(* The last finger of a view is its UP, another is a POINTER_UP. *)
FingerUp(v, f) ==
  /\ f \in touch[v] /\ touch' = [touch EXCEPT ![v] = @ \ {f}]
  /\ IF touch[v] = {f} THEN OnUp(v, pos[f]) ELSE Ignored
  /\ UNCHANGED <<popups, pos>>

(* Android takes the stream away (a system gesture, a lost window). *)
OnCancel_Ignored(v) == Ignored
OnCancel(v) == OnUp(v, Primary(v, pos))

Cancel(v) ==
  /\ touch[v] # {} /\ touch' = [touch EXCEPT ![v] = {}]
  /\ OnCancel(v)
  /\ UNCHANGED <<popups, pos>>
-----------------------------------------------------------------------------
(* Popups. *)

Shown(p) == bounds[p] # NoRect \/ java[p] # NoRect

Create(p, q) ==
  /\ ~Created(p) /\ p # target /\ (q \in Pops => Created(q) /\ Shown(q))
  /\ parent' = [parent EXCEPT ![p] = q] /\ stack' = <<p>> \o stack
  /\ Disturbed /\ UNCHANGED <<pos, bounds, java, touch>>

(* present(), for the first time or at a new place. *)
Present(p, r) ==
  /\ Created(p) /\ bounds' = [bounds EXCEPT ![p] = r]
  /\ Disturbed /\ UNCHANGED <<pos, parent, stack, java, touch>>

(* Java's layout, of what was presented or (line 217) before it was. *)
Layout(p) ==
  /\ Created(p) /\ (parent[p] \in Pops => java[parent[p]] # NoRect)
  /\ \E r \in IF bounds[p] = NoRect THEN Rects ELSE {bounds[p]} :
       java' = [java EXCEPT ![p] = r]
  /\ Disturbed /\ UNCHANGED <<pos, parent, stack, bounds, touch>>

(* A popup without shown children closes: it is hidden, or destroyed.  If   *)
(* fingers are in its view, nothing more is heard of them.  That hiding     *)
(* clears popup_bounds is taken of GTK: pick_child does not look at visible *)
(* (lines 274-279), so a hidden popup that kept them would still be picked. *)
Close(p) ==
  /\ Shown(p) /\ \A q \in Pops : parent[q] = p => ~Shown(q)
  /\ bounds' = [bounds EXCEPT ![p] = NoRect] /\ java' = [java EXCEPT ![p] = NoRect]
  /\ \/ UNCHANGED <<parent, stack>>
     \/ /\ \A q \in Pops : parent[q] # p
        /\ parent' = [parent EXCEPT ![p] = None]
        /\ \E k \in DOMAIN stack : stack[k] = p /\ stack' = RemoveAt(stack, k)
  /\ touch' = [touch EXCEPT ![p] = {}]
  /\ out' = Silence /\ UNCHANGED <<gesture, pos>>
  /\ press' = [press EXCEPT !.steady = FALSE,
                            !.orphan = down /\ (@ \/ touch[p] # {})]

TouchNext ==
  \/ \E v \in Surfaces, x \in X : FingerDown(v, x)
  \/ \E v \in Surfaces, f \in Fingers, x \in X : FingerMove(v, f, x)
  \/ \E v \in Surfaces, f \in Fingers : FingerUp(v, f)
  \/ \E v \in Surfaces : Cancel(v)

Next ==
  \/ TouchNext
  \/ \E p \in Pops, q \in Surfaces : Create(p, q)
  \/ \E p \in Pops, r \in Rects : Present(p, r)
  \/ \E p \in Pops : Layout(p) \/ Close(p)

Spec == Init /\ [][Next]_vars
-----------------------------------------------------------------------------
(* The state is made of what the patch, Android and the popups hold. *)
TypeOK ==
  /\ parent \in [Pops -> Surfaces \cup {None}] /\ ToSet(stack) = {p \in Pops : Created(p)}
  /\ bounds \in [Pops -> Rects \cup {NoRect}] /\ java \in [Pops -> Rects \cup {NoRect}]
  /\ touch \in [Surfaces -> SUBSET Fingers] /\ pos \in [Fingers -> X]
  /\ down \in BOOLEAN /\ downX \in Int /\ (IF down THEN target \in Surfaces ELSE target = None)
  /\ out \in [kind : {"none", "press", "motion", "release"},
              to : Surfaces \cup {None}, at : Int]
  /\ press \in [held : SUBSET Surfaces, at : Int, landed : X,
                steady : BOOLEAN, orphan : BOOLEAN]

(* The target is sticky for the whole gesture (line 23): GTK sees a press   *)
(* only when none is held, and motion and release only on the surface that  *)
(* holds it, whatever popups open or close and however many fingers come.   *)
GestureIsSticky == [][
  /\ out'.kind = "press" => press.held = {}
  /\ out'.kind \in {"motion", "release"} => press.held = {out'.to}]_vars

(* No widget stays armed (line 17): when no view has a finger any more,     *)
(* nothing is held, unless the fingers went with a view that closed.        *)
NothingStaysArmed ==
  press.held # {} /\ ~press.orphan => \E v \in Surfaces : touch[v] # {}

(* Where a popup is drawn once Java has laid everything out. *)
Place(s) == Origin(bounds)[s]
Covers(p, x) == bounds[p] # NoRect /\ x \in Place(p) .. Place(p) + bounds[p].w - 1

(* The popups at x all of whose ancestors are there, too. *)
Stacked(x) ==
  LET in[s \in Surfaces \cup {None}] ==
        IF s \in Pops THEN Covers(s, x) /\ in[parent[s]] ELSE s = Top
  IN  {p \in Pops : in[p]}

Newer(p, q) == \E k, l \in DOMAIN stack : k < l /\ stack[k] = p /\ stack[l] = q

(* Popups within popups beyond what pick_child goes into. *)
TooDeep ==
  \E c \in [0 .. MaxDepth + 1 -> Pops] : \A d \in 0 .. MaxDepth : parent[c[d + 1]] = c[d]

(* The press of a finger on a view that is where GTK thinks it is, while no *)
(* popup is known to Java alone.                                            *)
Presses ==
  /\ out'.kind = "press" /\ ~TooDeep
  /\ \A p \in Pops : java[p] # NoRect => bounds[p] # NoRect
  /\ \A v \in Surfaces : touch'[v] # touch[v] => JavaOrigin(v) = Place(v)

(* A press goes to the topmost of the popups stacked under the finger, at   *)
(* the finger's place in it, also when Java has not yet laid them out and   *)
(* the event came to the view behind: the race that closed menus (lines     *)
(* 214-216).                                                                *)
PressReachesPopup == [][Presses =>
  LET x == press'.landed  t == target' IN
    /\ t = Top \/ t \in Stacked(x)
    /\ \A p \in Stacked(x) :
         parent[p] # t /\ (t # Top /\ parent[p] = parent[t] => ~Newer(p, t))
    /\ out'.at = x - Place(t)]_vars

(* What GTK sees is a mouse: a finger that is lifted at most the slop from  *)
(* where it landed (<= in line 172) clicks in one place, and one that goes  *)
(* further drags by as much as it has moved.  Lines 25-26 draw the line     *)
(* elsewhere: see DragFromSlop.                                             *)
Near(d) == d \in -F13_SLOP .. F13_SLOP

MouseFollowsFinger == [][press.steady =>
  \A v \in Surfaces : \A f \in touch[v] :
    LET moved == pos'[f] - press.landed IN
      /\ out'.kind = "motion"  => out'.at - press.at = moved
      /\ out'.kind = "release" => out'.at - press.at = IF Near(moved) THEN 0 ELSE moved
  ]_vars
-----------------------------------------------------------------------------
(* What the source says and the patch does not do. *)

(* Lines 210-219: a visible popup whose rectangle contains the point, and   *)
(* NULL when there is no popup under the finger.                            *)
PopupUnderFinger == [][
  Presses /\ (\E p \in Pops : java[p] = bounds[p] /\ Covers(p, press'.landed))
    => target' # Top]_vars

(* Lines 25-26: on UP the release is where the finger is if it has moved by *)
(* the slop or more (jitter >= slop is a drag).                             *)
DragFromSlop == [][press.steady /\ out'.kind = "release" =>
  \A v \in Surfaces : \A f \in touch[v] :
    LET moved == pos'[f] - press.landed IN
      moved * moved >= F13_SLOP * F13_SLOP => out'.at - press.at = moved]_vars

=============================================================================
