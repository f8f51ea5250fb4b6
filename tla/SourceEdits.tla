---------------------------- MODULE SourceEdits ----------------------------
(***************************************************************************)
(* What build.sh and the scripts of patches/ do to the sources of five     *)
(* libraries between extract and configure: sed commands, which change     *)
(* nothing and say nothing when their text is not there, Python scripts    *)
(* that count the text first and end the launch when it is not there       *)
(* exactly once, and grep commands that look at the result.  A launch may  *)
(* be killed or fail at any of them, even while a file is being written,   *)
(* and the next one may find another version of the sources.               *)
(*                                                                         *)
(* BuildSh has all of this inside its steps Build and StepFails.           *)
(*                                                                         *)
(* Bounds: one place at a time that is not as expected (a step looks at    *)
(* its own places only), MaxFaults faults.                                 *)
(***************************************************************************)
EXTENDS Naturals, Sequences, SequencesExt

CONSTANT MaxFaults

ASSUME EditsAssumption == MaxFaults \in Nat

(* A step looks at places of one file, or of several when none is written. *)
Sed(place)   == [do |-> "sed",   at |-> {place}]  \* edit wherever it matches
Once(place)  == [do |-> "once",  at |-> {place}]  \* the old text, once
Absent(place) == [do |-> "absent", at |-> {place}] \* no such text in the file
Still(place) == [do |-> "still", at |-> {place}]  \* grep -q of upstream's own
Need(places) == [do |-> "need",  at |-> places]   \* grep -q of the new text
Gone(places) == [do |-> "gone",  at |-> places]   \* ! grep -q of the old one
Keep(place) == [do |-> "keep", at |-> {place}]    \* still there, once
Patch(places) == [do |-> "patch", at |-> places]  \* count them all, then write

NightFile  == {"night_header", "night_tail"}
TouchBlock == {"touch_handler", "touch_helpers", "touch_include"}

GlibEdits == <<Sed("user_dirs"), Need({"user_dirs"})>>
PixbufEdits == <<Sed("loaders_deps")>>
GtkEdits ==
  <<Sed("hb_include"), Sed("hb_call"), Need({"hb_include"}), Gone({"hb_call"}),
    Patch(NightFile), Patch({"bind_native"}), Patch({"prototypes"}),
    Patch({"registration"}), Need({"night_tail", "bind_native", "registration"}),
    Patch(TouchBlock), Need(TouchBlock), Still("finger"), Gone({"touch_handler"}),
    Absent("slop_global"), Patch({"keymap"}), Need({"keymap"}), Gone({"keymap"})>>
GlibmmEdits ==
  <<Once("guess_sig"), Patch({"guess_sig", "guess_body"}),
    Need({"guess_sig"}), Gone({"guess_body"})>>
GtkmmEdits ==
  <<Once("icon_class"), Once("icon_include"), Absent("icon_include"),
    Sed("icon_class"), Sed("icon_include"), Gone({"icon_class"}),
    Absent("loose_include"), Need({"icon_include"}), Keep("icon_instance")>>

Edits == [glib |-> GlibEdits, pixbuf |-> PixbufEdits, gtk4 |-> GtkEdits,
          glibmm |-> GlibmmEdits, gtkmm |-> GtkmmEdits]

Libs == DOMAIN Edits

PlacesOf(l) == UNION {step.at : step \in ToSet(Edits[l])}
Places == UNION {PlacesOf(l) : l \in Libs}
DoneTo(l, dos) == UNION {step.at : step \in {s \in ToSet(Edits[l]) : s.do \in dos}}

(* A place of the sources as upstream has it: the old text, once or twice,  *)
(* the old thing in other words, the same with the new text elsewhere in    *)
(* the file, or what the edit is for already done.                          *)
Odd      == {"twice", "changed", "quoted", "fixed"}
Upstream == {"old"} \cup Odd
(* And as a launch may leave it: edited, edited twice, in a file that was   *)
(* only half written or not in the tarball.                                 *)
Forms    == Upstream \cup {"new", "dup", "torn", "missing"}

VARIABLES
  upstream, \* the sources of the pinned versions
  lib,      \* the library the launch is at
  text,     \* its places in $WORK/src
  at,       \* the step of Edits[lib]
  pc, faults

vars == <<upstream, lib, text, at, pc, faults>>

Expected == [p \in Places |-> "old"]

Stopped == {"idle", "compiled", "refused", "failed"}

Init ==
  /\ upstream = Expected
  /\ lib \in Libs /\ text = [p \in PlacesOf(lib) |-> "missing"]
  /\ at = 1 /\ pc = "idle" /\ faults = MaxFaults

Fault == faults > 0 /\ faults' = faults - 1

(* A pin of another version of the library whose sources the last launch    *)
(* left, with a place that is not as the edits expect; over another one     *)
(* nothing is left.                                                         *)
NewPin ==
  /\ pc \in Stopped
  /\ \E p \in PlacesOf(lib), form \in Upstream : upstream' = [Expected EXCEPT ![p] = form]
  /\ pc' = "idle" /\ UNCHANGED <<lib, text, at, faults>>

Launch ==
  /\ pc \in Stopped /\ lib' \in Libs
  /\ text' = IF lib' = lib THEN text ELSE [p \in PlacesOf(lib') |-> "missing"]
  /\ pc' = "extract" /\ UNCHANGED <<upstream, at, faults>>

Unpacked(gap) == [p \in PlacesOf(lib) |-> IF p \in gap THEN "missing" ELSE upstream[p]]

(* extract starts from an empty folder; a tar that stops goes unnoticed.    *)
Extract_IfAbsent ==
  /\ pc = "extract"
  /\ text' = [p \in PlacesOf(lib) |-> IF text[p] = "missing" THEN upstream[p] ELSE text[p]]
  /\ at' = 1 /\ pc' = "edit" /\ UNCHANGED <<upstream, lib, faults>>
Extract ==
  /\ pc = "extract"
  /\ \/ text' = Unpacked({}) /\ UNCHANGED faults
     \/ Fault /\ \E p \in PlacesOf(lib) : text' = Unpacked({p})
  /\ at' = 1 /\ pc' = "edit" /\ UNCHANGED <<upstream, lib>>

Editing == pc = "edit" /\ at <= Len(Edits[lib])
Step == Edits[lib][at]

Edited(f) == CASE f = "old"   -> "new"
               [] f = "twice" -> "dup"
               [] OTHER       -> f

(* What a step asks of a place, if it asks. *)
Matches_AtLeastOnce(do, f) ==
  CASE do = "patch" -> f \in {"old", "twice", "changed"}
    [] do = "once"  -> f = "old"
    [] OTHER        -> TRUE
Matches(do, f) ==
  CASE do \in {"patch", "once"} -> f = "old"
    [] do = "keep" -> f \in {"old", "quoted"}
    [] do = "still" -> f \in {"old", "twice", "quoted"}
    [] do = "absent" -> f \in {"old", "twice", "changed"}
    [] do = "need"   -> f \in {"new", "dup", "quoted", "fixed"}
    [] do = "gone"   -> f \in {"new", "dup", "fixed"}
    [] do = "sed"    -> f # "missing"

Passes == \A p \in Step.at : Matches(Step.do, text[p])

GoOn_SkipsGate == at' = at + 2 /\ pc' = "edit"
GoOn == at' = at + 1 /\ pc' = "edit"

Apply ==
  /\ Editing /\ Passes
  /\ text' = IF Step.do \in {"sed", "patch"}
             THEN [p \in PlacesOf(lib) |-> IF p \in Step.at THEN Edited(text[p]) ELSE text[p]]
             ELSE text
  /\ GoOn /\ UNCHANGED <<upstream, lib, faults>>

(* The launch ends with the error message of the step. *)
Refuse ==
  /\ Editing /\ ~Passes /\ pc' = "refused"
  /\ UNCHANGED <<upstream, lib, text, at, faults>>

Compile ==
  /\ pc = "edit" /\ at > Len(Edits[lib]) /\ pc' = "compiled"
  /\ UNCHANGED <<upstream, lib, text, at, faults>>

(* A kill, or an error of the command; a script that was writing a file     *)
(* leaves half of it.                                                       *)
Stop ==
  /\ pc \in {"extract", "edit"} /\ Fault /\ pc' = "failed"
  /\ \/ UNCHANGED text
     \/ /\ Editing /\ Passes /\ Step.do = "patch"
        /\ text' = [p \in PlacesOf(lib) |-> IF p \in Step.at THEN "torn" ELSE text[p]]
  /\ UNCHANGED <<upstream, lib, at>>

Advance == Extract \/ Apply \/ Refuse \/ Compile

Next == NewPin \/ Launch \/ Advance \/ Stop

Spec == Init /\ [][Next]_vars

(* The kernel runs the script; nobody is obliged to launch it again. *)
FairSpec == Spec /\ WF_vars(Advance /\ faults' = faults)
-----------------------------------------------------------------------------
(* The state is made of what the sources and the script can be. *)
TypeOK ==
  /\ upstream \in [Places -> Upstream] /\ lib \in Libs
  /\ text \in [PlacesOf(lib) -> Forms]
  /\ at \in 1 .. Len(GtkEdits) + 1 /\ (pc = "edit" => at <= Len(Edits[lib]) + 1)
  /\ pc \in {"extract", "edit"} \cup Stopped /\ faults \in 0 .. MaxFaults

(* Whatever upstream writes and whatever earlier launches left, what is     *)
(* compiled has the audited edit at every place that is counted first, and  *)
(* at no place that is looked at afterwards the old text: gtk4 with half of *)
(* the scripts' files edited is never built.  A sed with no grep after it   *)
(* (gdk-pixbuf's, build.sh:486) has no such guarantee.                      *)
CompiledIsEdited == pc = "compiled" =>
  /\ \A p \in DoneTo(lib, {"patch", "once"}) : text[p] = "new"
  /\ \A p \in DoneTo(lib, {"gone"}) : text[p] \in {"new", "dup", "fixed"}
  /\ \A p \in DoneTo(lib, {"need"}) : text[p] \in {"new", "dup", "quoted", "fixed"}

(* The scripts stop on text they have already changed, and cannot go on     *)
(* from half of their files; but a launch is refused only for what upstream *)
(* has, or for a tarball that did not unpack, never for what an earlier     *)
(* launch that was killed among the edits left.                             *)
RefusedForUpstream ==
  pc = "refused" /\ (\A p \in PlacesOf(lib) : text[p] # "missing") =>
    \E p \in PlacesOf(lib) : upstream[p] # "old"

(* What the steps that are done have left, whatever the sources were: what  *)
(* was asked of a place stays true of it, and the order of the lists makes  *)
(* a place that was counted one that is edited later.                       *)
EditedBefore(l, k, p) ==
  \E j \in 1 .. k - 1 : Edits[l][j].do \in {"sed", "patch"} /\ p \in Edits[l][j].at

Audited ==
  pc \in {"edit", "compiled"} => \A k \in 1 .. at - 1 : \A p \in Edits[lib][k].at :
    LET do == Edits[lib][k].do IN
      /\ do = "patch" => text[p] = "new"
      /\ do = "once"  => text[p] = IF EditedBefore(lib, at, p) THEN "new" ELSE "old"
      /\ do = "gone"  => text[p] \in {"new", "dup", "fixed"}
      /\ do = "need"  => text[p] \in {"new", "dup", "quoted", "fixed"}

(* And over sources as the edits expect them, all unpacked, a place is      *)
(* edited if a step that is done was to edit it, and only then.             *)
AsExpected == \A p \in PlacesOf(lib) : upstream[p] = "old" /\ text[p] # "missing"
OnCourse ==
  pc = "edit" /\ AsExpected =>
    \A p \in PlacesOf(lib) : text[p] = IF EditedBefore(lib, at, p) THEN "new" ELSE "old"

IndInv == Audited /\ OnCourse /\ (pc = "compiled" => at = Len(Edits[lib]) + 1)

(* Nor does a launch over sources as the edits expect them stop anywhere    *)
(* else: it compiles them, from any state of $WORK/src.                     *)
ExpectedSourcesCompile ==
  (pc = "extract" /\ faults = 0 /\ upstream = Expected)
    ~> pc = "compiled"

=============================================================================
