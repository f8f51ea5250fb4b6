------------------------- MODULE SourceEditsProofs -------------------------
(* Theorems about SourceEdits, for any number of faults.                    *)
EXTENDS SourceEdits, TLAPS

Dos == {"sed", "once", "absent", "keep", "need", "gone", "patch", "still"}

(* The five lists. *)
LEMMA LibsAre == Libs = {"glib", "pixbuf", "gtk4", "glibmm", "gtkmm"}
  BY DEF Libs, Edits

LEMMA Lengths ==
  /\ Len(GlibEdits) = 2 /\ Len(PixbufEdits) = 1 /\ Len(GtkEdits) = 17
  /\ Len(GlibmmEdits) = 4 /\ Len(GtkmmEdits) = 9
  BY DEF GlibEdits, PixbufEdits, GtkEdits, GlibmmEdits, GtkmmEdits

LEMMA ListsAreLists ==
  ASSUME NEW l \in Libs
  PROVE  /\ Len(Edits[l]) \in 1 .. Len(GtkEdits) /\ DOMAIN Edits[l] = 1 .. Len(Edits[l])
         /\ \A k \in 1 .. Len(Edits[l]) : Edits[l][k].do \in Dos
  <1> USE Lengths DEF Edits, Dos
  <1>1. CASE l = "glib"
    BY <1>1 DEF GlibEdits, Sed, Need
  <1>2. CASE l = "pixbuf"
    BY <1>2 DEF PixbufEdits, Sed
  <1>3. CASE l = "gtk4"
    BY <1>3 DEF GtkEdits, Sed, Need, Gone, Patch, Still, Absent
  <1>4. CASE l = "glibmm"
    BY <1>4 DEF GlibmmEdits, Once, Patch, Need, Gone
  <1>5. CASE l = "gtkmm"
    BY <1>5 DEF GtkmmEdits, Once, Absent, Sed, Gone, Need, Keep
  <1> QED
    BY <1>1, <1>2, <1>3, <1>4, <1>5, LibsAre

(* A list can be carried out: what is counted is not edited before, and     *)
(* what must have been edited is.                                           *)
InOrder(l) ==
  \A k \in 1 .. Len(Edits[l]) : \A p \in Edits[l][k].at :
    /\ Edits[l][k].do \in {"patch", "once", "absent", "keep", "still"} => ~EditedBefore(l, k, p)
    /\ Edits[l][k].do \in {"need", "gone"} => EditedBefore(l, k, p)
    /\ Edits[l][k].do = "once" => EditedBefore(l, Len(Edits[l]) + 1, p)

LEMMA GlibInOrder == InOrder("glib")
  BY Lengths DEF InOrder, EditedBefore, Edits, GlibEdits, Sed, Need
LEMMA PixbufInOrder == InOrder("pixbuf")
  BY Lengths DEF InOrder, EditedBefore, Edits, PixbufEdits, Sed
LEMMA GlibmmInOrder == InOrder("glibmm")
  BY Lengths DEF InOrder, EditedBefore, Edits, GlibmmEdits, Once, Patch, Need, Gone
LEMMA GtkmmInOrder == InOrder("gtkmm")
  BY Lengths DEF InOrder, EditedBefore, Edits, GtkmmEdits, Once, Absent, Sed, Gone, Need, Keep
LEMMA GtkInOrder == InOrder("gtk4")
  BY Lengths, SMTT(60) DEF InOrder, EditedBefore, Edits, GtkEdits, Sed, Need, Gone, Patch,
                 Still, Absent, NightFile, TouchBlock

LEMMA AllInOrder == \A l \in Libs : InOrder(l)
  BY LibsAre, GlibInOrder, PixbufInOrder, GlibmmInOrder, GtkmmInOrder, GtkInOrder

LEMMA PlacesOfSteps ==
  ASSUME NEW l \in Libs
  PROVE  /\ PlacesOf(l) \subseteq Places
         /\ \A k \in 1 .. Len(Edits[l]) : Edits[l][k].at \subseteq PlacesOf(l)
         /\ \A p, dos : p \in DoneTo(l, dos) =>
              \E k \in 1 .. Len(Edits[l]) : Edits[l][k].do \in dos /\ p \in Edits[l][k].at
  BY ListsAreLists DEF PlacesOf, Places, DoneTo, ToSet

-----------------------------------------------------------------------------
LEMMA UnpackedType ==
  ASSUME TypeOK, NEW gap
  PROVE  Unpacked(gap) \in [PlacesOf(lib) -> Forms]
  BY PlacesOfSteps DEF TypeOK, Unpacked, Forms

LEMMA EditedType == \A f \in Forms : Edited(f) \in Forms
  BY DEF Edited, Forms

LEMMA InitTypeOK == Init => TypeOK
  BY ListsAreLists, Lengths, EditsAssumption
     DEF Init, TypeOK, Expected, Upstream, Forms, Stopped

(* Every step keeps the state of its type. *)
LEMMA StepTypeOK == TypeOK /\ [Next]_vars => TypeOK'
  <1> SUFFICES ASSUME TypeOK, [Next]_vars PROVE TypeOK'
    OBVIOUS
  <1> USE EditsAssumption, Lengths
  <1>0. /\ upstream \in [Places -> Upstream] /\ lib \in Libs
        /\ text \in [PlacesOf(lib) -> Forms] /\ at \in 1 .. 18 /\ faults \in 0 .. MaxFaults
        /\ pc = "edit" => at <= Len(Edits[lib]) + 1
    BY DEF TypeOK
  <1>1. CASE NewPin
    BY <1>0, <1>1 DEF NewPin, TypeOK, Stopped, Expected, Upstream
  <1>2. CASE Launch
    <2>1. text' \in [PlacesOf(lib') -> Forms]
      BY <1>0, <1>2 DEF Launch, Forms
    <2> QED
      BY <1>0, <1>2, <2>1 DEF Launch, TypeOK
  <1>3. CASE Extract
    <2>1. PICK gap : text' = Unpacked(gap)
      BY <1>3 DEF Extract
    <2>2. text' \in [PlacesOf(lib) -> Forms]
      BY <2>1, UnpackedType
    <2>3. faults' \in 0 .. MaxFaults
      BY <1>0, <1>3 DEF Extract, Fault
    <2> QED
      BY <1>0, <1>3, <2>2, <2>3, ListsAreLists DEF Extract, TypeOK
  <1>4. CASE Apply
    <2>1. text' \in [PlacesOf(lib) -> Forms]
      BY <1>0, <1>4, EditedType DEF Apply
    <2>2. at' = at + 1 /\ at <= Len(Edits[lib]) /\ Len(Edits[lib]) \in 1 .. 17
      BY <1>0, <1>4, ListsAreLists DEF Apply, GoOn, Editing
    <2>3. pc' = "edit" /\ lib' = lib /\ UNCHANGED <<upstream, faults>>
      BY <1>4 DEF Apply, GoOn
    <2>4. at' \in 1 .. Len(GtkEdits) + 1 /\ at' <= Len(Edits[lib]) + 1
      <3>1. PICK n \in 1 .. 17 : n = Len(Edits[lib])
        BY <2>2
      <3>2. at \in 1 .. n /\ at' = at + 1
        BY <1>0, <2>2, <3>1
      <3>3. at' \in 1 .. 18 /\ at' <= n + 1
        BY <3>2
      <3> QED
        BY <3>1, <3>3, Lengths
    <2> QED
      BY <1>0, <2>1, <2>3, <2>4 DEF TypeOK
  <1>5. CASE Refuse \/ Compile
    BY <1>0, <1>5 DEF Refuse, Compile, TypeOK, Stopped
  <1>6. CASE Stop
    <2>1. text' \in [PlacesOf(lib) -> Forms]
      BY <1>0, <1>6 DEF Stop, Forms
    <2> QED
      BY <1>0, <1>6, <2>1 DEF Stop, Fault, TypeOK, Stopped
  <1>7. CASE UNCHANGED vars
    BY <1>7 DEF vars, TypeOK
  <1> QED
    BY <1>1, <1>2, <1>3, <1>4, <1>5, <1>6, <1>7 DEF Next, Advance

(* The state is made of what the sources and the script can be.             *)
THEOREM Typing == Spec => []TypeOK
  BY InitTypeOK, StepTypeOK, PTL DEF Spec
-----------------------------------------------------------------------------
(* A step that is done leaves what it asked for, and leaves alone or makes  *)
(* new what earlier ones asked for.                                         *)
LEMMA WriteKeeps ==
  /\ Edited("new") = "new" /\ Edited("old") = "new"
  /\ \A f \in {"new", "dup", "fixed"} : Edited(f) \in {"new", "dup", "fixed"}
  /\ \A f \in {"new", "dup", "quoted", "fixed"} :
       Edited(f) \in {"new", "dup", "quoted", "fixed"}
  BY DEF Edited

LEMMA EditedNow ==
  ASSUME TypeOK, Editing, NEW p
  PROVE  EditedBefore(lib, at + 1, p) <=>
           \/ EditedBefore(lib, at, p)
           \/ Step.do \in {"sed", "patch"} /\ p \in Step.at
  <1>1. at \in Nat /\ at > 0
    BY Lengths DEF TypeOK
  <1>2. 1 .. (at + 1) - 1 = (1 .. at - 1) \cup {at}
    BY <1>1
  <1> QED
    BY <1>2 DEF EditedBefore, Step

LEMMA ApplyAudited == TypeOK /\ IndInv /\ Apply => Audited'
  <1> SUFFICES ASSUME TypeOK, IndInv, Apply,
                      NEW k \in 1 .. at' - 1, NEW p \in Edits[lib][k].at
               PROVE  LET do == Edits[lib][k].do IN
                        /\ do = "patch" => text'[p] = "new"
                        /\ do = "once"  =>
                             text'[p] = IF EditedBefore(lib, at', p) THEN "new" ELSE "old"
                        /\ do = "gone"  => text'[p] \in {"new", "dup", "fixed"}
                        /\ do = "need"  => text'[p] \in {"new", "dup", "quoted", "fixed"}
    BY DEF Audited, Apply, EditedBefore
  <1> DEFINE writes == Step.do \in {"sed", "patch"} /\ p \in Step.at
             do == Edits[lib][k].do
  <1>1. /\ lib \in Libs /\ at \in 1 .. Len(Edits[lib]) /\ Len(Edits[lib]) \in Nat
        /\ at' = at + 1 /\ pc = "edit" /\ lib' = lib /\ Passes
    BY ListsAreLists, Lengths DEF TypeOK, Apply, Editing, GoOn
  <1>2. p \in PlacesOf(lib)
    BY <1>1, PlacesOfSteps
  <1>3. text'[p] = IF writes THEN Edited(text[p]) ELSE text[p]
    BY <1>2 DEF Apply, TypeOK
  <1>4. EditedBefore(lib, at', p) <=> EditedBefore(lib, at, p) \/ writes
    BY <1>1, EditedNow DEF Apply
  <1>5. CASE k \in 1 .. at - 1
    <2>1. /\ do = "patch" => text[p] = "new"
          /\ do = "once"  => text[p] = IF EditedBefore(lib, at, p) THEN "new" ELSE "old"
          /\ do = "gone"  => text[p] \in {"new", "dup", "fixed"}
          /\ do = "need"  => text[p] \in {"new", "dup", "quoted", "fixed"}
      BY <1>1, <1>5 DEF IndInv, Audited
    <2> QED
      BY <2>1, <1>3, <1>4, WriteKeeps
  <1>6. CASE k = at
    <2>1. Matches(do, text[p]) /\ do = Step.do /\ p \in Step.at
      BY <1>1, <1>6 DEF Passes, Step
    <2>2. do = "once" => ~EditedBefore(lib, at, p)
      BY <1>1, <1>6, AllInOrder DEF InOrder
    <2> QED
      BY <2>1, <2>2, <1>3, <1>4, WriteKeeps DEF Matches
  <1> QED
    BY <1>1, <1>5, <1>6

LEMMA ApplyOnCourse == TypeOK /\ IndInv /\ Apply => OnCourse'
  <1> SUFFICES ASSUME TypeOK, IndInv, Apply, AsExpected', NEW p \in PlacesOf(lib)
               PROVE  text'[p] = IF EditedBefore(lib, at', p) THEN "new" ELSE "old"
    BY DEF OnCourse, Apply, EditedBefore, PlacesOf
  <1>1. /\ lib \in Libs /\ at' = at + 1 /\ pc = "edit" /\ UNCHANGED <<upstream, lib>>
    BY DEF TypeOK, Apply, Editing, GoOn
  <1>2. \A q \in PlacesOf(lib) :
          text'[q] = IF Step.do \in {"sed", "patch"} /\ q \in Step.at
                     THEN Edited(text[q]) ELSE text[q]
    BY DEF Apply, TypeOK
  <1>3. AsExpected
    BY <1>1, <1>2 DEF AsExpected, Edited
  <1>4. text[p] = IF EditedBefore(lib, at, p) THEN "new" ELSE "old"
    BY <1>1, <1>3 DEF IndInv, OnCourse
  <1>5. EditedBefore(lib, at', p) <=>
          EditedBefore(lib, at, p) \/ (Step.do \in {"sed", "patch"} /\ p \in Step.at)
    BY <1>1, EditedNow DEF Apply
  <1> QED
    BY <1>2, <1>4, <1>5, WriteKeeps

(* Over sources as expected no step refuses.                                *)
LEMMA ExpectedPasses == TypeOK /\ IndInv /\ Editing /\ AsExpected => Passes
  <1> SUFFICES ASSUME TypeOK, IndInv, Editing, AsExpected, NEW p \in Step.at
               PROVE  Matches(Step.do, text[p])
    BY DEF Passes
  <1>1. lib \in Libs /\ at \in 1 .. Len(Edits[lib])
    BY ListsAreLists, Lengths DEF TypeOK, Editing
  <1>2. p \in PlacesOf(lib) /\ Step.do \in Dos
    BY <1>1, PlacesOfSteps, ListsAreLists DEF Step
  <1>3. text[p] = IF EditedBefore(lib, at, p) THEN "new" ELSE "old"
    BY <1>2 DEF IndInv, OnCourse, Editing
  <1>4. /\ Step.do \in {"patch", "once", "absent", "keep", "still"} => text[p] = "old"
        /\ Step.do \in {"need", "gone"} => text[p] = "new"
    BY <1>1, <1>3, AllInOrder DEF InOrder, Step
  <1> QED
    BY <1>2, <1>3, <1>4 DEF Matches, Dos

LEMMA InitIndInv == Init => IndInv /\ RefusedForUpstream
  BY DEF Init, IndInv, Audited, OnCourse, RefusedForUpstream

LEMMA StepIndInv ==
  TypeOK /\ IndInv /\ RefusedForUpstream /\ [Next]_vars => IndInv' /\ RefusedForUpstream'
  <1> SUFFICES ASSUME TypeOK, IndInv, RefusedForUpstream, [Next]_vars
               PROVE  IndInv' /\ RefusedForUpstream'
    OBVIOUS
  <1>1. CASE NewPin \/ Launch \/ Stop
    BY <1>1 DEF NewPin, Launch, Stop, IndInv, Audited, OnCourse, RefusedForUpstream
  <1>2. CASE Extract
    <2>1. /\ at' = 1 /\ pc' = "edit" /\ UNCHANGED <<upstream, lib>>
          /\ \E gap \in SUBSET PlacesOf(lib) : text' = Unpacked(gap)
      BY <1>2 DEF Extract
    <2>2. AsExpected' => \A p \in PlacesOf(lib) : text'[p] = "old"
      BY <2>1 DEF AsExpected, Unpacked
    <2>3. \A p : ~EditedBefore(lib, 1, p)
      BY DEF EditedBefore
    <2>4. OnCourse'
      BY <2>1, <2>2, <2>3 DEF OnCourse, PlacesOf, EditedBefore
    <2> QED
      BY <2>1, <2>4 DEF IndInv, Audited, RefusedForUpstream
  <1>3. CASE Apply
    <2>1. pc' = "edit"
      BY <1>3 DEF Apply, GoOn
    <2> QED
      BY <1>3, <2>1, ApplyAudited, ApplyOnCourse DEF IndInv, RefusedForUpstream
  <1>4. CASE Refuse
    <2>1. ~AsExpected /\ pc' = "refused" /\ UNCHANGED <<upstream, lib, text>>
      BY <1>4, ExpectedPasses DEF Refuse
    <2> QED
      BY <2>1 DEF AsExpected, PlacesOf, IndInv, Audited, OnCourse, RefusedForUpstream
  <1>5. CASE Compile
    <2>1. pc = "edit" /\ pc' = "compiled" /\ UNCHANGED <<upstream, lib, text, at>>
      BY <1>5 DEF Compile
    <2>2. at = Len(Edits[lib]) + 1
      BY <1>5, ListsAreLists, Lengths DEF Compile, TypeOK
    <2> QED
      BY <2>1, <2>2 DEF IndInv, Audited, OnCourse, RefusedForUpstream, EditedBefore
  <1>6. CASE UNCHANGED vars
    BY <1>6 DEF vars, IndInv, Audited, OnCourse, AsExpected, RefusedForUpstream,
                EditedBefore, PlacesOf
  <1> QED
    BY <1>1, <1>2, <1>3, <1>4, <1>5, <1>6 DEF Next, Advance

(* What the steps that are done have left, over any sources and over those  *)
(* the edits expect.                                                        *)
THEOREM EditsHandOn == Spec => []IndInv
  BY InitTypeOK, StepTypeOK, InitIndInv, StepIndInv, PTL DEF Spec

(* A launch is refused only for what upstream has, or for what tar did not  *)
(* unpack: nothing an earlier launch left in $WORK/src is in its way.       *)
THEOREM OnlyUpstreamRefused == Spec => []RefusedForUpstream
  BY InitTypeOK, StepTypeOK, InitIndInv, StepIndInv, PTL DEF Spec

(* What is compiled has every counted edit, and nowhere that a grep looks   *)
(* for it the text from before.                                             *)
THEOREM NothingUneditedCompiles == Spec => []CompiledIsEdited
  <1>1. TypeOK /\ IndInv => CompiledIsEdited
    <2> SUFFICES ASSUME TypeOK, IndInv, pc = "compiled" PROVE CompiledIsEdited
      BY DEF CompiledIsEdited
    <2>1. lib \in Libs /\ at - 1 = Len(Edits[lib]) /\ at = Len(Edits[lib]) + 1
      BY ListsAreLists DEF TypeOK, IndInv
    <2>2. \A k \in 1 .. Len(Edits[lib]) : \A p \in Edits[lib][k].at :
            /\ Edits[lib][k].do \in {"patch", "once"} => text[p] = "new"
            /\ Edits[lib][k].do = "gone" => text[p] \in {"new", "dup", "fixed"}
            /\ Edits[lib][k].do = "need" => text[p] \in {"new", "dup", "quoted", "fixed"}
      BY <2>1, AllInOrder DEF IndInv, Audited, InOrder
    <2> QED
      BY <2>1, <2>2, PlacesOfSteps DEF CompiledIsEdited
  <1> QED
    BY <1>1, Typing, EditsHandOn, PTL
-----------------------------------------------------------------------------
(* What of ExpectedSourcesCompile needs no fairness.                        *)
Quiet ==
  /\ pc \in {"extract", "edit", "compiled"} /\ faults = 0 /\ upstream = Expected
  /\ pc = "edit" => \A p \in PlacesOf(lib) : text[p] # "missing"

(* The edits still to come, with extract and configure.                     *)
StepsLeft == CASE pc = "extract" -> Len(Edits[lib]) + 2
               [] pc = "edit"    -> Len(Edits[lib]) + 2 - at
               [] OTHER          -> 0

LEMMA QuietStep ==
  TypeOK /\ IndInv /\ Quiet /\ pc # "compiled" /\ Next => Quiet' /\ StepsLeft' < StepsLeft
  <1> SUFFICES ASSUME TypeOK, IndInv, Quiet, pc # "compiled", Next
               PROVE  Quiet' /\ StepsLeft' < StepsLeft
    OBVIOUS
  <1>0. /\ lib \in Libs /\ Len(Edits[lib]) \in Nat /\ at \in Nat
        /\ PlacesOf(lib) \subseteq Places
        /\ pc = "edit" => at <= Len(Edits[lib]) + 1
        /\ text \in [PlacesOf(lib) -> Forms]
    BY ListsAreLists, Lengths, PlacesOfSteps DEF TypeOK
  <1>1. pc \notin Stopped /\ ~Fault
    BY DEF Quiet, Stopped, Fault
  <1>2. pc = "edit" => AsExpected
    BY <1>0 DEF Quiet, Expected, AsExpected
  <1>3. CASE Extract
    <2>1. /\ pc = "extract" /\ pc' = "edit" /\ at' = 1 /\ text' = Unpacked({})
          /\ UNCHANGED <<upstream, lib, faults>>
      BY <1>1, <1>3 DEF Extract
    <2>2. \A p \in PlacesOf(lib) : text'[p] # "missing"
      BY <1>0, <2>1 DEF Unpacked, Quiet, Expected
    <2>3. StepsLeft = Len(Edits[lib]) + 2 /\ StepsLeft' = Len(Edits[lib]) + 1
      BY <1>0, <2>1 DEF StepsLeft
    <2> QED
      BY <1>0, <2>1, <2>2, <2>3 DEF Quiet, PlacesOf
  <1>4. CASE Apply
    <2>1. /\ pc = "edit" /\ pc' = "edit" /\ at' = at + 1 /\ UNCHANGED <<upstream, lib, faults>>
      BY <1>4 DEF Apply, Editing, GoOn
    <2>2. \A p \in PlacesOf(lib) : text'[p] # "missing"
      BY <1>0, <1>4, <2>1 DEF Apply, Quiet, Edited
    <2>3. StepsLeft = Len(Edits[lib]) + 2 - at /\ StepsLeft' = Len(Edits[lib]) + 2 - (at + 1)
      BY <2>1 DEF StepsLeft
    <2> QED
      BY <1>0, <2>1, <2>2, <2>3 DEF Quiet, PlacesOf
  <1>5. CASE Compile
    <2>1. pc = "edit" /\ pc' = "compiled" /\ UNCHANGED <<upstream, lib, faults>>
      BY <1>5 DEF Compile
    <2>2. StepsLeft = Len(Edits[lib]) + 2 - at /\ StepsLeft' = 0
      BY <2>1 DEF StepsLeft
    <2> QED
      BY <1>0, <2>1, <2>2 DEF Quiet
  <1>6. ~Refuse
    BY <1>2, ExpectedPasses DEF Refuse, Editing
  <1> QED
    BY <1>1, <1>3, <1>4, <1>5, <1>6 DEF Next, Advance, NewPin, Launch, Stop

LEMMA StepsLeftIsNatural == TypeOK => StepsLeft \in Nat
  <1> SUFFICES ASSUME TypeOK PROVE StepsLeft \in Nat
    OBVIOUS
  <1>1. lib \in Libs
    BY DEF TypeOK
  <1>2. Len(Edits[lib]) \in Nat
    BY <1>1, ListsAreLists, Lengths
  <1>3. at \in Nat /\ (pc = "edit" => at <= Len(Edits[lib]) + 1)
    BY <1>2, Lengths DEF TypeOK
  <1>4. QED
    BY <1>2, <1>3 DEF StepsLeft

(* Where the liveness property of the run starts, and what steps keep from  *)
(* there on.                                                                *)
QuietStart  == pc = "extract" /\ faults = 0 /\ upstream = Expected
QuietGoesOn == [][Quiet /\ pc # "compiled" => Quiet' /\ StepsLeft' < StepsLeft]_vars

(* Sources as the edits expect them compile, but for the scheduler: from    *)
(* any state of $WORK/src no edit, count or grep stops the launch, and      *)
(* every step is one of a number that was known when it began.              *)
THEOREM ExpectedGoesOn ==
  Spec => [](StepsLeft \in Nat /\ (QuietStart => Quiet)) /\ QuietGoesOn
  <1>1. TypeOK => StepsLeft \in Nat /\ (QuietStart => Quiet)
    BY StepsLeftIsNatural DEF QuietStart, Quiet
  <1>2. TypeOK /\ IndInv /\ [Next]_vars
          => [Quiet /\ pc # "compiled" => Quiet' /\ StepsLeft' < StepsLeft]_vars
    BY QuietStep
  <1> QED
    BY <1>1, <1>2, Typing, EditsHandOn, PTL DEF Spec, QuietGoesOn

=============================================================================
