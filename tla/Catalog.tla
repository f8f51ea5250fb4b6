------------------------------ MODULE Catalog ------------------------------
(***************************************************************************)
(* What the repository promises its consumers: a catalogue of libraries    *)
(* that jobs change as transactions.  A job sees the catalogue as it was   *)
(* when it was requested, not as it is when it begins, and releases at     *)
(* most once, in one step, only libraries it was asked for that nobody has *)
(* changed since, and only good trees or the absence of one.  People may   *)
(* withdraw a library at any time.                                         *)
(***************************************************************************)
CONSTANTS
  Libs,
  Good,    \* the trees a consumer can use, per library
  Nothing  \* the absence of a tree

VARIABLES
  tree,   \* the branch, [Libs -> trees]
  asked,  \* what the job in progress was asked for; {} when there is none
  start,  \* the catalogue it sees
  noted   \* the catalogue at the latest request

AllGood == \A l \in Libs : tree[l] \in Good[l]

(* tree has a value for each library and no others. *)
IsCatalogue(t) == t = [l \in Libs |-> t[l]]

Init == IsCatalogue(tree) /\ AllGood /\ asked = {} /\ start = tree /\ noted = tree

Request == noted' = tree /\ UNCHANGED <<tree, asked, start>>

Begin ==
  /\ asked = {} /\ asked' \in SUBSET Libs
  /\ start' = noted /\ UNCHANGED <<tree, noted>>

Release ==
  /\ IsCatalogue(tree')
  /\ \A l \in Libs : tree'[l] # tree[l] =>
       l \in asked /\ tree[l] = start[l] /\ tree'[l] \in Good[l]
  /\ asked' = {} /\ UNCHANGED <<start, noted>>

Withdraw(l) ==
  /\ tree' = [tree EXCEPT ![l] = Nothing]
  /\ UNCHANGED <<asked, start, noted>>

End == asked' = {} /\ start' = tree /\ UNCHANGED <<tree, noted>>

Next == Request \/ Begin \/ Release \/ End \/ \E l \in Libs : Withdraw(l)

Spec == Init /\ [][Next]_<<tree, asked, start, noted>>

=============================================================================
