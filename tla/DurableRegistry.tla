-------------------------- MODULE DurableRegistry --------------------------
(***************************************************************************)
(* What the project registry promises the code that commits to it,         *)
(* whatever the store does underneath: a change whose commit was confirmed *)
(* is in every document a later launch can read, until a launch finds a    *)
(* document it cannot read and starts empty, as the store announces.       *)
(***************************************************************************)
CONSTANT Changes  \* the changes callers commit

VARIABLES
  stored,   \* the changes the document on disk holds
  promised  \* the changes whose commit was confirmed

Init ==
  /\ stored = {}
  /\ promised = {}

(* A new document replaces the old one.                                    *)
Replace ==
  /\ stored' \in SUBSET Changes
  /\ promised \subseteq stored'
  /\ UNCHANGED promised

(* A commit is confirmed.                                                  *)
Confirm ==
  \E change \in stored :
    /\ promised' = promised \cup {change}
    /\ UNCHANGED stored

(* A launch cannot read the document: nothing earlier is promised.         *)
StartEmpty ==
  /\ promised' = {}
  /\ UNCHANGED stored

Next == Replace \/ Confirm \/ StartEmpty

Spec == Init /\ [][Next]_<<stored, promised>>
=============================================================================
