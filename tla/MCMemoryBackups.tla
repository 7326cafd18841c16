--------------------------- MODULE MCMemoryBackups --------------------------
(* Small instances of MemoryBackups for TLC.                               *)
EXTENDS MemoryBackups

CONSTANTS o1, o2, w1, m1, m2, a1, a2, incoming

(* A backup of the same machine, whose manifest counted no row.            *)
OneBackup == {[rows |-> {m1}, total |-> None]}

(* That one, and one that counted a row more than its snapshot holds.      *)
TwoBackups == OneBackup \cup {[rows |-> {m1}, total |-> 2]}

(* A create replaces an archive on disk only in these states.              *)
ReplacesOnly(condition) ==
  \A o \in Operations :
    (ops[o].pc = "asking" /\ ops'[o].pc = "snapshot") =>
      (files[ops'[o].target] = None \/ condition)

(* Bound: users replace no archive.                                        *)
RequestsSpec ==
  Init /\ [][Next /\ ReplacesOnly(FALSE)]_vars /\ Progress

(* Bound: users replace the one archive there is, once.                    *)
RestoresSpec ==
  Init /\ [][Next /\ ReplacesOnly(overwritten = {} /\ Unused # {})]_vars
=============================================================================
