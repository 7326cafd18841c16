---------------------------- MODULE MCSupervisor ----------------------------
(* Small instances of Supervisor for TLC: each launch may use as many      *)
(* groups as the sidecar has ports, and one for the runtime.               *)
EXTENDS Supervisor

CONSTANTS g1, g2, g3, g4, g5, g6, main, watcher
=============================================================================
