---------------------------- MODULE MCProjectStore --------------------------
(* Small instances of ProjectStore for TLC.                                *)
EXTENDS ProjectStore

CONSTANTS start, page, git, x, y
=============================================================================
