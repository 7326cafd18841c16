------------------------------- MODULE Absent -------------------------------
(* JavaScript's undefined and null, and Rust's None: what the plugins'     *)
(* modules and their joint instance hold where there is no value.          *)
CONSTANT None

Optional(S) == S \cup {None}
=============================================================================
