--------------------------- MODULE MCInstallation ---------------------------
(***************************************************************************)
(* Three runtimes on one database, one of them on its caller's connection. *)
(***************************************************************************)
EXTENDS Installation, TLC

CONSTANTS r1, r2, r3, c1, c2
=============================================================================
