--------------------------- MODULE MCDesktopShell ---------------------------
(* Instances of DesktopShell for TLC. *)
EXTENDS DesktopShell, TLC

Perms == Permutations(Windows)
=============================================================================
