------------------------------ MODULE MCAppShell ------------------------------
(* The shell with two calls under way and every bound small.               *)
EXTENDS AppShell
=============================================================================
