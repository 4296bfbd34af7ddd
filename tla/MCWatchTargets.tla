---------------------------- MODULE MCWatchTargets ----------------------------
(* A collection of two documents on one page.                              *)
EXTENDS WatchTargets
=============================================================================
