------------------------------ MODULE MCSessions ------------------------------
(* Two people sharing a phone, and a pipeline of one or two writes.        *)
EXTENDS Sessions
=============================================================================
