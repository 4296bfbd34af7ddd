------------------------------- MODULE MCPosts -------------------------------
(* Two phones on one club's announcements, with clocks of two moments.     *)
EXTENDS Posts
=============================================================================
