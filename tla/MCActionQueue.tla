--------------------------- MODULE MCActionQueue ---------------------------
(* Instance of ActionQueue for TLC: two calling threads (the main loop and  *)
(* one more), each making up to MaxCalls calls of any of the three methods. *)
EXTENDS ActionQueue
=============================================================================
