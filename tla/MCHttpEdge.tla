----------------------------- MODULE MCHttpEdge -----------------------------
(***************************************************************************)
(* Two requests and one key: creates, cancels and reads in any mix, those  *)
(* with one key racing for it or one after the other.  A window of two     *)
(* ticks with a limit of one request, and a clock that runs to three, so   *)
(* that both sides of the window's boundary are met.  One finite bucket,   *)
(* with requests that fall into it and past it.                            *)
(***************************************************************************)
EXTENDS HttpEdge
=============================================================================
