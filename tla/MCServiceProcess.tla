-------------------------- MODULE MCServiceProcess --------------------------
(***************************************************************************)
(* Two messages: the acknowledgement of one can end the process with the   *)
(* other in hand.  Two faults, so that a message can fail and be           *)
(* interrupted.                                                            *)
(***************************************************************************)
EXTENDS ServiceProcess
=============================================================================
