------------------------------- MODULE MCReads -------------------------------
(***************************************************************************)
(* Four rows over two milliseconds of two ticks: ties, rows committed     *)
(* behind a page, and pages smaller than the table.  The prices: 0.4 cents,*)
(* which round to nothing and cannot be stored; 33.4 cents twice, shown as *)
(* 66 cents from the rounded price, charged as 67; and 99 cents.           *)
(***************************************************************************)
EXTENDS Reads

MCItems ==
  {[price |-> 4, quantity |-> 1], [price |-> 334, quantity |-> 2], [price |-> 990, quantity |-> 1]}
=============================================================================
