---------------------------- MODULE MCGraphReads ----------------------------
(***************************************************************************)
(* Four items, of which a query selects those of one team, read in pages   *)
(* of one, of the default two, and of a limit above the cap.               *)
(***************************************************************************)
EXTENDS GraphReads

CONSTANTS Pay, Ops

Keys     == 1..4
Teams    == {Pay, Ops}
OnlyPay  == {Pay}
Limits   == {-1, 0, 1, 4}

=============================================================================
