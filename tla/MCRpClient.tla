---------------------------- MODULE MCRpClient -----------------------------
(***************************************************************************)
(* Instances of RpClient for TLC.  The id counter is small, so that it     *)
(* wraps and the table fills with abandoned transactions.                  *)
(***************************************************************************)
EXTENDS RpClient

CONSTANTS d1, d2, a1, a2

TwoHomes == [d \in {d1, d2} |-> IF d = d1 THEN a1 ELSE a2]

\* d1 moves to the address of d2.
MCIAms   == {<<d1, a2>>}
=============================================================================
