------------------------------- MODULE MCTsm -------------------------------
(***************************************************************************)
(* Instances of Tsm for TLC.  As in config.h there are as many slots as    *)
(* invoke ids, so that the table can be full of every id and the counter   *)
(* wraps.                                                                  *)
(***************************************************************************)
EXTENDS Tsm

MCTimeouts == {0, 2}
MCRetries  == {0, 1}
MCTicks    == {1}
=============================================================================
