---------------------------- MODULE MCCovObjects ----------------------------
(***************************************************************************)
(* An instance of CovObjects for TLC.                                      *)
(***************************************************************************)
EXTENDS CovObjects

CONSTANTS a1, o1, p1

Alone == {<<a1, p1, o1>>}

\* Steps of 2 are below the first increment, and three of them are two of it.
\* An Analog Value differs from an Analog Input in Out_Of_Service only.
MCValues ==
  [k \in Kinds |-> CASE k = "ANALOG_INPUT" -> {0, 2, 4, 6}
                     [] k = "ANALOG_VALUE" -> {0, 4}
                     [] k = "BINARY_INPUT" -> {0, 1}
                     [] k = "MULTISTATE_VALUE" -> {1, 2}]

MCIncrements == <<3, 2>>
=============================================================================
