------------------------------- MODULE MCBbmd -------------------------------
(***************************************************************************)
(* Instances of Bbmd for TLC: the BBMD a is alone on its subnet, the BBMD  *)
(* b shares its subnet with the device y, and f and g are foreign devices  *)
(* on subnets of their own.  The tables are those of dlenv.c: entry 1 is   *)
(* the node itself, and every mask is 255.255.255.255.                     *)
(***************************************************************************)
EXTENDS Bbmd

CONSTANTS a, b, y, f, g

MCNodes  == {a, b, y, f, g}
MCSubnet == [n \in MCNodes |-> IF n = y THEN b ELSE n]

Unicast(dests) == {[dest |-> d, unicast |-> TRUE] : d \in dests}
MCTable  == [n \in MCNodes |-> CASE n \in {a, b} -> Unicast({a, b})
                                 [] n = y -> Unicast({y})
                                 [] OTHER -> {}]
MCRemote == [n \in {f, g} |-> b]

\* The tables of the instance are those of a network that is set up well.
ASSUME SetUpWell == OneWay /\ Connected

=============================================================================
