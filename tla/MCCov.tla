------------------------------- MODULE MCCov -------------------------------
(***************************************************************************)
(* Instances of Cov for TLC.                                               *)
(***************************************************************************)
EXTENDS Cov, TLC

CONSTANTS a1, a2, o1, o2, p1

\* Two subscribers of different objects.
Apart  == {<<a1, p1, o1>>, <<a2, p1, o2>>}
\* Two subscribers of one object.
Shared == {<<a1, p1, o1>>, <<a2, p1, o1>>}

\* In Apart the two subscribers differ in name only.
ApartSymmetry ==
  {[x \in {a1, a2, o1, o2} |->
     CASE x = a1 -> a2 [] x = a2 -> a1 [] x = o1 -> o2 [] x = o2 -> o1]}
=============================================================================
