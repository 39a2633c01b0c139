---------------------------- MODULE MCRelationship ----------------------------
(* Values of the constants of Relationship for TLC. *)
EXTENDS Relationship

CONSTANTS w1, w2, m1, m2

FirstManager == {<<w1, m1>>}
BothEnds == {<<w1, m1>>, <<m1, w1>>}
SecondManager == {<<w1, m2>>}
==============================================================================
