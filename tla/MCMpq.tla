------------------------------- MODULE MCMpq --------------------------------
(***************************************************************************)
(* Instances of Mpq for TLC: a ring with one consumer, and one with two.   *)
(* Producers are interchangeable.                                          *)
(***************************************************************************)
EXTENDS Ring, TLC

CONSTANTS c1, c2

OneOrTwo == {{c1}, {c1, c2}}
ProducerSymmetry == Permutations(Producers)
RingSpec == R!Spec
=============================================================================
