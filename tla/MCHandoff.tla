------------------------------- MODULE MCHandoff -------------------------------
(***************************************************************************)
(* Instances for TLC of what hands things from thread to thread: Fsqu with *)
(* one consumer and with two, Chan with and without a capacity, and the    *)
(* timing wheel.  Each behaviour runs one of them, the others stay as they *)
(* were.  Producers are interchangeable, each adds one timer.              *)
(***************************************************************************)
EXTENDS TimeWheel, Handoff, TLC

CONSTANTS c1, c2

OneOrTwo == {{c1}, {c1, c2}}
ProducerSymmetry == Permutations(Timers)

VARIABLE which  \* the one that runs

EitherInit ==
  /\ Init /\ F!Init /\ C!Init
  /\ \/ which = "fsqu" /\ cap = 0
     \/ which = "chan" /\ F!Single
     \/ which = "wheel" /\ cap = 0 /\ F!Single

EitherNext ==
  \/ which = "fsqu" /\ F!Next /\ UNCHANGED <<which, chan, vars>>
  \/ which = "chan" /\ C!Next /\ UNCHANGED <<which, fsqu, vars>>
  \/ which = "wheel" /\ Next /\ UNCHANGED <<which, fsqu, chan>>

EitherSpec == EitherInit /\ [][EitherNext]_<<which, fsqu, chan, vars>>
================================================================================
