--------------------------------- MODULE MCCoro ---------------------------------
(***************************************************************************)
(* Instances for TLC of the coroutine scheduler: its serials (CoroSerial)  *)
(* and its sessions and forks (CoroSess).  Each behaviour runs one of them *)
(* over the same stack of contexts, the other stays as it was.             *)
(***************************************************************************)
EXTENDS Coro

VARIABLE which  \* the part that runs

EitherInit == which \in {"serial", "sess"} /\ Init /\ S!Init

EitherNext ==
  \/ which = "serial" /\ Next /\ UNCHANGED <<which, sess>>
  \/ which = "sess" /\ S!Next
     /\ UNCHANGED <<which, slot, mem, lock, flags, waiters, call, at, held, drain, uses>>

EitherSpec == EitherInit /\ [][EitherNext]_<<which, vars, sess>>
================================================================================
