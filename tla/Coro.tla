---------------------------------- MODULE Coro ----------------------------------
(***************************************************************************)
(* The two parts of the coroutine scheduler over one stack of contexts:    *)
(* its serials (CoroSerial) and its sessions and forks (CoroSess, here S). *)
(***************************************************************************)
EXTENDS CoroSerial

CONSTANTS
  Members,  \* the coroutines that use sessions
  Sess, Tags, MaxOps

VARIABLES
  phase, st, keep, sess_waiters, tag, timed, due, all, fork_pending, waited, parent, since, ops

sess == <<phase, st, keep, sess_waiters, tag, timed, due, all, fork_pending, waited, parent,
          since, ops>>

S == INSTANCE CoroSess WITH Coros <- Members, waiters <- sess_waiters

ASSUME CoroAssumption == S!SessAssumption

-----------------------------------------------------------------------------
\* Sessions: a waiter stands in one list, and no entry stays without a reason.
Registered == S!Registered

\* Forks: fork_wait counts its children and is over with the last.
ForkCounted == S!ForkCounted

\* Sessions: wake_all wakes those that waited when it was called.
OnlyOldWaiters == [][S!WakesOldWaiters]_(S!vars)
================================================================================
