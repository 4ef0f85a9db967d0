--------------------------------- MODULE MCSock ---------------------------------
(***************************************************************************)
(* Instances for TLC of the sockets: one connection on its thread          *)
(* (TcpSock), and a listener shared by the event threads (Listener).  Each *)
(* behaviour runs one of them, the other stays as it was.                  *)
(***************************************************************************)
EXTENDS Sock

VARIABLE which  \* the part that runs

EitherInit == which \in {"tcp", "listener"} /\ Init /\ L!Init

EitherNext ==
  \/ which = "tcp" /\ Next /\ UNCHANGED <<which, lsn>>
  \/ which = "listener" /\ L!Next /\ UNCHANGED <<which, vars>>

EitherSpec == EitherInit /\ [][EitherNext]_<<which, vars, lsn>>
================================================================================
