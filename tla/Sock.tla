---------------------------------- MODULE Sock ----------------------------------
(***************************************************************************)
(* The sockets: one connection on its thread (TcpSock), and a listener     *)
(* shared by the event threads (Listener, here L).                         *)
(***************************************************************************)
EXTENDS TcpSock

CONSTANTS Watchers, Zero, Users, Listeners, MaxConns, Nil

VARIABLES
  mem, ref, remove, on, fd, reg, ev_cb, backoff, arrlsn, queue, lsn_batch, accept, call, qtn, busy,
  ahead, stop, exited, flushed, stage, conns

lsn == <<mem, ref, remove, on, fd, reg, ev_cb, backoff, arrlsn, queue, lsn_batch, accept, call, qtn,
         busy, ahead, stop, exited, flushed, stage, conns>>

L == INSTANCE Listener WITH batch <- lsn_batch

ASSUME SockAssumption == L!ListenerAssumption

-----------------------------------------------------------------------------
\* Listener: it lives exactly as long as something leads to it.
AliveWhileReached == L!AliveWhileReached
================================================================================
