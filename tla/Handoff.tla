-------------------------------- MODULE Handoff --------------------------------
(***************************************************************************)
(* What hands things from thread to thread, side by side: the queue with a *)
(* spill layer (Fsqu, here F) and the channel (Chan, here C), each with    *)
(* its own variables.                                                      *)
(***************************************************************************)
EXTENDS Naturals, Sequences, FiniteSets

CONSTANTS
  Producers, Consumers, Observers, FastCap, MaxPush, MaxBatch, MaxWant, Uses,
  Senders, Receivers, Caps, MaxSend,
  Free  \* nobody: of the queue's lock, and of the channel's two mutexes

VARIABLES
  fast, qu, novf, lck, pc, todo, want, fastrtn, mark, sent, done, last,
  cap, closed, r_waiting, w_waiting, qudata, data, r_mu, w_mu, c_at, made, returned, failed, got

fsqu == <<fast, qu, novf, lck, pc, todo, want, fastrtn, mark, sent, done, last>>
chan == <<cap, closed, r_waiting, w_waiting, qudata, data, r_mu, w_mu, c_at, made, returned,
          failed, got>>

F == INSTANCE Fsqu
C == INSTANCE Chan WITH Nobody <- Free, at <- c_at, sent <- returned

ASSUME HandoffAssumption == F!FsquAssumption /\ C!ChanAssumption

-----------------------------------------------------------------------------
\* Fsqu: what each producer pushed is taken in its order (fsqu.h, the spill layer).
InOrder == F!InOrder

\* Fsqu: the queue is never said to be empty while an element pushed before is in it.
EmptySound == F!EmptySound

\* Chan: a send that failed was not received, one that succeeded was or still is queued.
SendsAreTrue == C!SendsAreTrue

\* Chan: when all is still nobody sleeps who could go on.
NobodyForgotten == C!NobodyForgotten
================================================================================
