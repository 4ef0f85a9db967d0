--------------------------------- MODULE Chan ---------------------------------
(***************************************************************************)
(* The channel between threads (lib/utils/chan.c).                         *)
(*                                                                         *)
(* With a capacity it is a bounded queue; without one a sender waits until *)
(* a receiver has taken its value.  A step is what a thread does between   *)
(* locking m_mu and letting it go, to return or to sleep on a condition;   *)
(* the signals given after the lock is released are steps of their own,    *)
(* and a thread may wake without one.                                      *)
(***************************************************************************)
EXTENDS Naturals, Sequences, FiniteSets, SequencesExt

CONSTANTS
  Senders, Receivers,
  Caps,     \* the capacities to choose from, after rounding up; 0: unbuffered
  MaxSend,  \* bound: sends of each sender
  Nobody

\* What an instance gives the constants.
ChanAssumption ==
  /\ Senders \cap Receivers = {} /\ Nobody \notin Senders \cup Receivers
  /\ Caps \subseteq Nat /\ MaxSend \in Nat
  /\ IsFiniteSet(Senders) /\ IsFiniteSet(Receivers)

VARIABLES
  cap, closed,
  r_waiting, w_waiting,  \* how many threads wait to receive, and to send
  qudata,                \* buffered: the values in the queue
  data,                  \* unbuffered: the value of the sender that waits
  r_mu, w_mu,            \* unbuffered: the one receiver, the one sender inside
  at,                    \* thread -> where it is
  made,                  \* sender -> sends begun
  sent, failed,          \* values of the sends that returned so (history)
  got                    \* values received, in that order (history)

vars == <<cap, closed, r_waiting, w_waiting, qudata, data, r_mu, w_mu, at, made, sent,
          failed, got>>
history == <<sent, failed, got>>

Value(s) == <<s, made[s]>>
Buffered == cap > 0
Full == Len(qudata) = cap

Init ==
  /\ cap \in Caps /\ closed = FALSE
  /\ r_waiting = 0 /\ w_waiting = 0
  /\ qudata = <<>> /\ data = <<>>
  /\ r_mu = Nobody /\ w_mu = Nobody
  /\ at = [t \in Senders \cup Receivers |-> "out"]
  /\ made = [s \in Senders |-> 0]
  /\ sent = {} /\ failed = {} /\ got = <<>>

-----------------------------------------------------------------------------
(* The conditions: senders sleep on w_cond, receivers on r_cond *)

Asleep(T) == {t \in T : at[t] = "sleep"}

\* After t went to a, one of T that sleeps wakes, if there is one.
GotoSignal(t, a, T) ==
  IF Asleep(T) = {} THEN at' = [at EXCEPT ![t] = a]
  ELSE \E u \in Asleep(T) : at' = [at EXCEPT ![t] = a, ![u] = "woken"]

Goto(t, a) == at' = [at EXCEPT ![t] = a]

\* A thread wakes without a signal.
Spurious(t) ==
  /\ at[t] = "sleep"
  /\ Goto(t, "woken")
  /\ UNCHANGED <<cap, closed, r_waiting, w_waiting, qudata, data, r_mu, w_mu, made, history>>

Close ==
  /\ ~closed
  /\ closed' = TRUE
  /\ at' = [t \in DOMAIN at |-> IF at[t] = "sleep" THEN "woken" ELSE at[t]]
  /\ UNCHANGED <<cap, r_waiting, w_waiting, qudata, data, r_mu, w_mu, made, history>>

-----------------------------------------------------------------------------
(* send *)

SendOk(s) == sent' = sent \cup {Value(s)} /\ UNCHANGED <<failed, got>>
SendFailed(s) == failed' = failed \cup {Value(s)} /\ UNCHANGED <<sent, got>>

\* The flag is looked at without the lock first.
Send(s) ==
  /\ at[s] = "out" /\ made[s] < MaxSend
  /\ made' = [made EXCEPT ![s] = @ + 1]
  /\ IF closed THEN failed' = failed \cup {<<s, made[s] + 1>>} /\ UNCHANGED <<sent, got, at>>
     ELSE Goto(s, "enter") /\ UNCHANGED history
  /\ UNCHANGED <<cap, closed, r_waiting, w_waiting, qudata, data, r_mu, w_mu>>

\* Inside the lock, to look or to look again: was counts what it counted itself.
Inside(t, was) ==
  \/ at[t] = "enter" /\ was = 0
  \/ at[t] = "woken" /\ was = 1

BufferedRefused(s) ==
  /\ Buffered /\ closed
  /\ \E was \in 0 .. 1 : Inside(s, was) /\ w_waiting' = w_waiting - was
  /\ SendFailed(s) /\ Goto(s, "out")
  /\ UNCHANGED <<cap, closed, r_waiting, qudata, data, r_mu, w_mu, made>>

BufferedFull(s) ==
  /\ Buffered /\ ~closed /\ Full
  /\ \E was \in 0 .. 1 : Inside(s, was) /\ w_waiting' = w_waiting + 1 - was
  /\ Goto(s, "sleep")
  /\ UNCHANGED <<cap, closed, r_waiting, qudata, data, r_mu, w_mu, made, history>>

\* Mutant: a signal only when the queue was empty.
BufferedPush_ifEmpty(s) ==
  /\ Buffered /\ ~closed /\ ~Full
  /\ \E was \in 0 .. 1 : Inside(s, was) /\ w_waiting' = w_waiting - was
  /\ qudata' = Append(qudata, Value(s))
  /\ SendOk(s)
  /\ Goto(s, IF qudata = <<>> THEN "signal" ELSE "out")
  /\ UNCHANGED <<cap, closed, r_waiting, data, r_mu, w_mu, made>>

\* Whether to signal is read under the lock, the signal comes after it.
BufferedPush(s) ==
  /\ Buffered /\ ~closed /\ ~Full
  /\ \E was \in 0 .. 1 : Inside(s, was) /\ w_waiting' = w_waiting - was
  /\ qudata' = Append(qudata, Value(s))
  /\ SendOk(s)
  /\ Goto(s, IF r_waiting > 0 THEN "signal" ELSE "out")
  /\ UNCHANGED <<cap, closed, r_waiting, data, r_mu, w_mu, made>>

SendSignal(s) ==
  /\ at[s] = "signal"
  /\ GotoSignal(s, "out", Receivers)
  /\ UNCHANGED <<cap, closed, r_waiting, w_waiting, qudata, data, r_mu, w_mu, made, history>>

\* One sender at a time puts its value and waits.
HandRefused(s) ==
  /\ ~Buffered /\ at[s] = "enter" /\ w_mu = Nobody /\ closed
  /\ SendFailed(s) /\ Goto(s, "out")
  /\ UNCHANGED <<cap, closed, r_waiting, w_waiting, qudata, data, r_mu, w_mu, made>>

HandPut(s) ==
  /\ ~Buffered /\ at[s] = "enter" /\ w_mu = Nobody /\ ~closed
  /\ w_mu' = s
  /\ data' = Value(s)
  /\ w_waiting' = w_waiting + 1
  /\ IF r_waiting > 0 THEN GotoSignal(s, "sleep", Receivers) ELSE Goto(s, "sleep")
  /\ UNCHANGED <<cap, closed, r_waiting, qudata, r_mu, made, history>>

\* The count is zero again: a receiver has taken the value.
HandTaken(s) ==
  /\ ~Buffered /\ at[s] = "woken" /\ w_waiting = 0
  /\ w_mu' = Nobody
  /\ SendOk(s) /\ Goto(s, "out")
  /\ UNCHANGED <<cap, closed, r_waiting, w_waiting, qudata, data, r_mu, made>>

\* Mutant: the value stays offered.
HandWithdraw_offered(s) ==
  /\ ~Buffered /\ at[s] = "woken" /\ w_waiting > 0 /\ closed /\ r_waiting = 0
  /\ w_mu' = Nobody
  /\ SendFailed(s) /\ Goto(s, "out")
  /\ UNCHANGED <<cap, closed, r_waiting, w_waiting, qudata, data, r_mu, made>>

\* Closed, and no receiver waits that might still take the value: it is withdrawn.
HandWithdraw(s) ==
  /\ ~Buffered /\ at[s] = "woken" /\ w_waiting > 0 /\ closed /\ r_waiting = 0
  /\ w_waiting' = w_waiting - 1
  /\ w_mu' = Nobody
  /\ SendFailed(s) /\ Goto(s, "out")
  /\ UNCHANGED <<cap, closed, r_waiting, qudata, data, r_mu, made>>

HandWait(s) ==
  /\ ~Buffered /\ at[s] = "woken" /\ w_waiting > 0 /\ ~(closed /\ r_waiting = 0)
  /\ Goto(s, "sleep")
  /\ UNCHANGED <<cap, closed, r_waiting, w_waiting, qudata, data, r_mu, w_mu, made, history>>

-----------------------------------------------------------------------------
(* recv *)

Recv(r) ==
  /\ at[r] = "out" /\ Len(got) + Cardinality(failed) < MaxSend * Cardinality(Senders)
  /\ Goto(r, "enter")
  /\ UNCHANGED <<cap, closed, r_waiting, w_waiting, qudata, data, r_mu, w_mu, made, history>>

\* What is left in the queue of a closed channel is still received.
BufferedPop(r) ==
  /\ Buffered /\ qudata # <<>>
  /\ \E was \in 0 .. 1 : Inside(r, was) /\ r_waiting' = r_waiting - was
  /\ qudata' = Tail(qudata)
  /\ got' = Append(got, Head(qudata))
  /\ Goto(r, IF w_waiting > 0 THEN "signal" ELSE "out")
  /\ UNCHANGED <<cap, closed, w_waiting, data, r_mu, w_mu, made, sent, failed>>

BufferedEmpty(r) ==
  /\ Buffered /\ qudata = <<>>
  /\ \E was \in 0 .. 1 :
       /\ Inside(r, was)
       /\ IF closed THEN r_waiting' = r_waiting - was /\ Goto(r, "out")
          ELSE r_waiting' = r_waiting + 1 - was /\ Goto(r, "sleep")
  /\ UNCHANGED <<cap, closed, w_waiting, qudata, data, r_mu, w_mu, made, history>>

RecvSignal(r) ==
  /\ at[r] = "signal"
  /\ r_mu' = IF Buffered THEN r_mu ELSE Nobody
  /\ GotoSignal(r, "out", Senders)
  /\ UNCHANGED <<cap, closed, r_waiting, w_waiting, qudata, data, w_mu, made, history>>

\* One receiver at a time, which keeps r_mu while it sleeps.
Alone(r) == ~Buffered /\ r_mu = (IF at[r] = "woken" THEN r ELSE Nobody)

HandWaitFor(r) ==
  /\ Alone(r) /\ ~closed /\ w_waiting = 0
  /\ \E was \in 0 .. 1 : Inside(r, was) /\ r_waiting' = r_waiting + 1 - was
  /\ r_mu' = r
  /\ Goto(r, "sleep")
  /\ UNCHANGED <<cap, closed, w_waiting, qudata, data, w_mu, made, history>>

HandNothing(r) ==
  /\ Alone(r) /\ closed /\ w_waiting = 0
  /\ \E was \in 0 .. 1 : Inside(r, was) /\ r_waiting' = r_waiting - was
  /\ r_mu' = Nobody
  /\ Goto(r, "out")
  /\ UNCHANGED <<cap, closed, w_waiting, qudata, data, w_mu, made, history>>

HandTake(r) ==
  /\ Alone(r) /\ w_waiting > 0
  /\ \E was \in 0 .. 1 : Inside(r, was) /\ r_waiting' = r_waiting - was
  /\ r_mu' = r
  /\ got' = Append(got, data)
  /\ w_waiting' = w_waiting - 1
  /\ Goto(r, "signal")
  /\ UNCHANGED <<cap, closed, qudata, data, w_mu, made, sent, failed>>

-----------------------------------------------------------------------------
Sends(s) ==
  \/ Send(s) \/ BufferedRefused(s) \/ BufferedFull(s) \/ BufferedPush(s) \/ SendSignal(s)
  \/ HandRefused(s) \/ HandPut(s) \/ HandTaken(s) \/ HandWithdraw(s) \/ HandWait(s)
Receives(r) ==
  \/ Recv(r) \/ BufferedPop(r) \/ BufferedEmpty(r) \/ RecvSignal(r)
  \/ HandWaitFor(r) \/ HandNothing(r) \/ HandTake(r)

Next ==
  \/ \E s \in Senders : Sends(s)
  \/ \E r \in Receivers : Receives(r)
  \/ \E t \in Senders \cup Receivers : Spurious(t)
  \/ Close

Spec == Init /\ [][Next]_vars

-----------------------------------------------------------------------------
Values == Senders \X (1 .. MaxSend)

\* Every variable stays in its type.
TypeOK ==
  /\ cap \in Caps /\ closed \in BOOLEAN /\ r_waiting \in Nat /\ w_waiting \in Nat
  /\ qudata \in Seq(Values) /\ Len(qudata) <= cap /\ data \in Values \cup {<<>>}
  /\ r_mu \in Receivers \cup {Nobody} /\ w_mu \in Senders \cup {Nobody}
  /\ at \in [Senders \cup Receivers -> {"out", "enter", "sleep", "woken", "signal"}]
  /\ made \in [Senders -> 0 .. MaxSend]
  /\ sent \subseteq Values /\ failed \subseteq Values /\ got \in Seq(Values)

\* A send tells the truth: the value of one that failed, which its caller frees, is
\* never received, not even by a receiver that the close found waiting; that of one
\* that succeeded is received once, or still in the queue; and each sender's values
\* come in their order (chan.h).
SendsAreTrue ==
  LET here == {qudata[i] : i \in DOMAIN qudata}
      came == {got[i] : i \in DOMAIN got}
  IN  /\ failed \cap (here \cup came) = {} /\ sent \cap failed = {}
      /\ sent \subseteq here \cup came
      /\ Cardinality(came) = Len(got)
      /\ \A i, j \in DOMAIN got : i < j /\ got[i][1] = got[j][1] => got[i][2] < got[j][2]

\* No wake-up is lost: when every thread sleeps or is outside, a receiver sleeps only
\* while there is nothing to receive, a sender only while there is no room, or nobody
\* to take its value; and nobody sleeps in a closed channel.
NobodyForgotten ==
  (\A t \in DOMAIN at : at[t] \in {"sleep", "out"}) =>
    /\ Asleep(Receivers) # {} => ~closed /\ qudata = <<>> /\ Asleep(Senders) = {}
    /\ Asleep(Senders) # {} => ~closed /\ Full
=============================================================================
