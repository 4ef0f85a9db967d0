------------------------------ MODULE Mailbox ------------------------------
(***************************************************************************)
(* What the scheduler promises a task: its handlers run one at a time, and *)
(* every message a thread posts to it is handled exactly once, in the      *)
(* order that thread posted.  Nothing is promised between two threads.     *)
(***************************************************************************)
EXTENDS Naturals

CONSTANTS Tasks, Threads, None

VARIABLES
  sent,    \* thread -> task -> messages posted so far
  last,    \* task -> thread -> messages handled so far
  runner   \* task -> the thread running its handlers, or None

mvars == <<sent, last, runner>>

Init ==
  /\ sent = [th \in Threads |-> [t \in Tasks |-> 0]]
  /\ last = [t \in Tasks |-> [th \in Threads |-> 0]]
  /\ runner = [t \in Tasks |-> None]

Post(th, t) ==
  /\ sent' = [sent EXCEPT ![th][t] = @ + 1]
  /\ UNCHANGED <<last, runner>>

Start(th, t) ==
  /\ runner[t] = None
  /\ \A u \in Tasks : runner[u] # th
  /\ runner' = [runner EXCEPT ![t] = th]
  /\ UNCHANGED <<sent, last>>

\* A thread that dispatches a message at once posts it and becomes the runner.
PostAndStart(th, t) ==
  /\ runner[t] = None
  /\ \A u \in Tasks : runner[u] # th
  /\ runner' = [runner EXCEPT ![t] = th]
  /\ sent' = [sent EXCEPT ![th][t] = @ + 1]
  /\ UNCHANGED last

Handle(t, from) ==
  /\ runner[t] # None
  /\ last[t][from] < sent[from][t]
  /\ last' = [last EXCEPT ![t][from] = @ + 1]
  /\ UNCHANGED <<sent, runner>>

Stop(t) ==
  /\ runner[t] # None
  /\ runner' = [runner EXCEPT ![t] = None]
  /\ UNCHANGED <<sent, last>>

Next ==
  \E t \in Tasks :
    \/ \E th \in Threads :
         Post(th, t) \/ Start(th, t) \/ PostAndStart(th, t) \/ Handle(t, th)
    \/ Stop(t)

Spec == Init /\ [][Next]_mvars
=============================================================================
