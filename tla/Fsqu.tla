-------------------------------- MODULE Fsqu --------------------------------
(***************************************************************************)
(* The queue every hot path of srey uses, lib/containers/fsqu.h: a bounded *)
(* lock-free ring (a ClaimQueue) that spills into an unbounded queue under *)
(* a spin lock when it is full.  The counter novf, read without the lock,  *)
(* sends producers to the spill queue as long as it holds anything.        *)
(***************************************************************************)
EXTENDS Integers, Sequences, FiniteSets

CONSTANTS
  Producers, Consumers, Observers,
  FastCap,   \* capacity of the ring
  MaxPush,   \* bound: elements of each producer
  MaxBatch,  \* bound: the largest push_batch
  MaxWant,   \* bound: the largest pop_batch
  Uses,      \* the sets of consumers that may share the queue
  Free       \* the lock is not held

Threads == Producers \cup Consumers \cup Observers

\* What an instance gives the constants.
FsquAssumption ==
  /\ Producers \cap Consumers = {} /\ Observers \cap (Producers \cup Consumers) = {}
  /\ Free \notin Threads
  /\ FastCap \in Nat \ {0} /\ MaxPush \in Nat
  /\ MaxBatch \in Nat \ {0} /\ MaxWant \in Nat \ {0}
  /\ Uses \subseteq SUBSET Consumers /\ \A U \in Uses : IsFiniteSet(U)

VARIABLES
  fast,   \* the ring: cells [by, n, ready]
  qu,     \* the spill queue: elements [by, n]
  novf,   \* elements in the spill queue, or about to be
  lck,    \* the thread that holds the spin lock, or Free
  pc,     \* thread -> where it is
  todo,   \* producer -> elements of its batch it still has to place
  want,   \* consumer -> elements it still wants
  fastrtn,\* consumer -> what the ring last answered
  mark,   \* observer -> producer -> pushes completed when it began to look (history)
  sent,   \* producer -> elements placed so far (history)
  done,   \* producer -> elements of completed pushes (history)
  last    \* producer -> number of its last element taken out (history)

vars == <<fast, qu, novf, lck, pc, todo, want, fastrtn, mark, sent, done, last>>
spill == <<qu, novf, lck>>
takers == <<want, fastrtn>>

\* One consumer uses pop_sc and pop_sc_batch, several use pop and pop_batch.
\* The initial states choose who uses the queue, the others stay "off".
Single == Cardinality({c \in Consumers : pc[c] # "off"}) = 1
Goto(th, l) == pc' = [pc EXCEPT ![th] = l]

Init ==
  /\ fast = <<>> /\ qu = <<>> /\ novf = 0 /\ lck = Free
  /\ \E U \in Uses : pc = [th \in Threads |-> IF th \in Consumers \ U THEN "off" ELSE "idle"]
  /\ todo = [p \in Producers |-> 0]
  /\ want = [c \in Consumers |-> 0]
  /\ fastrtn = [c \in Consumers |-> "ok"]
  /\ mark = [o \in Observers |-> [p \in Producers |-> 0]]
  /\ sent = [p \in Producers |-> 0]
  /\ done = [p \in Producers |-> 0]
  /\ last = [p \in Producers |-> 0]

-----------------------------------------------------------------------------
(* push, push_batch, trypush *)

\* push is push_batch of one.  novf is read once, before the first element.
PushStart(p, n) ==
  /\ pc[p] = "idle" /\ sent[p] + n <= MaxPush
  /\ todo' = [todo EXCEPT ![p] = n]
  /\ Goto(p, IF novf = 0 THEN "fast" ELSE "lock")
  /\ UNCHANGED <<fast, spill, takers, mark, sent, done, last>>

TryStart(p) ==
  /\ pc[p] = "idle" /\ sent[p] < MaxPush
  /\ novf = 0
  /\ todo' = [todo EXCEPT ![p] = 1]
  /\ Goto(p, "try")
  /\ UNCHANGED <<fast, spill, takers, mark, sent, done, last>>

FastClaim(p) ==
  /\ pc[p] \in {"fast", "try"} /\ Len(fast) < FastCap
  /\ fast' = Append(fast, [by |-> p, n |-> sent[p] + 1, ready |-> FALSE])
  /\ sent' = [sent EXCEPT ![p] = @ + 1]
  /\ Goto(p, "publish")
  /\ UNCHANGED <<spill, todo, takers, mark, done, last>>

FastPublish(p) ==
  /\ pc[p] = "publish"
  /\ fast' = [i \in DOMAIN fast |-> IF fast[i].by = p THEN [fast[i] EXCEPT !.ready = TRUE] ELSE fast[i]]
  /\ todo' = [todo EXCEPT ![p] = @ - 1]
  /\ Goto(p, IF todo[p] = 1 THEN "idle" ELSE "fast")
  /\ done' = IF todo[p] = 1 THEN [done EXCEPT ![p] = sent[p]] ELSE done
  /\ UNCHANGED <<spill, takers, mark, sent, last>>

\* The ring refuses when it is full, or when a consumer inside a pop has not
\* given its slots back yet (Mpq!AnswersTrue).
Refuses == Len(fast) = FastCap \/ \E c \in Consumers : pc[c] \notin {"idle", "off"}

FastFull(p) ==
  /\ pc[p] = "fast" /\ Refuses
  /\ Goto(p, "lock")
  /\ UNCHANGED <<fast, spill, todo, takers, mark, sent, done, last>>

TryFails(p) ==
  /\ pc[p] = "try" /\ Refuses
  /\ todo' = [todo EXCEPT ![p] = 0]
  /\ Goto(p, "idle")
  /\ UNCHANGED <<fast, spill, takers, mark, sent, done, last>>

\* Under the lock novf is raised before the elements are queued.
PushLock(p) ==
  /\ pc[p] = "lock" /\ lck = Free
  /\ lck' = p
  /\ novf' = novf + todo[p]
  /\ Goto(p, "spill")
  /\ UNCHANGED <<fast, qu, todo, takers, mark, sent, done, last>>

PushSpill(p) ==
  /\ pc[p] = "spill"
  /\ qu' = qu \o [i \in 1 .. todo[p] |-> [by |-> p, n |-> sent[p] + i]]
  /\ sent' = [sent EXCEPT ![p] = @ + todo[p]]
  /\ done' = [done EXCEPT ![p] = sent[p] + todo[p]]
  /\ todo' = [todo EXCEPT ![p] = 0]
  /\ lck' = Free
  /\ Goto(p, "idle")
  /\ UNCHANGED <<fast, novf, takers, mark, last>>

Push(p) == \/ \E n \in 1 .. MaxBatch : PushStart(p, n)
           \/ TryStart(p) \/ FastClaim(p) \/ FastPublish(p) \/ FastFull(p) \/ TryFails(p)
           \/ PushLock(p) \/ PushSpill(p)

-----------------------------------------------------------------------------
(* pop, pop_batch and their single-consumer forms *)

PopStart(c, n) ==
  /\ pc[c] = "idle"
  /\ want' = [want EXCEPT ![c] = n]
  /\ fastrtn' = [fastrtn EXCEPT ![c] = "ok"]
  /\ Goto(c, "fast")
  /\ UNCHANGED <<fast, spill, todo, mark, sent, done, last>>

\* Taking from the ring, before the lock ("fast") or under it ("refast").
FastTake(c) ==
  /\ pc[c] \in {"fast", "refast"} /\ want[c] > 0
  /\ fast # <<>> /\ Head(fast).ready
  /\ last' = [last EXCEPT ![Head(fast).by] = Head(fast).n]
  /\ fast' = Tail(fast)
  /\ want' = [want EXCEPT ![c] = @ - 1]
  /\ UNCHANGED <<spill, pc, todo, fastrtn, mark, sent, done>>

\* The answers of a ring with nothing ready.  pop_sc_batch, which may want one
\* element only, says empty for either, and a pop that meets a claim between its
\* two looks says in flight.
Answers(c) ==
  IF pc[c] = "fast" /\ Single /\ want[c] > 1 THEN {"empty"}
  ELSE IF fast = <<>> \/ (pc[c] = "fast" /\ Single) THEN {"empty", "inflight"}
  ELSE {"inflight"}

FastStop(c) ==
  /\ pc[c] \in {"fast", "refast"}
  /\ \/ want[c] = 0 /\ UNCHANGED fastrtn
     \/ /\ want[c] > 0 /\ (fast # <<>> => ~Head(fast).ready)
        /\ \E r \in Answers(c) : fastrtn' = [fastrtn EXCEPT ![c] = r]
  /\ Goto(c, IF pc[c] = "fast" THEN "decide" ELSE "drain")
  /\ UNCHANGED <<fast, spill, todo, want, mark, sent, done, last>>

\* ovf_drain: the spill queue is needed, and an element in flight does not
\* forbid it.
Decide(c) ==
  /\ pc[c] = "decide"
  /\ Goto(c, IF want[c] = 0 \/ fastrtn[c] = "inflight" \/ novf = 0 THEN "idle" ELSE "lock")
  /\ UNCHANGED <<fast, spill, todo, takers, mark, sent, done, last>>

\* Mutant: the ring is not looked at again under the lock.
PopLock_blind(c) ==
  /\ pc[c] = "lock" /\ lck = Free
  /\ lck' = c
  /\ Goto(c, "drain")
  /\ UNCHANGED <<fast, qu, novf, todo, takers, mark, sent, done, last>>

PopLock(c) ==
  /\ pc[c] = "lock" /\ lck = Free
  /\ lck' = c
  /\ Goto(c, "refast")
  /\ UNCHANGED <<fast, qu, novf, todo, takers, mark, sent, done, last>>

Least(a, b) == IF a < b THEN a ELSE b
LastOf(p, s) == LET mine == {i \in DOMAIN s : s[i].by = p}
                IN  IF mine = {} THEN last[p] ELSE s[CHOOSE i \in mine : \A j \in mine : j <= i].n

Drain(c) ==
  /\ pc[c] = "drain" /\ want[c] > 0 /\ fastrtn[c] # "inflight"
  /\ LET m == Least(want[c], Len(qu))
     IN  /\ qu' = SubSeq(qu, m + 1, Len(qu))
         /\ last' = [p \in Producers |-> LastOf(p, SubSeq(qu, 1, m))]
         /\ want' = [want EXCEPT ![c] = m]
  /\ Goto(c, "count")
  /\ UNCHANGED <<fast, novf, lck, todo, fastrtn, mark, sent, done>>

DrainCount(c) ==
  /\ pc[c] = "count"
  /\ novf' = novf - want[c]
  /\ lck' = Free
  /\ Goto(c, "idle")
  /\ UNCHANGED <<fast, qu, todo, takers, mark, sent, done, last>>

DrainNot(c) ==
  /\ pc[c] = "drain" /\ (want[c] = 0 \/ fastrtn[c] = "inflight")
  /\ lck' = Free
  /\ Goto(c, "idle")
  /\ UNCHANGED <<fast, qu, novf, todo, takers, mark, sent, done, last>>

Pop(c) == \/ \E n \in 1 .. MaxWant : PopStart(c, n)
          \/ FastTake(c) \/ FastStop(c) \/ Decide(c) \/ PopLock(c)
          \/ Drain(c) \/ DrainCount(c) \/ DrainNot(c)

-----------------------------------------------------------------------------
(* empty: the ring first, then novf *)

LookFast(o) ==
  /\ pc[o] \in {"idle", "empty"}
  /\ mark' = [mark EXCEPT ![o] = done]
  /\ Goto(o, IF fast = <<>> THEN "look" ELSE "idle")
  /\ UNCHANGED <<fast, spill, todo, takers, sent, done, last>>

\* Mutant: the spill queue does not count.
LookNovf_ringOnly(o) ==
  /\ pc[o] = "look"
  /\ Goto(o, "empty")
  /\ UNCHANGED <<fast, spill, todo, takers, mark, sent, done, last>>

LookNovf(o) ==
  /\ pc[o] = "look"
  /\ Goto(o, IF novf = 0 THEN "empty" ELSE "idle")
  /\ UNCHANGED <<fast, spill, todo, takers, mark, sent, done, last>>

Next ==
  \/ \E p \in Producers : Push(p)
  \/ \E c \in Consumers : Pop(c)
  \/ \E o \in Observers : LookFast(o) \/ LookNovf(o)

Spec == Init /\ [][Next]_vars

-----------------------------------------------------------------------------
Numbers == 0 .. MaxPush

\* Every variable stays in its type; the count covers the spill queue.
TypeOK ==
  /\ fast \in Seq([by : Producers, n : Numbers, ready : BOOLEAN]) /\ Len(fast) <= FastCap
  /\ qu \in Seq([by : Producers, n : Numbers])
  /\ novf \in Nat /\ novf >= Len(qu)
  /\ lck \in Threads \cup {Free}
  /\ pc \in [Threads -> {"off", "idle", "fast", "try", "publish", "lock", "spill", "decide", "refast",
                         "drain", "count", "look", "empty"}]
  /\ todo \in [Producers -> 0 .. MaxBatch]
  /\ want \in [Consumers -> 0 .. MaxWant]
  /\ fastrtn \in [Consumers -> {"ok", "empty", "inflight"}]
  /\ mark \in [Observers -> [Producers -> Numbers]]
  /\ sent \in [Producers -> Numbers] /\ done \in [Producers -> Numbers]
  /\ last \in [Producers -> Numbers]

\* What is left of a producer's elements, ring first, is exactly the run of
\* numbers after the last one taken out: none is lost, none is taken twice, and
\* none overtakes an earlier one by going through the other of the two queues,
\* however the unlocked reads of novf interleave (fsqu.h:67-68, 109-111).
InOrder ==
  \A p \in Producers :
    LET rest == fast \o qu
        mine == {i \in DOMAIN rest : rest[i].by = p}
    IN  /\ {rest[i].n : i \in mine} = last[p] + 1 .. sent[p]
        /\ \A i, j \in mine : i < j => rest[i].n < rest[j].n

\* A queue reported empty has given out everything whose push had ended when the
\* look began.  A runner that clears its flag and finds the queue empty may go
\* (loader.c:236-244), a worker may sleep (fsqu.h:175-187).
EmptySound ==
  \A o \in Observers : pc[o] = "empty" => \A p \in Producers : mark[o][p] <= last[p]
=============================================================================
