-------------------------------- MODULE Mpq ---------------------------------
(***************************************************************************)
(* The bounded lock-free ring of lib/containers/mpq.h (a sequence number   *)
(* per slot), one action per shared access.  Counters and sequence numbers *)
(* are machine words: they wrap at Word (2^32 in the code).  A run starts  *)
(* with the counters at Start, the state after Start pushes and pops, so   *)
(* that a short run crosses the wrap.                                      *)
(*                                                                         *)
(* A queue is used by one consumer (pop_sc, pop_sc_batch) or by several    *)
(* (pop): the initial states choose who uses it, the others stay "off".    *)
(***************************************************************************)
EXTENDS Integers, Sequences, FiniteSets

CONSTANTS
  Producers, Consumers, Observers,
  Cap,       \* capacity, a power of two
  Word,      \* counters wrap at Word
  Start,     \* counters' first value
  MaxPush,   \* bound: pushes of each producer
  MaxBatch,  \* bound: the largest batch asked for
  Uses,      \* the sets of consumers that may share the queue
  None

\* What an instance gives the constants.
MpqAssumption ==
  /\ Producers \cap Consumers = {} /\ Observers \cap (Producers \cup Consumers) = {}
  /\ Cap \in Nat \ {0, 1} /\ Word \in Nat /\ Start \in 0 .. Word - 1
  /\ Word % Cap = 0 /\ Start % Cap = 0
  \* the run is shorter than a turn of the counters, and differences fit the sign
  /\ MaxPush \in Nat /\ IsFiniteSet(Producers)
  /\ 2 * (MaxPush * Cardinality(Producers) + Cap) < Word
  /\ Uses \subseteq SUBSET Consumers /\ \A U \in Uses : IsFiniteSet(U)
  /\ MaxBatch \in 1 .. Cap
  /\ None \notin Producers \X (1 .. MaxPush)

VARIABLES
  enq, deq,   \* the two counters
  sequence,   \* slot -> sequence number
  data,       \* slot -> the value stored there
  pc,         \* thread -> where it is
  pos,        \* thread -> its local copy of a counter
  want, k,    \* consumer -> batch asked for, cells it has copied
  freed,      \* consumer -> cells of the batch it has given back
  sent,       \* producer -> values pushed so far
  copied      \* position -> the value a consumer copied out of it (history)

vars == <<enq, deq, sequence, data, pc, pos, want, k, freed, sent, copied>>
counters == <<enq, deq>>
batch == <<want, k, freed>>

Threads == Producers \cup Consumers \cup Observers

\* One consumer uses pop_sc and pop_sc_batch, several use pop.
Single == Cardinality({c \in Consumers : pc[c] # "off"}) = 1
Value(p) == <<p, sent[p] + 1>>

Plus(a, b) == (a + b) % Word
Slot(a) == a % Cap

\* (int32_t)(a - b)
Diff(a, b) == LET d == (a - b + Word) % Word IN IF 2 * d < Word THEN d ELSE d - Word

SeqAt(a) == sequence[Slot(a)]
Goto(th, l) == pc' = [pc EXCEPT ![th] = l]

Init ==
  /\ enq = Start /\ deq = Start
  /\ sequence = [s \in 0 .. Cap - 1 |-> Plus(Start, s)]
  /\ data = [s \in 0 .. Cap - 1 |-> None]
  /\ \E U \in Uses : pc = [th \in Threads |-> IF th \in Consumers \ U THEN "off" ELSE "idle"]
  /\ pos = [th \in Threads |-> Start]
  /\ want = [c \in Consumers |-> 0]
  /\ k = [c \in Consumers |-> 0]
  /\ freed = [c \in Consumers |-> 0]
  /\ sent = [p \in Producers |-> 0]
  /\ copied = [a \in 0 .. Word - 1 |-> None]

-----------------------------------------------------------------------------
(* trypush *)

PushLoad(p) ==
  /\ pc[p] = "reload" \/ (pc[p] = "idle" /\ sent[p] < MaxPush)
  /\ pos' = [pos EXCEPT ![p] = enq]
  /\ Goto(p, "seq")
  /\ UNCHANGED <<counters, sequence, data, batch, sent, copied>>

\* The slot is free for this turn, still in use from the last turn (the queue
\* is full), or already claimed by another producer.
PushSeq(p) ==
  /\ pc[p] = "seq"
  /\ LET d == Diff(SeqAt(pos[p]), pos[p])
     IN  Goto(p, IF d = 0 THEN "cas" ELSE IF d < 0 THEN "full" ELSE "reload")
  /\ UNCHANGED <<counters, sequence, data, pos, batch, sent, copied>>

PushFull(p) ==
  /\ pc[p] = "full"
  /\ Goto(p, "idle")
  /\ UNCHANGED <<counters, sequence, data, pos, batch, sent, copied>>

PushClaim(p) ==
  /\ pc[p] = "cas" /\ enq = pos[p]
  /\ enq' = Plus(enq, 1)
  /\ Goto(p, "write")
  /\ UNCHANGED <<deq, sequence, data, pos, batch, sent, copied>>

PushLost(p) ==
  /\ pc[p] = "cas" /\ enq # pos[p]
  /\ Goto(p, "reload")
  /\ UNCHANGED <<counters, sequence, data, pos, batch, sent, copied>>

\* Mutant: the slot is published before its data is written.
PushWrite_published(p) ==
  /\ pc[p] = "write"
  /\ sequence' = [sequence EXCEPT ![Slot(pos[p])] = Plus(pos[p], 1)]
  /\ Goto(p, "publish")
  /\ UNCHANGED <<counters, data, pos, batch, sent, copied>>

PushWrite(p) ==
  /\ pc[p] = "write"
  /\ data' = [data EXCEPT ![Slot(pos[p])] = Value(p)]
  /\ Goto(p, "publish")
  /\ UNCHANGED <<counters, sequence, pos, batch, sent, copied>>

PushPublish(p) ==
  /\ pc[p] = "publish"
  /\ sequence' = [sequence EXCEPT ![Slot(pos[p])] = Plus(pos[p], 1)]
  /\ sent' = [sent EXCEPT ![p] = @ + 1]
  /\ Goto(p, "idle")
  /\ UNCHANGED <<counters, data, pos, batch, copied>>

Push(p) == PushLoad(p) \/ PushSeq(p) \/ PushFull(p) \/ PushClaim(p) \/ PushLost(p)
           \/ PushWrite(p) \/ PushPublish(p)

-----------------------------------------------------------------------------
(* pop: several consumers, and pop_sc: one *)

PopLoad(c) ==
  /\ pc[c] \in {"idle", "reload"}
  /\ pos' = [pos EXCEPT ![c] = deq]
  /\ Goto(c, "seq")
  /\ UNCHANGED <<counters, sequence, data, batch, sent, copied>>

PopSeq(c) ==
  /\ pc[c] = "seq"
  /\ LET d == Diff(SeqAt(pos[c]), Plus(pos[c], 1))
     IN  Goto(c, IF d = 0 THEN IF Single THEN "copy" ELSE "cas"
                 ELSE IF d < 0 THEN "why" ELSE "reload")
  /\ UNCHANGED <<counters, sequence, data, pos, batch, sent, copied>>

\* Nothing to take: is a cell claimed and not published yet, or none at all?
PopWhy(c) ==
  /\ pc[c] = "why"
  /\ Goto(c, IF enq # pos[c] THEN "inflight" ELSE "empty")
  /\ UNCHANGED <<counters, sequence, data, pos, batch, sent, copied>>

PopClaim(c) ==
  /\ pc[c] = "cas" /\ deq = pos[c]
  /\ deq' = Plus(deq, 1)
  /\ Goto(c, "copy")
  /\ UNCHANGED <<enq, sequence, data, pos, batch, sent, copied>>

PopLost(c) ==
  /\ pc[c] = "cas" /\ deq # pos[c]
  /\ Goto(c, "reload")
  /\ UNCHANGED <<counters, sequence, data, pos, batch, sent, copied>>

PopCopy(c) ==
  /\ pc[c] = "copy"
  /\ copied' = [copied EXCEPT ![pos[c]] = data[Slot(pos[c])]]
  /\ Goto(c, IF Single THEN "advance" ELSE "free")
  /\ UNCHANGED <<counters, sequence, data, pos, batch, sent>>

\* pop_sc moves deq by a plain store, and gives the slot back after it.
PopAdvance(c) ==
  /\ pc[c] = "advance"
  /\ deq' = Plus(pos[c], 1)
  /\ Goto(c, "free")
  /\ UNCHANGED <<enq, sequence, data, pos, batch, sent, copied>>

PopFree(c) ==
  /\ pc[c] = "free"
  /\ sequence' = [sequence EXCEPT ![Slot(pos[c])] = Plus(pos[c], Cap)]
  /\ Goto(c, "idle")
  /\ UNCHANGED <<counters, data, pos, batch, sent, copied>>

Returned(th) ==
  /\ pc[th] \in {"inflight", "empty"}
  /\ Goto(th, "idle")
  /\ UNCHANGED <<counters, sequence, data, pos, batch, sent, copied>>

Pop(c) == PopLoad(c) \/ PopSeq(c) \/ PopWhy(c) \/ PopClaim(c) \/ PopLost(c)
          \/ PopCopy(c) \/ PopAdvance(c) \/ PopFree(c) \/ Returned(c)

-----------------------------------------------------------------------------
(* pop_sc_batch *)

BatchStart(c, w) ==
  /\ Single /\ pc[c] = "idle"
  /\ pos' = [pos EXCEPT ![c] = deq]
  /\ want' = [want EXCEPT ![c] = w]
  /\ k' = [k EXCEPT ![c] = 0]
  /\ freed' = [freed EXCEPT ![c] = 0]
  /\ Goto(c, "bseq")
  /\ UNCHANGED <<counters, sequence, data, sent, copied>>

BatchSeq(c) ==
  /\ pc[c] = "bseq"
  /\ LET a == Plus(pos[c], k[c])
     IN  Goto(c, IF k[c] < want[c] /\ SeqAt(a) = Plus(a, 1) THEN "bcopy" ELSE "bfree")
  /\ UNCHANGED <<counters, sequence, data, pos, batch, sent, copied>>

BatchCopy(c) ==
  /\ pc[c] = "bcopy"
  /\ LET a == Plus(pos[c], k[c]) IN copied' = [copied EXCEPT ![a] = data[Slot(a)]]
  /\ k' = [k EXCEPT ![c] = @ + 1]
  /\ Goto(c, "bseq")
  /\ UNCHANGED <<counters, sequence, data, pos, want, freed, sent>>

\* All slots of the batch are given back, then deq moves once.
BatchFree(c) ==
  /\ pc[c] = "bfree" /\ freed[c] < k[c]
  /\ LET a == Plus(pos[c], freed[c])
     IN  sequence' = [sequence EXCEPT ![Slot(a)] = Plus(a, Cap)]
  /\ freed' = [freed EXCEPT ![c] = @ + 1]
  /\ UNCHANGED <<counters, data, pc, pos, want, k, sent, copied>>

BatchAdvance(c) ==
  /\ pc[c] = "bfree" /\ freed[c] >= k[c]
  /\ deq' = IF k[c] = 0 THEN deq ELSE Plus(pos[c], k[c])
  /\ Goto(c, "idle")
  /\ UNCHANGED <<enq, sequence, data, pos, batch, sent, copied>>

PopBatch(c) == \/ \E w \in 1 .. MaxBatch : BatchStart(c, w)
               \/ BatchSeq(c) \/ BatchCopy(c) \/ BatchFree(c) \/ BatchAdvance(c)

-----------------------------------------------------------------------------
(* size and empty, from any thread: deq is read before enq *)

\* Mutant: the counters are read the other way round.
LookDeq_enqFirst(o) ==
  /\ pc[o] = "idle"
  /\ pos' = [pos EXCEPT ![o] = enq]
  /\ Goto(o, "look")
  /\ UNCHANGED <<counters, sequence, data, batch, sent, copied>>

LookDeq(o) ==
  /\ pc[o] = "idle"
  /\ pos' = [pos EXCEPT ![o] = deq]
  /\ Goto(o, "look")
  /\ UNCHANGED <<counters, sequence, data, batch, sent, copied>>

LookEnq(o) ==
  /\ pc[o] = "look"
  /\ Goto(o, IF enq = pos[o] THEN "empty" ELSE "inflight")
  /\ UNCHANGED <<counters, sequence, data, pos, batch, sent, copied>>

Look(o) == LookDeq(o) \/ LookEnq(o) \/ Returned(o)

-----------------------------------------------------------------------------
Next ==
  \/ \E p \in Producers : Push(p)
  \/ \E c \in Consumers : Pop(c) \/ PopBatch(c)
  \/ \E o \in Observers : Look(o)

Spec == Init /\ [][Next]_vars

-----------------------------------------------------------------------------
Words == 0 .. Word - 1

\* Every variable stays in its type.
TypeOK ==
  /\ enq \in Words /\ deq \in Words
  /\ sequence \in [0 .. Cap - 1 -> Words]
  /\ data \in [0 .. Cap - 1 -> (Producers \X (1 .. MaxPush)) \cup {None}]
  /\ pc \in [Threads -> {"off", "idle", "reload", "seq", "full", "cas", "write", "publish", "copy",
                         "advance", "free", "why", "inflight", "empty", "look",
                         "bseq", "bcopy", "bfree"}]
  /\ pos \in [Threads -> Words]
  /\ want \in [Consumers -> 0 .. MaxBatch] /\ k \in [Consumers -> 0 .. MaxBatch]
  /\ freed \in [Consumers -> 0 .. MaxBatch]
  /\ sent \in [Producers -> 0 .. MaxPush]
  /\ copied \in [Words -> (Producers \X (1 .. MaxPush)) \cup {None}]

\* The oldest position not taken yet.  A batch is taken when its reader stops,
\* although deq moves later.
Front == LET stopped == {c \in Consumers : pc[c] = "bfree"}
        IN  IF stopped = {} THEN deq
            ELSE LET c == CHOOSE c \in stopped : TRUE IN Plus(pos[c], k[c])

Length == Diff(enq, Front)

\* The value claimed for position a: with its producer until it is written.
ValueAt(a) ==
  LET writers == {p \in Producers : pc[p] \in {"write", "publish"} /\ pos[p] = a}
  IN  IF writers = {} THEN data[Slot(a)] ELSE Value(CHOOSE p \in writers : TRUE)

\* Positions taken out so far, and what came (or will come) out of each.
Taken == [i \in 1 .. Diff(Front, Start) |->
            LET a == Plus(Start, i - 1)
            IN  IF copied[a] = None THEN data[Slot(a)] ELSE copied[a]]

\* The cells claimed and not taken, oldest first.
Cells == [i \in 1 .. Length |->
            LET a == Plus(Front, i - 1)
            IN  [val |-> ValueAt(a), ready |-> SeqAt(a) = Plus(a, 1)]]

Q == INSTANCE ClaimQueue WITH
       Values <- Producers \X (1 .. MaxPush), Capacity <- Cap, q <- Cells, taken <- Taken

\* The ring is a ClaimQueue: first claimed first out, nothing lost, duplicated or
\* read before it is published or after its slot is reused (mpq.h:11-13).
ImplementsClaimQueue == Q!Spec

\* The two answers a caller acts on are true when they are given.  A queue that is
\* reported empty holds nothing at that moment, not even a cell that is claimed
\* only: the sleeping and releasing protocols of the scheduler stand on this
\* (mpq.h:70-83, 112-128).  A push is refused only while the slot whose turn it is
\* has not been given back, however stale the producer's copy of enq (mpq.h:84-85,
\* 101-105); with several consumers one slow copy can refuse pushes to an otherwise
\* empty ring.
AnswersTrue ==
  [][/\ \A th \in Consumers \cup Observers : pc[th] # "empty" /\ pc'[th] = "empty" => Length = 0
     /\ \A p \in Producers : pc[p] # "full" /\ pc'[p] = "full" => SeqAt(enq) # enq]_vars
=============================================================================
