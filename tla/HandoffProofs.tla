----------------------------- MODULE HandoffProofs -----------------------------
(***************************************************************************)
(* Proofs about what hands things from thread to thread: the channel (Chan,*)
(* in Handoff as C), the queue with a spill layer (Fsqu, in Handoff as F)  *)
(* and the timing wheel (TimeWheel), for any number of threads and timers, *)
(* any capacity and all widths of the levels.                              *)
(*                                                                         *)
(* The channel.  Two independent invariants.  Waits counts the threads     *)
(* asleep, woken and about to signal, on each side: while one sleeps there *)
(* is somebody awake for each value it could take, or each free place, so  *)
(* when nobody is awake nobody could go on.  Fates follows the values: one *)
(* whose send is under way has no fate yet, one that failed was never      *)
(* queued nor received, one that was sent is queued until it is received,  *)
(* and each sender's come in the order of their numbers.                   *)
(*                                                                         *)
(* The queue.  Who passes by the spill queue has nothing of its own there, *)
(* and who brings elements from it to the ring has found the ring empty;   *)
(* so that of each producer what is in the ring comes before what spilled. *)
(*                                                                         *)
(* The wheel.  A slot in use begins at a multiple of its level's unit that *)
(* is ahead, but less than a turn; its timers are owed within it.          *)
(***************************************************************************)
EXTENDS TimeWheel, Handoff, FiniteSetTheorems, SequenceTheorems,
        WellFoundedInduction, TLAPS

-----------------------------------------------------------------------------
(* The threads in each place, counted *)

Ends == Senders \cup Receivers
Stations == {"out", "enter", "sleep", "woken", "signal"}

\* How many of T are in place p.
In(T, p) == Cardinality({t \in T : c_at[t] = p})

RSleep == In(Receivers, "sleep")
RWoken == In(Receivers, "woken")
RSignal == In(Receivers, "signal")
SSleep == In(Senders, "sleep")
SWoken == In(Senders, "woken")
SSignal == In(Senders, "signal")

\* What is known of the counts with a capacity: those that wait are asleep or woken;
\* while one sleeps, somebody is awake for each value there is, or for each free place.
BufferedWaits ==
  /\ w_waiting = SSleep + SWoken
  /\ RSleep > 0 => Len(qudata) <= RWoken + SSignal
  /\ SSleep > 0 => cap <= Len(qudata) + SWoken + RSignal
  /\ closed => RSleep = 0 /\ SSleep = 0

\* Without one: a receiver and a sender are inside at most, and whoever sleeps has
\* somebody awake on the other side as soon as it could go on.
HandWaits ==
  /\ RSleep + RWoken + RSignal
       = IF r_mu = Free THEN 0 ELSE 1
  /\ SSleep + SWoken = IF w_mu = Free THEN 0 ELSE 1
  /\ SSignal = 0
  /\ w_waiting <= SSleep + SWoken
  /\ RSleep > 0 => w_waiting = 0 /\ ~closed
  /\ SSleep > 0 /\ w_waiting = 0 => RSignal > 0
  /\ SSleep > 0 /\ closed => RWoken + RSignal > 0

Waits ==
  /\ r_waiting = RSleep + RWoken
  /\ IF C!Buffered THEN BufferedWaits ELSE HandWaits

-----------------------------------------------------------------------------
(* The values *)

Elems(q) == {q[i] : i \in DOMAIN q}
Here == Elems(qudata)
Came == Elems(got)

\* A value is known only after its send began.
Known == returned \cup failed \cup Here \cup Came
Numbered == \A v \in Known : v[2] <= made[v[1]]

Pending(s) == c_at[s] \in {"enter", "sleep", "woken"}

\* The value of a send under way has no fate yet, except that it may be taken by hand.
Fresh ==
  \A s \in Senders : Pending(s) =>
    /\ made[s] >= 1 /\ C!Value(s) \notin returned \cup failed \cup Here
    /\ C!Buffered \/ c_at[s] = "enter" => C!Value(s) \notin Came

\* The sender inside holds w_mu until its value is taken or withdrawn.
Offer ==
  ~C!Buffered =>
    /\ \A s \in Senders : w_mu = s <=> c_at[s] \in {"sleep", "woken"}
    /\ w_waiting > 0 => w_mu \in Senders /\ data = C!Value(w_mu) /\ C!Value(w_mu) \notin Came
    /\ w_waiting = 0 /\ w_mu \in Senders => C!Value(w_mu) \in Came

Apart == failed \cap (Here \cup Came) = {} /\ returned \cap failed = {}
Kept == returned \subseteq Here \cup Came

Before(v, w) == v[1] = w[1] => v[2] < w[2]
Ordered(q) == \A i, j \in DOMAIN q : i < j => Before(q[i], q[j])
InSequence ==
  /\ Ordered(got) /\ Ordered(qudata)
  /\ \A v \in Came, w \in Here : Before(v, w)

Fates == Numbered /\ Fresh /\ Offer /\ Apart /\ Kept /\ InSequence
ChanInv == C!TypeOK /\ Waits /\ Fates

-----------------------------------------------------------------------------
(* How the counts change *)

\* The instance has its own name for the size of a set.
LEMMA SameFinite == \A S : C!IsFiniteSet(S) = IsFiniteSet(S) /\ C!Cardinality(S) = Cardinality(S)
BY DEF C!IsFiniteSet, IsFiniteSet, C!Cardinality, Cardinality

Is(a, p) == IF a = p THEN 1 ELSE 0

Has(t, S) == IF t \in S THEN 1 ELSE 0

\* Two sets that differ in one element at most.
LEMMA OneApart ==
  ASSUME NEW X, IsFiniteSet(X), NEW Y, NEW t, X \ {t} = Y \ {t}
  PROVE  /\ Cardinality(X) \in Nat /\ Cardinality(X) >= Has(t, X)
         /\ Cardinality(Y) = Cardinality(X) - Has(t, X) + Has(t, Y)
<1> DEFINE A == X \ {t}
<1>1. IsFiniteSet(A) /\ t \notin A BY FS_Subset
<1>2. Cardinality(A) \in Nat /\ Cardinality(A \cup {t}) = Cardinality(A) + 1
  BY <1>1, FS_AddElement, FS_CardinalityType
<1>3. X = (IF t \in X THEN A \cup {t} ELSE A) /\ Y = (IF t \in Y THEN A \cup {t} ELSE A)
  OBVIOUS
<1>4. /\ Cardinality(X) = IF t \in X THEN Cardinality(A \cup {t}) ELSE Cardinality(A)
      /\ Cardinality(Y) = IF t \in Y THEN Cardinality(A \cup {t}) ELSE Cardinality(A)
  BY <1>3, Zenon
<1> HIDE DEF A
<1>5. Cardinality(X) = Cardinality(A) + Has(t, X) BY <1>2, <1>4 DEF Has
<1>6. Cardinality(Y) = Cardinality(A) + Has(t, Y) BY <1>2, <1>4 DEF Has
<1>7. Has(t, X) \in 0 .. 1 /\ Has(t, Y) \in 0 .. 1 BY DEF Has
<1> QED BY <1>2, <1>5, <1>6, <1>7

\* When one thread changes its place, the count of a place loses it or gains it.
LEMMA OneMoves ==
  ASSUME NEW T, IsFiniteSet(T), NEW t \in T, \A x \in T \ {t} : c_at'[x] = c_at[x], NEW p
  PROVE  /\ In(T, p) \in Nat /\ In(T, p) >= Is(c_at[t], p)
         /\ In(T, p)' = In(T, p) - Is(c_at[t], p) + Is(c_at'[t], p)
<1> DEFINE X == {x \in T : c_at[x] = p}
           Y == {x \in T : c_at'[x] = p}
<1>1. IsFiniteSet(X) BY FS_Subset
<1>2. X \ {t} = Y \ {t} OBVIOUS
<1>3. Has(t, X) = Is(c_at[t], p) /\ Has(t, Y) = Is(c_at'[t], p) BY DEF Has, Is
<1>4. In(T, p) = Cardinality(X) /\ In(T, p)' = Cardinality(Y) BY DEF In
<1> HIDE DEF X, Y
<1>5. /\ Cardinality(X) \in Nat /\ Cardinality(X) >= Has(t, X)
      /\ Cardinality(Y) = Cardinality(X) - Has(t, X) + Has(t, Y)
  BY <1>1, <1>2, OneApart
<1> QED BY <1>3, <1>4, <1>5

\* The counts of one side change with the place of one of its threads.
LEMMA SideMoves ==
  ASSUME NEW T, T \subseteq Ends, IsFiniteSet(T), c_at \in [Ends -> Stations],
         NEW t \in T, NEW a, C!Goto(t, a)
  PROVE  \A p : /\ In(T, p) \in Nat /\ In(T, p) >= Is(c_at[t], p)
                /\ In(T, p)' = In(T, p) - Is(c_at[t], p) + Is(a, p)
<1> TAKE p
<1>1. c_at'[t] = a /\ \A x \in T \ {t} : c_at'[x] = c_at[x] BY DEF C!Goto
<1> QED BY <1>1, OneMoves

\* The counts of the other side stay.
LEMMA SideStays ==
  ASSUME NEW T, T \subseteq Ends, IsFiniteSet(T), \A x \in T : c_at'[x] = c_at[x]
  PROVE  \A p : In(T, p) \in Nat /\ In(T, p)' = In(T, p)
<1> TAKE p
<1>1. IsFiniteSet({x \in T : c_at[x] = p}) BY FS_Subset
<1>2. {x \in T : c_at'[x] = p} = {x \in T : c_at[x] = p} OBVIOUS
<1> QED BY <1>1, <1>2, FS_CardinalityType DEF In

\* Nobody of a side is asleep just when its count is zero.
LEMMA NobodyIn ==
  ASSUME NEW T, IsFiniteSet(T), NEW p
  PROVE  In(T, p) \in Nat /\ (In(T, p) = 0 <=> {t \in T : c_at[t] = p} = {})
  BY FS_Subset, FS_CardinalityType, FS_EmptySet DEF In

\* A signal: the counts of the signaller's side, and of the side it wakes.
LEMMA SideWakes ==
  ASSUME NEW T, NEW U, T \cap U = {}, T \cup U = Ends, IsFiniteSet(T), IsFiniteSet(U),
         c_at \in [Ends -> Stations], NEW t \in T, NEW a, C!GotoSignal(t, a, U)
  PROVE  /\ c_at' \in [Ends -> Stations \cup {a}]
         /\ \A p : /\ In(T, p) \in Nat /\ In(T, p) >= Is(c_at[t], p)
                   /\ In(T, p)' = In(T, p) - Is(c_at[t], p) + Is(a, p)
         /\ \A p : In(U, p) \in Nat
         /\ \/ In(U, "sleep") = 0 /\ \A p : In(U, p)' = In(U, p)
            \/ In(U, "sleep") > 0 /\ \A p : In(U, p)' = In(U, p) - Is("sleep", p) + Is("woken", p)
<1>1. \A x \in T \ {t} : c_at'[x] = c_at[x] BY DEF C!GotoSignal, C!Asleep
<1>2. c_at'[t] = a /\ c_at' \in [Ends -> Stations \cup {a}] BY DEF C!GotoSignal, C!Asleep, Stations
<1>3. ASSUME NEW p
      PROVE  /\ In(T, p) \in Nat /\ In(T, p) >= Is(c_at[t], p)
             /\ In(T, p)' = In(T, p) - Is(c_at[t], p) + Is(a, p)
  BY <1>1, <1>2, OneMoves
<1>4. \A p : In(U, p) \in Nat BY NobodyIn
<1>5. CASE C!Asleep(U) = {}
  <2>1. In(U, "sleep") = 0 BY <1>5, NobodyIn DEF C!Asleep
  <2>2. \A x \in U : c_at'[x] = c_at[x] BY <1>5 DEF C!GotoSignal
  <2>3. \A p : In(U, p)' = In(U, p) BY <2>2, SideStays
  <2> QED BY <1>2, <1>3, <1>4, <2>1, <2>3
<1>6. CASE C!Asleep(U) # {}
  <2>1. PICK u \in C!Asleep(U) : c_at' = [c_at EXCEPT ![t] = a, ![u] = "woken"]
    BY <1>6 DEF C!GotoSignal
  <2>2. u \in U /\ c_at[u] = "sleep" BY DEF C!Asleep
  <2>3. c_at'[u] = "woken" /\ \A x \in U \ {u} : c_at'[x] = c_at[x] BY <2>1, <2>2
  <2>4. ASSUME NEW p
        PROVE  In(U, p)' = In(U, p) - Is("sleep", p) + Is("woken", p)
    BY <2>2, <2>3, OneMoves
  <2>5. In(U, "sleep") > 0
    <3>1. In(U, "sleep") # 0 BY <2>2, NobodyIn
    <3> QED BY <1>4, <3>1
  <2> QED BY <1>2, <1>3, <1>4, <2>4, <2>5
<1> QED BY <1>5, <1>6

-----------------------------------------------------------------------------
(* What a step does to the counts *)

AtType == c_at \in [Ends -> Stations]
Counts == /\ RSleep \in Nat /\ RWoken \in Nat /\ RSignal \in Nat
          /\ SSleep \in Nat /\ SWoken \in Nat /\ SSignal \in Nat

RSame == RSleep' = RSleep /\ RWoken' = RWoken /\ RSignal' = RSignal
SSame == SSleep' = SSleep /\ SWoken' = SWoken /\ SSignal' = SSignal

\* A receiver, or a sender, goes from place b to place a.
RMoves(b, a) ==
  /\ RSleep >= Is(b, "sleep") /\ RWoken >= Is(b, "woken") /\ RSignal >= Is(b, "signal")
  /\ RSleep' = RSleep - Is(b, "sleep") + Is(a, "sleep")
  /\ RWoken' = RWoken - Is(b, "woken") + Is(a, "woken")
  /\ RSignal' = RSignal - Is(b, "signal") + Is(a, "signal")
SMoves(b, a) ==
  /\ SSleep >= Is(b, "sleep") /\ SWoken >= Is(b, "woken") /\ SSignal >= Is(b, "signal")
  /\ SSleep' = SSleep - Is(b, "sleep") + Is(a, "sleep")
  /\ SWoken' = SWoken - Is(b, "woken") + Is(a, "woken")
  /\ SSignal' = SSignal - Is(b, "signal") + Is(a, "signal")

\* One that sleeps is woken, if there is one.
RWakes ==
  \/ RSleep = 0 /\ RSame
  \/ RSleep > 0 /\ RSleep' = RSleep - 1 /\ RWoken' = RWoken + 1 /\ RSignal' = RSignal
SWakes ==
  \/ SSleep = 0 /\ SSame
  \/ SSleep > 0 /\ SSleep' = SSleep - 1 /\ SWoken' = SWoken + 1 /\ SSignal' = SSignal

LEMMA TwoSides ==
  ASSUME C!ChanAssumption
  PROVE  /\ Senders \subseteq Ends /\ Receivers \subseteq Ends
         /\ Senders \cap Receivers = {} /\ Receivers \cap Senders = {}
         /\ Senders \cup Receivers = Ends /\ Receivers \cup Senders = Ends
         /\ IsFiniteSet(Senders) /\ IsFiniteSet(Receivers)
         /\ Free \notin Senders /\ Free \notin Receivers
  BY SameFinite DEF C!ChanAssumption, Ends

LEMMA CountsNat == ASSUME C!ChanAssumption PROVE Counts
  BY TwoSides, NobodyIn DEF Counts, RSleep, RWoken, RSignal, SSleep, SWoken, SSignal

LEMMA SenderMoves ==
  ASSUME C!ChanAssumption, AtType, NEW s \in Senders, NEW a, C!Goto(s, a)
  PROVE  RSame /\ SMoves(c_at[s], a)
<1>1. \A x \in Receivers : c_at'[x] = c_at[x] BY TwoSides DEF C!Goto
<1>2. \A p : In(Receivers, p)' = In(Receivers, p) BY <1>1, TwoSides, SideStays
<1>3. RSame BY <1>2 DEF RSame, RSleep, RWoken, RSignal
<1>4. \A p : /\ In(Senders, p) >= Is(c_at[s], p)
             /\ In(Senders, p)' = In(Senders, p) - Is(c_at[s], p) + Is(a, p)
  BY TwoSides, SideMoves DEF AtType
<1>5. SMoves(c_at[s], a) BY <1>4 DEF SMoves, SSleep, SWoken, SSignal
<1> QED BY <1>3, <1>5

LEMMA ReceiverMoves ==
  ASSUME C!ChanAssumption, AtType, NEW r \in Receivers, NEW a, C!Goto(r, a)
  PROVE  SSame /\ RMoves(c_at[r], a)
<1>1. \A x \in Senders : c_at'[x] = c_at[x] BY TwoSides DEF C!Goto
<1>2. \A p : In(Senders, p)' = In(Senders, p) BY <1>1, TwoSides, SideStays
<1>3. SSame BY <1>2 DEF SSame, SSleep, SWoken, SSignal
<1>4. \A p : /\ In(Receivers, p) >= Is(c_at[r], p)
             /\ In(Receivers, p)' = In(Receivers, p) - Is(c_at[r], p) + Is(a, p)
  BY TwoSides, SideMoves DEF AtType
<1>5. RMoves(c_at[r], a) BY <1>4 DEF RMoves, RSleep, RWoken, RSignal
<1> QED BY <1>3, <1>5

LEMMA SenderSignals ==
  ASSUME C!ChanAssumption, AtType, NEW s \in Senders, NEW a, C!GotoSignal(s, a, Receivers)
  PROVE  RWakes /\ SMoves(c_at[s], a)
<1>1. /\ \A p : /\ In(Senders, p) \in Nat /\ In(Senders, p) >= Is(c_at[s], p)
                /\ In(Senders, p)' = In(Senders, p) - Is(c_at[s], p) + Is(a, p)
      /\ \A p : In(Receivers, p) \in Nat
      /\ \/ In(Receivers, "sleep") = 0 /\ \A p : In(Receivers, p)' = In(Receivers, p)
         \/ /\ In(Receivers, "sleep") > 0
            /\ \A p : In(Receivers, p)' = In(Receivers, p) - Is("sleep", p) + Is("woken", p)
  BY TwoSides, SideWakes DEF AtType
<1>2. SMoves(c_at[s], a) BY <1>1 DEF SMoves, SSleep, SWoken, SSignal
<1>3. RWakes BY <1>1 DEF RWakes, RSame, RSleep, RWoken, RSignal, Is
<1> QED BY <1>2, <1>3

LEMMA ReceiverSignals ==
  ASSUME C!ChanAssumption, AtType, NEW r \in Receivers, NEW a, C!GotoSignal(r, a, Senders)
  PROVE  SWakes /\ RMoves(c_at[r], a)
<1>1. /\ \A p : /\ In(Receivers, p) \in Nat /\ In(Receivers, p) >= Is(c_at[r], p)
                /\ In(Receivers, p)' = In(Receivers, p) - Is(c_at[r], p) + Is(a, p)
      /\ \A p : In(Senders, p) \in Nat
      /\ \/ In(Senders, "sleep") = 0 /\ \A p : In(Senders, p)' = In(Senders, p)
         \/ /\ In(Senders, "sleep") > 0
            /\ \A p : In(Senders, p)' = In(Senders, p) - Is("sleep", p) + Is("woken", p)
  BY TwoSides, SideWakes DEF AtType
<1>2. RMoves(c_at[r], a) BY <1>1 DEF RMoves, RSleep, RWoken, RSignal
<1>3. SWakes BY <1>1 DEF SWakes, SSame, SSleep, SWoken, SSignal, Is
<1> QED BY <1>2, <1>3

\* The broadcast of a close wakes all that sleep.
LEMMA SideClosed ==
  ASSUME NEW T, IsFiniteSet(T),
         \A t \in T : c_at'[t] = IF c_at[t] = "sleep" THEN "woken" ELSE c_at[t]
  PROVE  /\ In(T, "sleep")' = 0
         /\ In(T, "woken")' = In(T, "sleep") + In(T, "woken")
         /\ In(T, "signal")' = In(T, "signal")
<1> DEFINE A == {t \in T : c_at[t] = "sleep"}
           W == {t \in T : c_at[t] = "woken"}
<1>1. {t \in T : c_at'[t] = "sleep"} = {} OBVIOUS
<1>2. {t \in T : c_at'[t] = "woken"} = A \cup W OBVIOUS
<1>3. {t \in T : c_at'[t] = "signal"} = {t \in T : c_at[t] = "signal"} OBVIOUS
<1>4. IsFiniteSet(A) /\ IsFiniteSet(W) BY FS_Subset
<1>5. A \cap W = {} OBVIOUS
<1> HIDE DEF A, W
<1>6. Cardinality(A \cap W) = 0 BY <1>5, FS_EmptySet
<1>7. Cardinality(A) \in Nat /\ Cardinality(W) \in Nat BY <1>4, FS_CardinalityType
<1>8. Cardinality(A \cup W) = Cardinality(A) + Cardinality(W) - Cardinality(A \cap W)
  BY <1>4, FS_Union
<1>9. Cardinality(A \cup W) = Cardinality(A) + Cardinality(W) BY <1>6, <1>7, <1>8
<1>10. In(T, "sleep")' = 0 BY <1>1, FS_EmptySet DEF In
<1>11. In(T, "woken")' = In(T, "sleep") + In(T, "woken") BY <1>2, <1>9 DEF In, A, W
<1>12. In(T, "signal")' = In(T, "signal") BY <1>3 DEF In
<1> QED BY <1>10, <1>11, <1>12

LEMMA CloseWakes ==
  ASSUME C!ChanAssumption, AtType, C!Close
  PROVE  /\ RSleep' = 0 /\ RWoken' = RSleep + RWoken /\ RSignal' = RSignal
         /\ SSleep' = 0 /\ SWoken' = SSleep + SWoken /\ SSignal' = SSignal
<1>1. \A t \in Ends : c_at'[t] = IF c_at[t] = "sleep" THEN "woken" ELSE c_at[t]
  BY DEF C!Close, AtType
<1>2. /\ In(Receivers, "sleep")' = 0
      /\ In(Receivers, "woken")' = In(Receivers, "sleep") + In(Receivers, "woken")
      /\ In(Receivers, "signal")' = In(Receivers, "signal")
  BY <1>1, TwoSides, SideClosed
<1>3. /\ In(Senders, "sleep")' = 0
      /\ In(Senders, "woken")' = In(Senders, "sleep") + In(Senders, "woken")
      /\ In(Senders, "signal")' = In(Senders, "signal")
  BY <1>1, TwoSides, SideClosed
<1> QED BY <1>2, <1>3 DEF RSleep, RWoken, RSignal, SSleep, SWoken, SSignal

-----------------------------------------------------------------------------
(* Nobody is forgotten *)

\* A step of a sender keeps the account of who waits.
LEMMA SendsWaits ==
  ASSUME C!ChanAssumption, C!TypeOK, Waits, NEW s \in Senders, C!Sends(s)
  PROVE  Waits'
<1> USE DEF Is, RSame, SSame, RMoves, SMoves, RWakes, SWakes
<1>1. AtType /\ Counts BY CountsNat DEF C!TypeOK, AtType, Ends, Stations
<1>2. /\ cap \in Nat /\ r_waiting \in Nat /\ w_waiting \in Nat /\ Len(qudata) \in Nat
      /\ w_mu \in Senders \cup {Free} /\ Free \notin Senders /\ s # Free
  BY TwoSides DEF C!TypeOK, C!ChanAssumption
<1>3. CASE C!Send(s)
  <2>1. UNCHANGED <<cap, closed, r_waiting, w_waiting, qudata, r_mu, w_mu>> BY <1>3 DEF C!Send
  <2>2. c_at[s] = "out" /\ (UNCHANGED c_at \/ C!Goto(s, "enter")) BY <1>3 DEF C!Send
  <2>3. RSame /\ SSame
    <3>1. CASE UNCHANGED c_at
      BY <3>1 DEF RSleep, RWoken, RSignal, SSleep, SWoken, SSignal, In
    <3>2. CASE C!Goto(s, "enter") BY <1>1, <2>2, <3>2, SenderMoves DEF Counts
    <3> QED BY <2>2, <3>1, <3>2
  <2> QED BY <2>1, <2>3 DEF Waits, BufferedWaits, HandWaits, C!Buffered
<1>4. CASE C!BufferedRefused(s)
  <2>1. /\ C!Buffered /\ closed /\ C!Goto(s, "out")
        /\ UNCHANGED <<cap, closed, r_waiting, qudata, r_mu, w_mu>>
    BY <1>4 DEF C!BufferedRefused
  <2>2. \/ c_at[s] = "enter" /\ w_waiting' = w_waiting
        \/ c_at[s] = "woken" /\ w_waiting' = w_waiting - 1
    BY <1>2, <1>4 DEF C!BufferedRefused, C!Inside
  <2>3. RSame /\ SMoves(c_at[s], "out") BY <1>1, <2>1, SenderMoves
  <2> QED BY <1>1, <1>2, <2>1, <2>2, <2>3 DEF Waits, BufferedWaits, C!Buffered, Counts
<1>5. CASE C!BufferedFull(s)
  <2>1. /\ C!Buffered /\ ~closed /\ Len(qudata) = cap /\ C!Goto(s, "sleep")
        /\ UNCHANGED <<cap, closed, r_waiting, qudata, r_mu, w_mu>>
    BY <1>5 DEF C!BufferedFull, C!Full
  <2>2. \/ c_at[s] = "enter" /\ w_waiting' = w_waiting + 1
        \/ c_at[s] = "woken" /\ w_waiting' = w_waiting
    BY <1>2, <1>5 DEF C!BufferedFull, C!Inside
  <2>3. RSame /\ SMoves(c_at[s], "sleep") BY <1>1, <2>1, SenderMoves
  <2> QED BY <1>1, <1>2, <2>1, <2>2, <2>3 DEF Waits, BufferedWaits, C!Buffered, Counts
<1>6. CASE C!BufferedPush(s)
  <2>1. /\ C!Buffered /\ ~closed /\ C!Goto(s, IF r_waiting > 0 THEN "signal" ELSE "out")
        /\ UNCHANGED <<cap, closed, r_waiting, r_mu, w_mu>>
    BY <1>6 DEF C!BufferedPush
  <2>2. \/ c_at[s] = "enter" /\ w_waiting' = w_waiting
        \/ c_at[s] = "woken" /\ w_waiting' = w_waiting - 1
    BY <1>2, <1>6 DEF C!BufferedPush, C!Inside
  <2>3. RSame /\ SMoves(c_at[s], IF r_waiting > 0 THEN "signal" ELSE "out")
    BY <1>1, <2>1, SenderMoves
  <2>4. Len(qudata') = Len(qudata) + 1 BY <1>6 DEF C!BufferedPush, C!TypeOK
  <2> QED BY <1>1, <1>2, <2>1, <2>2, <2>3, <2>4 DEF Waits, BufferedWaits, C!Buffered, Counts
<1>7. CASE C!SendSignal(s)
  <2>1. /\ c_at[s] = "signal" /\ C!GotoSignal(s, "out", Receivers)
        /\ UNCHANGED <<cap, closed, r_waiting, w_waiting, qudata, r_mu, w_mu>>
    BY <1>7 DEF C!SendSignal
  <2>2. RWakes /\ SMoves("signal", "out") BY <1>1, <2>1, SenderSignals
  <2> QED BY <1>1, <1>2, <2>1, <2>2 DEF Waits, BufferedWaits, HandWaits, C!Buffered, Counts
<1>8. CASE C!HandRefused(s)
  <2>1. /\ c_at[s] = "enter" /\ C!Goto(s, "out") /\ ~C!Buffered
        /\ UNCHANGED <<cap, closed, r_waiting, w_waiting, qudata, r_mu, w_mu>>
    BY <1>8 DEF C!HandRefused
  <2>2. RSame /\ SMoves("enter", "out") BY <1>1, <2>1, SenderMoves
  <2> QED BY <1>1, <1>2, <2>1, <2>2 DEF Waits, HandWaits, C!Buffered, Counts
<1>9. CASE C!HandPut(s)
  <2>1. /\ c_at[s] = "enter" /\ ~C!Buffered /\ w_mu = Free /\ ~closed
        /\ w_mu' = s /\ w_waiting' = w_waiting + 1
        /\ UNCHANGED <<cap, closed, r_waiting, qudata, r_mu>>
    BY <1>9 DEF C!HandPut
  <2>2. CASE r_waiting > 0
    <3>1. C!GotoSignal(s, "sleep", Receivers) BY <1>9, <2>2 DEF C!HandPut
    <3>2. RWakes /\ SMoves("enter", "sleep") BY <1>1, <2>1, <3>1, SenderSignals
    <3> QED BY <1>1, <1>2, <2>1, <2>2, <3>2 DEF Waits, HandWaits, C!Buffered, Counts
  <2>3. CASE ~(r_waiting > 0)
    <3>1. C!Goto(s, "sleep") BY <1>9, <2>3 DEF C!HandPut
    <3>2. RSame /\ SMoves("enter", "sleep") BY <1>1, <2>1, <3>1, SenderMoves
    <3> QED BY <1>1, <1>2, <2>1, <2>3, <3>2 DEF Waits, HandWaits, C!Buffered, Counts
  <2> QED BY <2>2, <2>3
<1>10. CASE C!HandTaken(s)
  <2>1. /\ c_at[s] = "woken" /\ ~C!Buffered /\ w_waiting = 0 /\ w_mu' = Free /\ C!Goto(s, "out")
        /\ UNCHANGED <<cap, closed, r_waiting, w_waiting, qudata, r_mu>>
    BY <1>10 DEF C!HandTaken
  <2>2. RSame /\ SMoves("woken", "out") BY <1>1, <2>1, SenderMoves
  <2> QED BY <1>1, <1>2, <2>1, <2>2 DEF Waits, HandWaits, C!Buffered, Counts
<1>11. CASE C!HandWithdraw(s)
  <2>1. /\ c_at[s] = "woken" /\ ~C!Buffered /\ w_waiting > 0 /\ w_mu' = Free /\ C!Goto(s, "out")
        /\ w_waiting' = w_waiting - 1
        /\ UNCHANGED <<cap, closed, r_waiting, qudata, r_mu>>
    BY <1>11 DEF C!HandWithdraw
  <2>2. RSame /\ SMoves("woken", "out") BY <1>1, <2>1, SenderMoves
  <2> QED BY <1>1, <1>2, <2>1, <2>2 DEF Waits, HandWaits, C!Buffered, Counts
<1>12. CASE C!HandWait(s)
  <2>1. /\ c_at[s] = "woken" /\ ~C!Buffered /\ w_waiting > 0 /\ ~(closed /\ r_waiting = 0)
        /\ C!Goto(s, "sleep")
        /\ UNCHANGED <<cap, closed, r_waiting, w_waiting, qudata, r_mu, w_mu>>
    BY <1>12 DEF C!HandWait
  <2>2. RSame /\ SMoves("woken", "sleep") BY <1>1, <2>1, SenderMoves
  <2>3. HandWaits /\ r_waiting = RSleep + RWoken BY <2>1 DEF Waits
  <2>4. closed => RWoken > 0 BY <1>1, <1>2, <2>1, <2>3 DEF HandWaits, Counts
  <2>5. SSleep' + SWoken' = SSleep + SWoken BY <1>1, <2>2 DEF Counts
  <2>6. HandWaits' BY <1>1, <1>2, <2>1, <2>2, <2>3, <2>4, <2>5 DEF HandWaits, Counts
  <2> QED BY <2>1, <2>2, <2>3, <2>6 DEF Waits, C!Buffered
<1> QED BY <1>3, <1>4, <1>5, <1>6, <1>7, <1>8, <1>9, <1>10, <1>11, <1>12 DEF C!Sends

\* So does a step of a receiver.
LEMMA ReceivesWaits ==
  ASSUME C!ChanAssumption, C!TypeOK, Waits, NEW r \in Receivers, C!Receives(r)
  PROVE  Waits'
<1> USE DEF Is, RSame, SSame, RMoves, SMoves, RWakes, SWakes
<1>1. AtType /\ Counts BY CountsNat DEF C!TypeOK, AtType, Ends, Stations
<1>2. /\ cap \in Nat /\ r_waiting \in Nat /\ w_waiting \in Nat /\ Len(qudata) \in Nat
      /\ r_mu \in Receivers \cup {Free} /\ Free \notin Receivers /\ r # Free
  BY TwoSides DEF C!TypeOK, C!ChanAssumption
<1>3. CASE C!Recv(r)
  <2>1. /\ c_at[r] = "out" /\ C!Goto(r, "enter")
        /\ UNCHANGED <<cap, closed, r_waiting, w_waiting, qudata, r_mu, w_mu>>
    BY <1>3 DEF C!Recv
  <2>2. SSame /\ RMoves("out", "enter") BY <1>1, <2>1, ReceiverMoves
  <2>3. RSame BY <1>1, <2>2 DEF Counts
  <2> QED BY <2>1, <2>2, <2>3 DEF Waits, BufferedWaits, HandWaits, C!Buffered
<1>4. CASE C!BufferedPop(r)
  <2>1. /\ C!Buffered /\ qudata # <<>> /\ C!Goto(r, IF w_waiting > 0 THEN "signal" ELSE "out")
        /\ UNCHANGED <<cap, closed, w_waiting, r_mu, w_mu>>
    BY <1>4 DEF C!BufferedPop
  <2>2. \/ c_at[r] = "enter" /\ r_waiting' = r_waiting
        \/ c_at[r] = "woken" /\ r_waiting' = r_waiting - 1
    BY <1>2, <1>4 DEF C!BufferedPop, C!Inside
  <2>3. SSame /\ RMoves(c_at[r], IF w_waiting > 0 THEN "signal" ELSE "out")
    BY <1>1, <2>1, ReceiverMoves
  <2>4. Len(qudata') = Len(qudata) - 1 /\ Len(qudata) > 0 BY <1>4 DEF C!BufferedPop, C!TypeOK
  <2> QED BY <1>1, <1>2, <2>1, <2>2, <2>3, <2>4 DEF Waits, BufferedWaits, C!Buffered, Counts
<1>5. CASE C!BufferedEmpty(r)
  <2>1. /\ C!Buffered /\ Len(qudata) = 0
        /\ UNCHANGED <<cap, closed, w_waiting, qudata, r_mu, w_mu>>
    BY <1>5 DEF C!BufferedEmpty
  <2>2. \/ c_at[r] = "enter" /\ closed /\ r_waiting' = r_waiting /\ C!Goto(r, "out")
        \/ c_at[r] = "woken" /\ closed /\ r_waiting' = r_waiting - 1 /\ C!Goto(r, "out")
        \/ c_at[r] = "enter" /\ ~closed /\ r_waiting' = r_waiting + 1 /\ C!Goto(r, "sleep")
        \/ c_at[r] = "woken" /\ ~closed /\ r_waiting' = r_waiting /\ C!Goto(r, "sleep")
    BY <1>2, <1>5 DEF C!BufferedEmpty, C!Inside
  <2>3. \E a \in {"out", "sleep"} :
          /\ SSame /\ RMoves(c_at[r], a)
          /\ closed => a = "out"
          /\ a = "out" => closed
    <3>1. CASE C!Goto(r, "out") /\ closed BY <1>1, <3>1, ReceiverMoves
    <3>2. CASE C!Goto(r, "sleep") /\ ~closed BY <1>1, <3>2, ReceiverMoves
    <3> QED BY <2>2, <3>1, <3>2
  <2> QED BY <1>1, <1>2, <2>1, <2>2, <2>3 DEF Waits, BufferedWaits, C!Buffered, Counts
<1>6. CASE C!RecvSignal(r)
  <2>1. /\ c_at[r] = "signal" /\ C!GotoSignal(r, "out", Senders)
        /\ r_mu' = IF C!Buffered THEN r_mu ELSE Free
        /\ UNCHANGED <<cap, closed, r_waiting, w_waiting, qudata, w_mu>>
    BY <1>6 DEF C!RecvSignal
  <2>2. SWakes /\ RMoves("signal", "out") BY <1>1, <2>1, ReceiverSignals
  <2> QED BY <1>1, <1>2, <2>1, <2>2 DEF Waits, BufferedWaits, HandWaits, C!Buffered, Counts
<1>7. CASE C!HandWaitFor(r)
  <2>1. /\ C!Alone(r) /\ ~closed /\ w_waiting = 0 /\ C!Goto(r, "sleep") /\ r_mu' = r
        /\ UNCHANGED <<cap, closed, w_waiting, qudata, w_mu>>
    BY <1>7 DEF C!HandWaitFor
  <2>2. \/ c_at[r] = "enter" /\ r_waiting' = r_waiting + 1 /\ r_mu = Free
        \/ c_at[r] = "woken" /\ r_waiting' = r_waiting /\ r_mu = r
    BY <1>2, <1>7 DEF C!HandWaitFor, C!Inside, C!Alone
  <2>3. SSame /\ RMoves(c_at[r], "sleep") BY <1>1, <2>1, ReceiverMoves
  <2>4. ~C!Buffered /\ ~C!Buffered' BY <2>1 DEF C!Alone, C!Buffered
  <2>5. HandWaits /\ r_waiting = RSleep + RWoken BY <2>4 DEF Waits
  <2>6. r_waiting' = RSleep' + RWoken' BY <1>1, <1>2, <2>2, <2>3, <2>5 DEF Counts
  <2>7. CASE c_at[r] = "enter"
    BY <1>1, <1>2, <2>1, <2>2, <2>3, <2>4, <2>5, <2>6, <2>7 DEF Waits, HandWaits, Counts
  <2>8. CASE c_at[r] = "woken"
    BY <1>1, <1>2, <2>1, <2>2, <2>3, <2>4, <2>5, <2>6, <2>8 DEF Waits, HandWaits, Counts
  <2> QED BY <2>2, <2>7, <2>8
<1>8. CASE C!HandNothing(r)
  <2>1. /\ C!Alone(r) /\ closed /\ w_waiting = 0 /\ C!Goto(r, "out") /\ r_mu' = Free
        /\ UNCHANGED <<cap, closed, w_waiting, qudata, w_mu>>
    BY <1>8 DEF C!HandNothing
  <2>2. \/ c_at[r] = "enter" /\ r_waiting' = r_waiting /\ r_mu = Free
        \/ c_at[r] = "woken" /\ r_waiting' = r_waiting - 1 /\ r_mu = r
    BY <1>2, <1>8 DEF C!HandNothing, C!Inside, C!Alone
  <2>3. SSame /\ RMoves(c_at[r], "out") BY <1>1, <2>1, ReceiverMoves
  <2>4. ~C!Buffered /\ ~C!Buffered' BY <2>1 DEF C!Alone, C!Buffered
  <2>5. HandWaits /\ r_waiting = RSleep + RWoken BY <2>4 DEF Waits
  <2>6. r_waiting' = RSleep' + RWoken' BY <1>1, <1>2, <2>2, <2>3, <2>5 DEF Counts
  <2>7. CASE c_at[r] = "enter"
    BY <1>1, <1>2, <2>1, <2>2, <2>3, <2>4, <2>5, <2>6, <2>7 DEF Waits, HandWaits, Counts
  <2>8. CASE c_at[r] = "woken"
    BY <1>1, <1>2, <2>1, <2>2, <2>3, <2>4, <2>5, <2>6, <2>8 DEF Waits, HandWaits, Counts
  <2> QED BY <2>2, <2>7, <2>8
<1>9. CASE C!HandTake(r)
  <2>1. /\ C!Alone(r) /\ w_waiting > 0 /\ C!Goto(r, "signal") /\ r_mu' = r
        /\ w_waiting' = w_waiting - 1
        /\ UNCHANGED <<cap, closed, qudata, w_mu>>
    BY <1>9 DEF C!HandTake
  <2>2. \/ c_at[r] = "enter" /\ r_waiting' = r_waiting /\ r_mu = Free
        \/ c_at[r] = "woken" /\ r_waiting' = r_waiting - 1 /\ r_mu = r
    BY <1>2, <1>9 DEF C!HandTake, C!Inside, C!Alone
  <2>3. SSame /\ RMoves(c_at[r], "signal") BY <1>1, <2>1, ReceiverMoves
  <2>4. ~C!Buffered /\ ~C!Buffered' BY <2>1 DEF C!Alone, C!Buffered
  <2>5. HandWaits /\ r_waiting = RSleep + RWoken BY <2>4 DEF Waits
  <2>6. CASE c_at[r] = "enter"
    <3>1. r_waiting' = RSleep' + RWoken'
      BY <1>1, <1>2, <2>2, <2>3, <2>5, <2>6 DEF Counts
    <3>2. HandWaits' BY <1>1, <1>2, <2>1, <2>2, <2>3, <2>5, <2>6 DEF HandWaits, Counts
    <3> QED BY <2>4, <3>1, <3>2 DEF Waits
  <2>7. CASE c_at[r] = "woken"
    <3>1. r_waiting' = RSleep' + RWoken'
      BY <1>1, <1>2, <2>2, <2>3, <2>5, <2>7 DEF Counts
    <3>2. HandWaits' BY <1>1, <1>2, <2>1, <2>2, <2>3, <2>5, <2>7 DEF HandWaits, Counts
    <3> QED BY <2>4, <3>1, <3>2 DEF Waits
  <2> QED BY <2>2, <2>6, <2>7
<1> QED BY <1>3, <1>4, <1>5, <1>6, <1>7, <1>8, <1>9 DEF C!Receives

\* And a wake without a signal, and the close.
LEMMA OthersWaits ==
  ASSUME C!ChanAssumption, C!TypeOK, Waits,
         (\E t \in Senders \cup Receivers : C!Spurious(t)) \/ C!Close
  PROVE  Waits'
<1> USE DEF Is, RSame, SSame, RMoves, SMoves
<1>1. AtType /\ Counts BY CountsNat DEF C!TypeOK, AtType, Ends, Stations
<1>2. cap \in Nat /\ r_waiting \in Nat /\ w_waiting \in Nat /\ Len(qudata) \in Nat
  BY DEF C!TypeOK, C!ChanAssumption
<1>3. CASE \E t \in Senders \cup Receivers : C!Spurious(t)
  <2>1. PICK t \in Senders \cup Receivers : C!Spurious(t) BY <1>3
  <2>2. /\ c_at[t] = "sleep" /\ C!Goto(t, "woken")
        /\ UNCHANGED <<cap, closed, r_waiting, w_waiting, qudata, r_mu, w_mu>>
    BY <2>1 DEF C!Spurious
  <2>3. CASE t \in Senders
    <3>1. RSame /\ SMoves("sleep", "woken") BY <1>1, <2>2, <2>3, SenderMoves
    <3> QED BY <1>1, <1>2, <2>2, <3>1 DEF Waits, BufferedWaits, HandWaits, C!Buffered, Counts
  <2>4. CASE t \in Receivers
    <3>1. SSame /\ RMoves("sleep", "woken") BY <1>1, <2>2, <2>4, ReceiverMoves
    <3> QED BY <1>1, <1>2, <2>2, <3>1 DEF Waits, BufferedWaits, HandWaits, C!Buffered, Counts
  <2> QED BY <2>3, <2>4
<1>4. CASE C!Close
  <2>1. UNCHANGED <<cap, r_waiting, w_waiting, qudata, r_mu, w_mu>> BY <1>4 DEF C!Close
  <2>2. /\ RSleep' = 0 /\ RWoken' = RSleep + RWoken /\ RSignal' = RSignal
        /\ SSleep' = 0 /\ SWoken' = SSleep + SWoken /\ SSignal' = SSignal
    BY <1>1, <1>4, CloseWakes
  <2> QED BY <1>1, <1>2, <2>1, <2>2 DEF Waits, BufferedWaits, HandWaits, C!Buffered, Counts
<1> QED BY <1>3, <1>4

\* When all is still nobody is woken and no signal is on its way.
LEMMA WaitsForgetNobody ==
  ASSUME C!ChanAssumption, C!TypeOK, Waits
  PROVE  C!NobodyForgotten
<1> SUFFICES ASSUME \A t \in DOMAIN c_at : c_at[t] \in {"sleep", "out"}
             PROVE  /\ C!Asleep(Receivers) # {} =>
                       ~closed /\ qudata = <<>> /\ C!Asleep(Senders) = {}
                    /\ C!Asleep(Senders) # {} => ~closed /\ C!Full
  BY DEF C!NobodyForgotten
<1>1. \A t \in Ends : c_at[t] \in {"sleep", "out"} BY DEF C!TypeOK, Ends
<1>2. RWoken = 0 /\ RSignal = 0 /\ SWoken = 0 /\ SSignal = 0
  <2>1. {t \in Receivers : c_at[t] = "woken"} = {} /\ {t \in Receivers : c_at[t] = "signal"} = {}
    BY <1>1, TwoSides
  <2>2. {t \in Senders : c_at[t] = "woken"} = {} /\ {t \in Senders : c_at[t] = "signal"} = {}
    BY <1>1, TwoSides
  <2> QED BY <2>1, <2>2, TwoSides, NobodyIn DEF RWoken, RSignal, SWoken, SSignal
<1>3. (RSleep = 0 <=> C!Asleep(Receivers) = {}) /\ (SSleep = 0 <=> C!Asleep(Senders) = {})
  BY TwoSides, NobodyIn DEF RSleep, SSleep, C!Asleep
<1>4. /\ cap \in Nat /\ Len(qudata) \in Nat /\ Len(qudata) <= cap /\ Counts /\ w_waiting \in Nat
      /\ Len(qudata) = 0 <=> qudata = <<>>
  BY CountsNat DEF C!TypeOK, C!ChanAssumption
<1> HIDE DEF C!Asleep
<1> QED BY <1>2, <1>3, <1>4 DEF Waits, BufferedWaits, HandWaits, C!Buffered, C!Full, Counts

-----------------------------------------------------------------------------
(* Sequences of values *)

LEMMA ElemsAppend ==
  ASSUME NEW S, NEW q \in Seq(S), NEW v
  PROVE  Elems(Append(q, v)) = Elems(q) \cup {v}
<1> DEFINE p == Append(q, v)
<1>1. DOMAIN q = 1 .. Len(q) /\ DOMAIN p = 1 .. Len(q) + 1 /\ Len(q) \in Nat OBVIOUS
<1>2. p[Len(q) + 1] = v /\ \A i \in 1 .. Len(q) : p[i] = q[i] OBVIOUS
<1> HIDE DEF p
<1>3. Elems(p) = Elems(q) \cup {v} BY <1>1, <1>2 DEF Elems
<1> QED BY <1>3 DEF p

LEMMA ElemsTail ==
  ASSUME NEW S, NEW q \in Seq(S), q # <<>>
  PROVE  Head(q) \in S /\ Head(q) \in Elems(q) /\ Elems(q) = Elems(Tail(q)) \cup {Head(q)}
<1> DEFINE p == Tail(q)
<1>1. DOMAIN q = 1 .. Len(q) /\ DOMAIN p = 1 .. Len(q) - 1 /\ Len(q) \in Nat \ {0} OBVIOUS
<1>2. Head(q) = q[1] /\ q[1] \in S /\ \A i \in 1 .. Len(q) - 1 : p[i] = q[i + 1] OBVIOUS
<1> HIDE DEF p
<1>3. \A i \in 2 .. Len(q) : i - 1 \in 1 .. Len(q) - 1 /\ q[i] = p[i - 1] BY <1>1, <1>2
<1>4. Elems(q) \subseteq Elems(p) \cup {q[1]} BY <1>1, <1>3 DEF Elems
<1>5. \A i \in 1 .. Len(q) - 1 : i + 1 \in 1 .. Len(q) BY <1>1
<1>6. Elems(p) \subseteq Elems(q) /\ q[1] \in Elems(q) BY <1>1, <1>2, <1>5 DEF Elems
<1> QED BY <1>2, <1>4, <1>6 DEF p

LEMMA OrderedAppend ==
  ASSUME NEW S, NEW q \in Seq(S), NEW v, Ordered(q), \A x \in Elems(q) : Before(x, v)
  PROVE  Ordered(Append(q, v))
<1> DEFINE p == Append(q, v)
<1>1. DOMAIN q = 1 .. Len(q) /\ DOMAIN p = 1 .. Len(q) + 1 /\ Len(q) \in Nat OBVIOUS
<1>2. p[Len(q) + 1] = v /\ \A i \in 1 .. Len(q) : p[i] = q[i] OBVIOUS
<1> HIDE DEF p, Before
<1>3. \A i \in 1 .. Len(q) : Before(q[i], v) BY <1>1 DEF Elems
<1>4. Ordered(p) BY <1>1, <1>2, <1>3 DEF Ordered
<1> QED BY <1>4 DEF p

LEMMA OrderedTail ==
  ASSUME NEW S, NEW q \in Seq(S), q # <<>>, Ordered(q)
  PROVE  Ordered(Tail(q)) /\ \A x \in Elems(Tail(q)) : Before(Head(q), x)
<1> DEFINE p == Tail(q)
<1>1. DOMAIN q = 1 .. Len(q) /\ DOMAIN p = 1 .. Len(q) - 1 /\ Len(q) \in Nat \ {0} OBVIOUS
<1>2. Head(q) = q[1] /\ \A i \in 1 .. Len(q) - 1 : p[i] = q[i + 1] OBVIOUS
<1> HIDE DEF p, Before
<1>3. \A i \in 1 .. Len(q) - 1 : i + 1 \in 1 .. Len(q) /\ 1 < i + 1 BY <1>1
<1>4. Ordered(p)
  <2> SUFFICES ASSUME NEW i \in 1 .. Len(q) - 1, NEW j \in 1 .. Len(q) - 1, i < j
               PROVE  Before(p[i], p[j])
    BY <1>1 DEF Ordered
  <2>1. i + 1 \in DOMAIN q /\ j + 1 \in DOMAIN q /\ i + 1 < j + 1 BY <1>1
  <2> QED BY <1>2, <2>1 DEF Ordered
<1>5. \A i \in 1 .. Len(q) - 1 : Before(q[1], p[i])
  <2> TAKE i \in 1 .. Len(q) - 1
  <2>1. 1 \in DOMAIN q /\ i + 1 \in DOMAIN q /\ 1 < i + 1 BY <1>1
  <2> QED BY <1>2, <2>1 DEF Ordered
<1>6. \A x \in Elems(p) : Before(q[1], x) BY <1>1, <1>5 DEF Elems
<1> QED BY <1>2, <1>4, <1>6 DEF p

\* A sequence in which every value comes before the later ones repeats none.
LEMMA OrderedNoRepeat ==
  ASSUME NEW q \in Seq(C!Values), Ordered(q)
  PROVE  Cardinality(Elems(q)) = Len(q)
<1> DEFINE I == 1 .. Len(q)
           f == [i \in I |-> q[i]]
<1>1. DOMAIN q = I /\ Len(q) \in Nat OBVIOUS
<1>2. IsFiniteSet(I) /\ Cardinality(I) = Len(q) BY <1>1, FS_Interval
<1>3. \A i \in I : q[i] \in C!Values /\ q[i][2] \in Int BY <1>1 DEF C!Values
<1>4. \A i, j \in I : i < j => q[i] # q[j]
  <2> TAKE i, j \in I
  <2>1. i < j /\ q[i] = q[j] => q[i][2] < q[i][2] BY <1>1 DEF Ordered, Before
  <2> QED BY <1>3, <2>1
<1>5. \A i, j \in I : i # j => i < j \/ j < i BY <1>1
<1>6. \A i, j \in I : q[i] = q[j] => i = j BY <1>4, <1>5
<1>7. f \in Bijection(I, Elems(q))
  BY <1>1, <1>6 DEF Bijection, Injection, Surjection, IsInjective, Elems
<1> HIDE DEF I
<1> QED BY <1>2, <1>7, FS_Bijection DEF ExistsBijection

-----------------------------------------------------------------------------
(* What a step does to the values *)

\* A sender whose send is not the one the step is about.
Stays(s) ==
  /\ Pending(s)' => Pending(s)
  /\ c_at'[s] = "enter" => c_at[s] = "enter"
  /\ ~C!Buffered => (c_at'[s] \in {"sleep", "woken"} <=> c_at[s] \in {"sleep", "woken"})

\* A send begins, and is refused at once if the channel is closed.
Begins(s) ==
  /\ c_at[s] = "out" /\ made[s] < MaxSend /\ made' = [made EXCEPT ![s] = @ + 1]
  /\ UNCHANGED <<cap, returned, qudata, got, data, w_mu, w_waiting>>
  /\ \/ c_at'[s] = "out" /\ failed' = failed \cup {<<s, made[s] + 1>>}
     \/ c_at'[s] = "enter" /\ failed' = failed

\* It fails, by hand before the value was offered or after.
Fails(s) ==
  /\ Pending(s) /\ c_at'[s] = "out" /\ failed' = failed \cup {C!Value(s)}
  /\ UNCHANGED <<cap, made, returned, qudata, got, data>>
  /\ \/ C!Buffered /\ UNCHANGED w_mu
     \/ ~C!Buffered /\ c_at[s] = "enter" /\ UNCHANGED <<w_mu, w_waiting>>
     \/ ~C!Buffered /\ c_at[s] = "woken" /\ w_waiting > 0 /\ w_waiting' = 0 /\ w_mu' = Free

\* It succeeds: the value is in the queue, or it has been taken.
Puts(s) ==
  /\ C!Buffered /\ Pending(s) /\ c_at'[s] \in {"out", "signal"} /\ Len(qudata) < cap
  /\ qudata' = Append(qudata, C!Value(s)) /\ returned' = returned \cup {C!Value(s)}
  /\ UNCHANGED <<cap, made, failed, got, data, w_mu>>
Learns(s) ==
  /\ ~C!Buffered /\ c_at[s] = "woken" /\ c_at'[s] = "out" /\ w_waiting = 0 /\ w_mu' = Free
  /\ returned' = returned \cup {C!Value(s)}
  /\ UNCHANGED <<cap, made, failed, qudata, got, data, w_waiting>>

\* A value is offered.
Offers(s) ==
  /\ ~C!Buffered /\ c_at[s] = "enter" /\ c_at'[s] = "sleep" /\ w_mu = Free /\ w_mu' = s
  /\ w_waiting' \in Nat \ {0} /\ data' = C!Value(s)
  /\ UNCHANGED <<cap, made, returned, failed, qudata, got>>

\* A value is received, from the queue or by hand.
Pops ==
  /\ C!Buffered /\ qudata # <<>> /\ qudata' = Tail(qudata) /\ got' = Append(got, Head(qudata))
  /\ UNCHANGED <<cap, made, returned, failed, data, w_mu>>
TakesIt ==
  /\ ~C!Buffered /\ w_waiting > 0 /\ w_waiting' = 0 /\ got' = Append(got, data)
  /\ UNCHANGED <<cap, made, returned, failed, qudata, data, w_mu>>

\* Only places change.
Quiet ==
  /\ UNCHANGED <<cap, made, returned, failed, qudata, got, data, w_mu>>
  /\ ~C!Buffered => UNCHANGED w_waiting

OfSender(s) == Begins(s) \/ Fails(s) \/ Puts(s) \/ Learns(s) \/ Offers(s)
ChanKinds ==
  \/ \E s \in Senders : OfSender(s) /\ \A x \in Senders \ {s} : Stays(x)
  \/ (Pops \/ TakesIt \/ Quiet) /\ \A x \in Senders : Stays(x)

LEMMA GotoStays ==
  ASSUME NEW t, NEW a, C!Goto(t, a), AtType, C!ChanAssumption
  PROVE  \A x \in Senders \ {t} : Stays(x)
<1> TAKE x \in Senders \ {t}
<1>1. c_at'[x] = c_at[x] BY DEF C!Goto, AtType, Ends
<1> QED BY <1>1 DEF Stays, Pending

LEMMA SignalStays ==
  ASSUME NEW t, NEW a, NEW U, C!GotoSignal(t, a, U), AtType, C!ChanAssumption
  PROVE  \A x \in Senders \ {t} : Stays(x)
<1> TAKE x \in Senders \ {t}
<1>1. c_at'[x] = c_at[x] \/ (c_at[x] = "sleep" /\ c_at'[x] = "woken")
  <2>1. CASE C!Goto(t, a) BY <2>1 DEF C!Goto, AtType, Ends
  <2>2. CASE \E u \in C!Asleep(U) : c_at' = [c_at EXCEPT ![t] = a, ![u] = "woken"]
    <3>1. PICK u \in C!Asleep(U) : c_at' = [c_at EXCEPT ![t] = a, ![u] = "woken"] BY <2>2
    <3>2. c_at[u] = "sleep" BY DEF C!Asleep
    <3>3. x \in DOMAIN c_at /\ x # t BY DEF AtType, Ends
    <3>4. CASE x = u BY <3>1, <3>2, <3>3, <3>4
    <3>5. CASE x # u BY <3>1, <3>3, <3>5
    <3> QED BY <3>4, <3>5
  <2> QED BY <2>1, <2>2 DEF C!GotoSignal, C!Goto
<1> QED BY <1>1 DEF Stays, Pending

\* With no capacity one value at most is offered.
LEMMA OneOffer ==
  ASSUME C!ChanAssumption, C!TypeOK, Waits
  PROVE  ~C!Buffered => w_waiting \in {0, 1}
  BY CountsNat DEF Waits, HandWaits, Counts, C!TypeOK

LEMMA SendsKinds ==
  ASSUME C!ChanAssumption, C!TypeOK, Waits, NEW s \in Senders, C!Sends(s)
  PROVE  ChanKinds
<1> USE DEF Pending
<1>1. AtType /\ s \in Ends BY DEF C!TypeOK, AtType, Ends, Stations
<1>2. w_waiting \in Nat /\ (~C!Buffered => w_waiting \in {0, 1}) BY OneOffer DEF C!TypeOK
<1>3. \A a : C!Goto(s, a) => c_at'[s] = a BY <1>1 DEF C!Goto, AtType
<1>4. CASE C!Send(s)
  <2>1. Begins(s)
    <3>1. CASE closed BY <1>4, <3>1 DEF C!Send, Begins
    <3>2. CASE ~closed BY <1>3, <1>4, <3>2 DEF C!Send, Begins, C!history
    <3> QED BY <3>1, <3>2
  <2>2. \A x \in Senders \ {s} : Stays(x)
    <3>1. CASE UNCHANGED c_at /\ UNCHANGED cap BY <3>1 DEF Stays, C!Buffered
    <3>2. CASE C!Goto(s, "enter") BY <1>1, <3>2, GotoStays
    <3> QED BY <1>4, <3>1, <3>2 DEF C!Send
  <2> QED BY <2>1, <2>2 DEF ChanKinds, OfSender
<1>5. CASE C!BufferedRefused(s)
  <2>1. C!Goto(s, "out") BY <1>5 DEF C!BufferedRefused
  <2>2. Fails(s) BY <1>3, <1>5, <2>1 DEF C!BufferedRefused, C!Inside, C!SendFailed, Fails
  <2> QED BY <1>1, <2>1, <2>2, GotoStays DEF ChanKinds, OfSender
<1>6. CASE C!BufferedFull(s)
  <2>1. C!Goto(s, "sleep") /\ C!Buffered /\ c_at[s] \in {"enter", "woken"}
    BY <1>6 DEF C!BufferedFull, C!Inside
  <2>2. Quiet BY <1>6, <2>1 DEF C!BufferedFull, Quiet, C!history
  <2>3. Stays(s) BY <1>3, <2>1 DEF Stays
  <2> QED BY <1>1, <2>1, <2>2, <2>3, GotoStays DEF ChanKinds
<1>7. CASE C!BufferedPush(s)
  <2>1. C!Goto(s, IF r_waiting > 0 THEN "signal" ELSE "out") BY <1>7 DEF C!BufferedPush
  <2>2. Len(qudata) < cap BY <1>7 DEF C!BufferedPush, C!Full, C!TypeOK, C!ChanAssumption
  <2>3. Puts(s) BY <1>3, <1>7, <2>1, <2>2 DEF C!BufferedPush, C!Inside, C!SendOk, Puts
  <2> QED BY <1>1, <2>1, <2>3, GotoStays DEF ChanKinds, OfSender
<1>8. CASE C!SendSignal(s)
  <2>1. c_at[s] = "signal" /\ C!GotoSignal(s, "out", Receivers) BY <1>8 DEF C!SendSignal
  <2>2. Quiet BY <1>8 DEF C!SendSignal, Quiet, C!history
  <2>3. c_at'[s] = "out" BY <1>1, <2>1, TwoSides DEF C!GotoSignal, C!Asleep, AtType
  <2>4. Stays(s) BY <2>1, <2>3 DEF Stays
  <2> QED BY <1>1, <2>1, <2>2, <2>4, SignalStays DEF ChanKinds
<1>9. CASE C!HandRefused(s)
  <2>1. C!Goto(s, "out") BY <1>9 DEF C!HandRefused
  <2>2. Fails(s) BY <1>3, <1>9, <2>1 DEF C!HandRefused, C!SendFailed, Fails
  <2> QED BY <1>1, <2>1, <2>2, GotoStays DEF ChanKinds, OfSender
<1>10. CASE C!HandPut(s)
  <2>1. C!Goto(s, "sleep") \/ C!GotoSignal(s, "sleep", Receivers) BY <1>10 DEF C!HandPut
  <2>2. c_at'[s] = "sleep"
    BY <1>1, <1>3, <2>1, TwoSides DEF C!GotoSignal, C!Asleep, AtType
  <2>3. Offers(s) BY <1>2, <1>10, <2>2 DEF C!HandPut, Offers, C!history
  <2> QED BY <1>1, <2>1, <2>3, GotoStays, SignalStays DEF ChanKinds, OfSender
<1>11. CASE C!HandTaken(s)
  <2>1. C!Goto(s, "out") BY <1>11 DEF C!HandTaken
  <2>2. Learns(s) BY <1>3, <1>11, <2>1 DEF C!HandTaken, C!SendOk, Learns
  <2> QED BY <1>1, <2>1, <2>2, GotoStays DEF ChanKinds, OfSender
<1>12. CASE C!HandWithdraw(s)
  <2>1. C!Goto(s, "out") BY <1>12 DEF C!HandWithdraw
  <2>2. w_waiting' = 0 BY <1>2, <1>12 DEF C!HandWithdraw
  <2>3. Fails(s) BY <1>3, <1>12, <2>1, <2>2 DEF C!HandWithdraw, C!SendFailed, Fails
  <2> QED BY <1>1, <2>1, <2>3, GotoStays DEF ChanKinds, OfSender
<1>13. CASE C!HandWait(s)
  <2>1. C!Goto(s, "sleep") /\ c_at[s] = "woken" BY <1>13 DEF C!HandWait
  <2>2. Quiet BY <1>13 DEF C!HandWait, Quiet, C!history
  <2>3. Stays(s) BY <1>3, <2>1 DEF Stays
  <2> QED BY <1>1, <2>1, <2>2, <2>3, GotoStays DEF ChanKinds
<1> QED BY <1>4, <1>5, <1>6, <1>7, <1>8, <1>9, <1>10, <1>11, <1>12, <1>13 DEF C!Sends

LEMMA ReceivesKinds ==
  ASSUME C!ChanAssumption, C!TypeOK, Waits, NEW r \in Receivers, C!Receives(r)
  PROVE  ChanKinds
<1>1. AtType /\ r \notin Senders BY TwoSides DEF C!TypeOK, AtType, Ends, Stations
<1>2. w_waiting \in Nat /\ (~C!Buffered => w_waiting \in {0, 1}) BY OneOffer DEF C!TypeOK
<1>3. (\E a : C!Goto(r, a)) \/ C!GotoSignal(r, "out", Senders)
  BY DEF C!Receives, C!Recv, C!BufferedPop, C!BufferedEmpty, C!RecvSignal, C!HandWaitFor,
        C!HandNothing, C!HandTake
<1>4. \A x \in Senders : Stays(x) BY <1>1, <1>3, GotoStays, SignalStays
<1>5. CASE C!BufferedPop(r)
  <2>1. Pops BY <1>5 DEF C!BufferedPop, Pops
  <2> QED BY <1>4, <2>1 DEF ChanKinds
<1>6. CASE C!HandTake(r)
  <2>1. ~C!Buffered /\ w_waiting' = 0 BY <1>2, <1>6 DEF C!HandTake, C!Alone
  <2>2. TakesIt BY <1>6, <2>1 DEF C!HandTake, TakesIt
  <2> QED BY <1>4, <2>2 DEF ChanKinds
<1>7. CASE \/ C!Recv(r) \/ C!BufferedEmpty(r) \/ C!RecvSignal(r)
           \/ C!HandWaitFor(r) \/ C!HandNothing(r)
  <2>1. Quiet
    BY <1>7 DEF C!Recv, C!BufferedEmpty, C!RecvSignal, C!HandWaitFor, C!HandNothing, Quiet,
          C!history
  <2> QED BY <1>4, <2>1 DEF ChanKinds
<1> QED BY <1>5, <1>6, <1>7 DEF C!Receives

LEMMA OthersKinds ==
  ASSUME C!ChanAssumption, C!TypeOK, (\E t \in Senders \cup Receivers : C!Spurious(t)) \/ C!Close
  PROVE  ChanKinds
<1>1. AtType BY DEF C!TypeOK, AtType, Ends, Stations
<1>2. Quiet BY DEF C!Spurious, C!Close, Quiet, C!history
<1>3. \A x \in Senders : c_at'[x] = c_at[x] \/ (c_at[x] = "sleep" /\ c_at'[x] = "woken")
  <2>1. CASE C!Close BY <1>1, <2>1 DEF C!Close, AtType, Ends
  <2>2. ASSUME NEW t \in Senders \cup Receivers, C!Spurious(t)
        PROVE  \A x \in Senders : c_at'[x] = c_at[x] \/ (c_at[x] = "sleep" /\ c_at'[x] = "woken")
    BY <1>1, <2>2 DEF C!Spurious, C!Goto, AtType, Ends
  <2> QED BY <2>1, <2>2
<1>4. \A x \in Senders : Stays(x) BY <1>3 DEF Stays, Pending
<1> QED BY <1>2, <1>4 DEF ChanKinds

-----------------------------------------------------------------------------
(* The values keep their fates *)

\* What the steps do to the values queued and received.
LEMMA Ranges ==
  ASSUME C!TypeOK
  PROVE  /\ UNCHANGED qudata => Here' = Here
         /\ UNCHANGED got => Came' = Came
         /\ \A v : qudata' = Append(qudata, v) => Here' = Here \cup {v}
         /\ \A v : got' = Append(got, v) => Came' = Came \cup {v}
         /\ qudata # <<>> /\ qudata' = Tail(qudata) =>
              Head(qudata) \in C!Values /\ Head(qudata) \in Here /\ Here = Here' \cup {Head(qudata)}
<1>1. qudata \in Seq(C!Values) /\ got \in Seq(C!Values) BY DEF C!TypeOK
<1>2. ASSUME NEW v, qudata' = Append(qudata, v) PROVE Here' = Here \cup {v}
  BY <1>1, <1>2, ElemsAppend DEF Here
<1>3. ASSUME NEW v, got' = Append(got, v) PROVE Came' = Came \cup {v}
  BY <1>1, <1>3, ElemsAppend DEF Came
<1>4. ASSUME qudata # <<>>, qudata' = Tail(qudata)
      PROVE  /\ Head(qudata) \in C!Values /\ Head(qudata) \in Here
             /\ Here = Here' \cup {Head(qudata)}
  BY <1>1, <1>4, ElemsTail DEF Here
<1> QED BY <1>2, <1>3, <1>4 DEF Here, Came

LEMMA KnownValues == ASSUME C!TypeOK PROVE Known \subseteq C!Values /\ Here \subseteq C!Values
<1>1. qudata \in Seq(C!Values) /\ got \in Seq(C!Values) BY DEF C!TypeOK
<1>2. \A q \in Seq(C!Values) : Elems(q) \subseteq C!Values BY DEF Elems
<1>3. Here \subseteq C!Values /\ Came \subseteq C!Values BY <1>1, <1>2 DEF Here, Came
<1> QED BY <1>3 DEF Known, C!TypeOK

\* The value of a send under way is one, and so is a value offered.
LEMMA PendingValue ==
  ASSUME C!TypeOK, Fates, C!ChanAssumption
  PROVE  /\ \A s \in Senders : Pending(s) => C!Value(s) \in C!Values
         /\ ~C!Buffered /\ w_waiting > 0 =>
              /\ w_mu \in Senders /\ data = C!Value(w_mu) /\ Pending(w_mu) /\ c_at[w_mu] # "enter"
              /\ data \in C!Values
<1>1. \A s \in Senders : Pending(s) => C!Value(s) \in C!Values
  BY DEF Fates, Fresh, C!Value, C!Values, C!TypeOK, C!ChanAssumption
<1>2. ASSUME ~C!Buffered, w_waiting > 0
      PROVE  w_mu \in Senders /\ data = C!Value(w_mu) /\ Pending(w_mu) /\ c_at[w_mu] # "enter"
  BY <1>2 DEF Fates, Offer, Pending
<1> QED BY <1>1, <1>2

LEMMA NumberedStep ==
  ASSUME C!ChanAssumption, C!TypeOK, Fates, ChanKinds
  PROVE  Numbered'
<1> USE DEF Known
<1>1. Numbered /\ Known \subseteq C!Values BY KnownValues DEF Fates
<1>2. made \in [Senders -> Int] BY DEF C!TypeOK, C!ChanAssumption
<1>3. \A s \in Senders : C!Value(s)[1] = s /\ C!Value(s)[2] = made[s] BY DEF C!Value
<1>4. ASSUME NEW s \in Senders, Begins(s) PROVE Numbered'
  <2>1. Known' \subseteq Known \cup {<<s, made[s] + 1>>} BY <1>4, Ranges DEF Begins
  <2>2. \A v \in Known : v[1] \in Senders /\ v[2] \in Int BY <1>1 DEF C!Values
  <2>3. \A x \in Senders : made'[x] >= made[x] /\ made'[x] \in Int BY <1>2, <1>4 DEF Begins
  <2>4. made'[s] = made[s] + 1 BY <1>2, <1>4 DEF Begins
  <2>5. \A v \in Known : v[2] <= made'[v[1]] BY <1>1, <1>2, <2>2, <2>3 DEF Numbered
  <2> QED BY <1>2, <2>1, <2>4, <2>5 DEF Numbered
<1>5. ASSUME UNCHANGED made, \E s \in Senders : Known' \subseteq Known \cup {C!Value(s)}
      PROVE  Numbered'
  BY <1>1, <1>2, <1>3, <1>5 DEF Numbered
<1>6. ASSUME UNCHANGED made, Known' \subseteq Known PROVE Numbered'
  BY <1>1, <1>6 DEF Numbered
<1>7. ASSUME NEW s \in Senders, Fails(s) \/ Puts(s) \/ Learns(s) \/ Offers(s) PROVE Numbered'
  <2>1. UNCHANGED made /\ Known' \subseteq Known \cup {C!Value(s)}
    BY <1>7, Ranges DEF Fails, Puts, Learns, Offers
  <2> QED BY <1>5, <2>1
<1>8. CASE Pops
  <2>1. UNCHANGED made /\ Known' \subseteq Known BY <1>8, Ranges DEF Pops
  <2> QED BY <1>6, <2>1
<1>9. CASE TakesIt
  <2>1. w_mu \in Senders /\ data = C!Value(w_mu) BY <1>9, PendingValue DEF TakesIt
  <2>2. UNCHANGED made /\ Known' \subseteq Known \cup {data} BY <1>9, Ranges DEF TakesIt
  <2> QED BY <1>5, <2>1, <2>2
<1>10. CASE Quiet
  <2>1. UNCHANGED made /\ Known' \subseteq Known BY <1>10, Ranges DEF Quiet
  <2> QED BY <1>6, <2>1
<1> QED BY <1>4, <1>7, <1>8, <1>9, <1>10 DEF ChanKinds, OfSender

LEMMA FreshStep ==
  ASSUME C!ChanAssumption, C!TypeOK, Fates, ChanKinds
  PROVE  Fresh'
<1>1. Fresh /\ Numbered BY DEF Fates
<1>2. made \in [Senders -> Int] /\ \A s \in Senders : made[s] >= 0 BY DEF C!TypeOK, C!ChanAssumption
<1>3. \A x, s \in Senders : x # s => C!Value(x) # C!Value(s) BY DEF C!Value
\* One whose send is not touched, while one value of another at most gets a fate.
<1>4. ASSUME NEW x \in Senders, Stays(x), NEW v, v # C!Value(x), made'[x] = made[x], UNCHANGED cap,
             returned' \cup failed' \cup Here' \subseteq returned \cup failed \cup Here \cup {v},
             Came' \subseteq Came \cup {v}
      PROVE  Pending(x)' =>
               /\ made'[x] >= 1 /\ C!Value(x)' \notin returned' \cup failed' \cup Here'
               /\ C!Buffered' \/ c_at'[x] = "enter" => C!Value(x)' \notin Came'
  <2>1. C!Value(x)' = C!Value(x) /\ (C!Buffered' <=> C!Buffered) BY <1>4 DEF C!Value, C!Buffered
  <2> QED BY <1>1, <1>4, <2>1 DEF Fresh, Stays
<1>5. ASSUME NEW s \in Senders, Begins(s), \A x \in Senders \ {s} : Stays(x) PROVE Fresh'
  <2> DEFINE v == <<s, made[s] + 1>>
  <2> HIDE DEF v
  <2>1. ASSUME NEW x \in Senders \ {s}
        PROVE  Pending(x)' =>
                 /\ made'[x] >= 1 /\ C!Value(x)' \notin returned' \cup failed' \cup Here'
                 /\ C!Buffered' \/ c_at'[x] = "enter" => C!Value(x)' \notin Came'
    <3>1. v # C!Value(x) /\ made'[x] = made[x] BY <1>2, <1>5 DEF C!Value, Begins, v
    <3>2. /\ returned' \cup failed' \cup Here' \subseteq returned \cup failed \cup Here \cup {v}
          /\ Came' \subseteq Came \cup {v} /\ UNCHANGED cap
      BY <1>5, Ranges DEF Begins, v
    <3> QED BY <1>4, <1>5, <3>1, <3>2
  <2>2. made'[s] = made[s] + 1 /\ C!Value(s)' = v BY <1>2, <1>5 DEF Begins, C!Value, v
  <2>3. v \notin Known BY <1>1, <1>2 DEF Numbered, v
  <2>4. CASE c_at'[s] = "out" BY <2>1, <2>4 DEF Fresh, Pending
  <2>5. CASE c_at'[s] = "enter"
    <3>1. returned' = returned /\ failed' = failed /\ Here' = Here /\ Came' = Came
      BY <1>5, <2>5, Ranges DEF Begins
    <3> QED BY <1>2, <2>1, <2>2, <2>3, <3>1 DEF Fresh, Known
  <2> QED BY <1>5, <2>4, <2>5 DEF Begins
<1>6. ASSUME NEW s \in Senders, Fails(s) \/ Puts(s) \/ Learns(s), \A x \in Senders \ {s} : Stays(x)
      PROVE  Fresh'
  <2>1. /\ UNCHANGED made /\ UNCHANGED cap /\ c_at'[s] \in {"out", "signal"}
        /\ returned' \cup failed' \cup Here'
             \subseteq returned \cup failed \cup Here \cup {C!Value(s)}
        /\ Came' = Came
    BY <1>6, Ranges DEF Fails, Puts, Learns
  <2>2. ~Pending(s)' BY <2>1 DEF Pending
  <2> QED BY <1>3, <1>4, <1>6, <2>1, <2>2 DEF Fresh
<1>7. ASSUME NEW s \in Senders, Offers(s), \A x \in Senders \ {s} : Stays(x) PROVE Fresh'
  <2>1. /\ UNCHANGED made /\ UNCHANGED cap /\ c_at[s] = "enter" /\ c_at'[s] = "sleep" /\ ~C!Buffered
        /\ returned' = returned /\ failed' = failed /\ Here' = Here /\ Came' = Came
    BY <1>7, Ranges DEF Offers
  <2>2. C!Value(s)' = C!Value(s) /\ ~C!Buffered' BY <2>1 DEF C!Value, C!Buffered
  <2>3. made[s] >= 1 /\ C!Value(s) \notin returned \cup failed \cup Here
    BY <1>1, <2>1 DEF Fresh, Pending
  <2> QED BY <1>3, <1>4, <1>7, <2>1, <2>2, <2>3 DEF Fresh
<1>8. ASSUME Pops, \A x \in Senders : Stays(x) PROVE Fresh'
  <2>1. /\ UNCHANGED made /\ UNCHANGED cap /\ Head(qudata) \in Here
        /\ returned' = returned /\ failed' = failed /\ Here' \subseteq Here
        /\ Came' = Came \cup {Head(qudata)}
    BY <1>8, Ranges DEF Pops
  <2>2. \A x \in Senders : Pending(x) => Head(qudata) # C!Value(x) BY <1>1, <2>1 DEF Fresh
  <2>3. \A x \in Senders : Pending(x)' => Pending(x) BY <1>8 DEF Stays
  <2> QED BY <1>4, <1>8, <2>1, <2>2, <2>3 DEF Fresh
<1>9. ASSUME TakesIt, \A x \in Senders : Stays(x) PROVE Fresh'
  <2>1. /\ UNCHANGED made /\ UNCHANGED cap /\ ~C!Buffered
        /\ returned' = returned /\ failed' = failed /\ Here' = Here /\ Came' = Came \cup {data}
    BY <1>9, Ranges DEF TakesIt
  <2>2. w_mu \in Senders /\ data = C!Value(w_mu) /\ c_at[w_mu] # "enter"
    BY <1>9, PendingValue DEF TakesIt
  <2>3. \A x \in Senders : C!Value(x)' = C!Value(x) BY <2>1 DEF C!Value
  <2>4. ASSUME NEW x \in Senders, Pending(x)'
        PROVE  /\ made'[x] >= 1 /\ C!Value(x)' \notin returned' \cup failed' \cup Here'
               /\ C!Buffered' \/ c_at'[x] = "enter" => C!Value(x)' \notin Came'
    <3>1. Pending(x) /\ (c_at'[x] = "enter" => c_at[x] = "enter") BY <1>9, <2>4 DEF Stays
    <3>2. ~C!Buffered' BY <2>1 DEF C!Buffered
    <3>3. made[x] >= 1 /\ C!Value(x) \notin returned \cup failed \cup Here BY <1>1, <3>1 DEF Fresh
    <3>4. c_at'[x] = "enter" => C!Value(x) \notin Came /\ x # w_mu
      BY <1>1, <2>2, <3>1 DEF Fresh
    <3> QED BY <1>3, <2>1, <2>2, <2>3, <3>2, <3>3, <3>4
  <2> QED BY <2>4 DEF Fresh
<1>10. ASSUME Quiet, \A x \in Senders : Stays(x) PROVE Fresh'
  <2>1. /\ UNCHANGED made /\ UNCHANGED cap
        /\ returned' = returned /\ failed' = failed /\ Here' = Here /\ Came' = Came
    BY <1>10, Ranges DEF Quiet
  <2>2. \A x \in Senders : C!Value(x)' = C!Value(x) /\ (C!Buffered' <=> C!Buffered)
    BY <2>1 DEF C!Value, C!Buffered
  <2> QED BY <1>1, <1>10, <2>1, <2>2 DEF Fresh, Stays
<1> QED BY <1>5, <1>6, <1>7, <1>8, <1>9, <1>10 DEF ChanKinds, OfSender

LEMMA OfferStep ==
  ASSUME C!ChanAssumption, C!TypeOK, Waits, Fates, ChanKinds
  PROVE  Offer'
<1>1. Offer /\ Fresh BY DEF Fates
<1>2. /\ made \in [Senders -> Int] /\ w_waiting \in Nat /\ Free \notin Senders
      /\ w_mu \in Senders \cup {Free} /\ (~C!Buffered => w_waiting \in {0, 1})
  BY OneOffer, TwoSides DEF C!TypeOK, C!ChanAssumption
<1>3. UNCHANGED cap
  BY DEF ChanKinds, OfSender, Begins, Fails, Puts, Learns, Offers, Pops, TakesIt, Quiet
<1> SUFFICES ASSUME ~C!Buffered
             PROVE  /\ \A s \in Senders : w_mu' = s <=> c_at'[s] \in {"sleep", "woken"}
                    /\ w_waiting' > 0 =>
                         w_mu' \in Senders /\ data' = C!Value(w_mu)' /\ C!Value(w_mu)' \notin Came'
                    /\ w_waiting' = 0 /\ w_mu' \in Senders => C!Value(w_mu)' \in Came'
  BY <1>3 DEF Offer, C!Buffered
<1>4. /\ \A s \in Senders : w_mu = s <=> c_at[s] \in {"sleep", "woken"}
      /\ w_waiting > 0 => w_mu \in Senders /\ data = C!Value(w_mu) /\ C!Value(w_mu) \notin Came
      /\ w_waiting = 0 /\ w_mu \in Senders => C!Value(w_mu) \in Came
  BY <1>1 DEF Offer
<1>5. \A x \in Senders :
        Stays(x) => (c_at'[x] \in {"sleep", "woken"} <=> c_at[x] \in {"sleep", "woken"})
  BY DEF Stays
<1>6. ASSUME NEW s \in Senders, Begins(s), \A x \in Senders \ {s} : Stays(x)
      PROVE  /\ \A x \in Senders : w_mu' = x <=> c_at'[x] \in {"sleep", "woken"}
             /\ w_waiting' > 0 =>
                  w_mu' \in Senders /\ data' = C!Value(w_mu)' /\ C!Value(w_mu)' \notin Came'
             /\ w_waiting' = 0 /\ w_mu' \in Senders => C!Value(w_mu)' \in Came'
  <2>1. UNCHANGED <<w_mu, w_waiting, data>> /\ Came' = Came BY <1>6, Ranges DEF Begins
  <2>2. c_at[s] = "out" /\ c_at'[s] \in {"out", "enter"} BY <1>6 DEF Begins
  <2>3. w_mu # s BY <1>4, <2>2
  <2>4. w_mu \in Senders => C!Value(w_mu)' = C!Value(w_mu)
    BY <1>2, <1>6, <2>1, <2>3 DEF Begins, C!Value
  <2>5. \A x \in Senders : w_mu' = x <=> c_at'[x] \in {"sleep", "woken"}
    BY <1>4, <1>5, <1>6, <2>1, <2>2, <2>3
  <2> QED BY <1>4, <2>1, <2>4, <2>5
<1>7. ASSUME NEW s \in Senders, Fails(s), \A x \in Senders \ {s} : Stays(x)
      PROVE  /\ \A x \in Senders : w_mu' = x <=> c_at'[x] \in {"sleep", "woken"}
             /\ w_waiting' > 0 =>
                  w_mu' \in Senders /\ data' = C!Value(w_mu)' /\ C!Value(w_mu)' \notin Came'
             /\ w_waiting' = 0 /\ w_mu' \in Senders => C!Value(w_mu)' \in Came'
  <2>1. UNCHANGED <<made, data>> /\ Came' = Came /\ c_at'[s] = "out"
    BY <1>7, Ranges DEF Fails
  <2>2. CASE c_at[s] = "enter" /\ UNCHANGED <<w_mu, w_waiting>>
    <3>1. w_mu # s BY <1>4, <2>2
    <3>2. C!Value(w_mu)' = C!Value(w_mu) BY <2>1, <2>2 DEF C!Value
    <3>3. \A x \in Senders : w_mu' = x <=> c_at'[x] \in {"sleep", "woken"}
      BY <1>4, <1>5, <1>7, <2>1, <2>2, <3>1
    <3> QED BY <1>4, <2>1, <2>2, <3>2, <3>3
  <2>3. CASE c_at[s] = "woken" /\ w_waiting' = 0 /\ w_mu' = Free
    <3>1. w_mu = s BY <1>4, <2>3
    <3>2. \A x \in Senders : w_mu' = x <=> c_at'[x] \in {"sleep", "woken"}
      BY <1>2, <1>4, <1>5, <1>7, <2>1, <2>3, <3>1
    <3> QED BY <1>2, <2>3, <3>2
  <2> QED BY <1>7, <2>2, <2>3 DEF Fails
<1>8. ASSUME NEW s \in Senders, Learns(s), \A x \in Senders \ {s} : Stays(x)
      PROVE  /\ \A x \in Senders : w_mu' = x <=> c_at'[x] \in {"sleep", "woken"}
             /\ w_waiting' > 0 =>
                  w_mu' \in Senders /\ data' = C!Value(w_mu)' /\ C!Value(w_mu)' \notin Came'
             /\ w_waiting' = 0 /\ w_mu' \in Senders => C!Value(w_mu)' \in Came'
  <2>1. c_at[s] = "woken" /\ c_at'[s] = "out" /\ w_waiting' = 0 /\ w_mu' = Free BY <1>8 DEF Learns
  <2>2. w_mu = s BY <1>4, <2>1
  <2>3. \A x \in Senders : w_mu' = x <=> c_at'[x] \in {"sleep", "woken"}
    BY <1>2, <1>4, <1>5, <1>8, <2>1, <2>2
  <2> QED BY <1>2, <2>1, <2>3
<1>9. ASSUME NEW s \in Senders, Offers(s), \A x \in Senders \ {s} : Stays(x)
      PROVE  /\ \A x \in Senders : w_mu' = x <=> c_at'[x] \in {"sleep", "woken"}
             /\ w_waiting' > 0 =>
                  w_mu' \in Senders /\ data' = C!Value(w_mu)' /\ C!Value(w_mu)' \notin Came'
             /\ w_waiting' = 0 /\ w_mu' \in Senders => C!Value(w_mu)' \in Came'
  <2>1. /\ c_at[s] = "enter" /\ c_at'[s] = "sleep" /\ w_mu = Free /\ w_mu' = s /\ w_waiting' > 0
        /\ data' = C!Value(s) /\ UNCHANGED made /\ Came' = Came
    BY <1>9, Ranges DEF Offers
  <2>2. C!Value(s) \notin Came BY <1>1, <2>1 DEF Fresh, Pending
  <2>3. C!Value(w_mu)' = C!Value(s) BY <2>1 DEF C!Value
  <2>4. \A x \in Senders : w_mu' = x <=> c_at'[x] \in {"sleep", "woken"}
    BY <1>2, <1>4, <1>5, <1>9, <2>1
  <2> QED BY <2>1, <2>2, <2>3, <2>4
<1>10. ASSUME TakesIt \/ Quiet, \A x \in Senders : Stays(x)
       PROVE  /\ \A x \in Senders : w_mu' = x <=> c_at'[x] \in {"sleep", "woken"}
              /\ w_waiting' > 0 =>
                   w_mu' \in Senders /\ data' = C!Value(w_mu)' /\ C!Value(w_mu)' \notin Came'
              /\ w_waiting' = 0 /\ w_mu' \in Senders => C!Value(w_mu)' \in Came'
  <2>1. UNCHANGED <<made, data, w_mu>> BY <1>10 DEF TakesIt, Quiet
  <2>2. C!Value(w_mu)' = C!Value(w_mu) BY <2>1 DEF C!Value
  <2>3. \A x \in Senders : w_mu' = x <=> c_at'[x] \in {"sleep", "woken"}
    BY <1>4, <1>5, <1>10, <2>1
  <2>4. CASE TakesIt
    <3>1. w_waiting > 0 /\ w_waiting' = 0 /\ Came' = Came \cup {data} BY <2>4, Ranges DEF TakesIt
    <3> QED BY <1>4, <2>1, <2>2, <2>3, <3>1
  <2>5. CASE Quiet
    <3>1. w_waiting' = w_waiting /\ Came' = Came BY <2>5, Ranges DEF Quiet
    <3> QED BY <1>4, <2>1, <2>2, <2>3, <3>1
  <2> QED BY <1>10, <2>4, <2>5
<1>11. \A s \in Senders : ~Puts(s) BY DEF Puts
<1>12. ~Pops BY DEF Pops
<1> QED BY <1>6, <1>7, <1>8, <1>9, <1>10, <1>11, <1>12 DEF ChanKinds, OfSender

\* A value that failed was not received, nor one that was received will fail.
LEMMA ApartStep ==
  ASSUME C!ChanAssumption, C!TypeOK, Fates, ChanKinds
  PROVE  Apart'
<1>1. Apart /\ Fresh /\ Numbered /\ Kept BY DEF Fates
<1>2. made \in [Senders -> Int] BY DEF C!TypeOK, C!ChanAssumption
<1>3. ASSUME NEW s \in Senders, Begins(s) PROVE Apart'
  <2>1. /\ returned' = returned /\ Here' = Here /\ Came' = Came
        /\ failed' \subseteq failed \cup {<<s, made[s] + 1>>}
    BY <1>3, Ranges DEF Begins
  <2>2. <<s, made[s] + 1>> \notin Known BY <1>1, <1>2 DEF Numbered
  <2> QED BY <1>1, <2>1, <2>2 DEF Apart, Known
<1>4. ASSUME NEW s \in Senders, Fails(s) PROVE Apart'
  <2>1. returned' = returned /\ Here' = Here /\ Came' = Came /\ failed' = failed \cup {C!Value(s)}
    BY <1>4, Ranges DEF Fails
  <2>2. C!Value(s) \notin returned \cup Here BY <1>1, <1>4 DEF Fails, Fresh
  <2>3. C!Value(s) \notin Came
    <3>1. CASE C!Buffered \/ c_at[s] = "enter" BY <1>1, <1>4, <3>1 DEF Fails, Fresh
    <3>2. CASE ~C!Buffered /\ c_at[s] = "woken" /\ w_waiting > 0
      BY <3>2 DEF Fates, Offer
    <3> QED BY <1>4, <3>1, <3>2 DEF Fails
  <2> QED BY <1>1, <2>1, <2>2, <2>3 DEF Apart
<1>5. ASSUME NEW s \in Senders, Puts(s) \/ Learns(s) PROVE Apart'
  <2>1. C!Value(s) \notin failed BY <1>1, <1>5 DEF Puts, Learns, Fresh, Pending
  <2>2. /\ returned' = returned \cup {C!Value(s)} /\ Here' \subseteq Here \cup {C!Value(s)}
        /\ Came' = Came
        /\ failed' = failed
    BY <1>5, Ranges DEF Puts, Learns
  <2> QED BY <1>1, <2>1, <2>2 DEF Apart
<1>6. ASSUME NEW s \in Senders, Offers(s) PROVE Apart'
  <2>1. returned' = returned /\ Here' = Here /\ Came' = Came /\ failed' = failed
    BY <1>6, Ranges DEF Offers
  <2> QED BY <1>1, <2>1 DEF Apart
<1>7. CASE Pops
  <2>1. returned' = returned /\ Here' \cup Came' \subseteq Here \cup Came /\ failed' = failed
    BY <1>7, Ranges DEF Pops
  <2> QED BY <1>1, <2>1 DEF Apart
<1>8. CASE TakesIt
  <2>1. returned' = returned /\ Here' = Here /\ Came' = Came \cup {data} /\ failed' = failed
    BY <1>8, Ranges DEF TakesIt
  <2>2. data \notin failed BY <1>1, <1>8, PendingValue DEF TakesIt, Fresh
  <2> QED BY <1>1, <2>1, <2>2 DEF Apart
<1>9. CASE Quiet
  <2>1. returned' = returned /\ Here' = Here /\ Came' = Came /\ failed' = failed
    BY <1>9, Ranges DEF Quiet
  <2> QED BY <1>1, <2>1 DEF Apart
<1> QED BY <1>3, <1>4, <1>5, <1>6, <1>7, <1>8, <1>9 DEF ChanKinds, OfSender

\* A value that was sent is queued until it is received.
LEMMA KeptStep ==
  ASSUME C!ChanAssumption, C!TypeOK, Fates, ChanKinds
  PROVE  Kept'
<1>1. Kept BY DEF Fates
<1>2. ASSUME NEW s \in Senders, Puts(s) PROVE Kept'
  <2>1. returned' = returned \cup {C!Value(s)} /\ Here' = Here \cup {C!Value(s)} /\ Came' = Came
    BY <1>2, Ranges DEF Puts
  <2> QED BY <1>1, <2>1 DEF Kept
<1>3. ASSUME NEW s \in Senders, Learns(s) PROVE Kept'
  <2>1. returned' = returned \cup {C!Value(s)} /\ Here' = Here /\ Came' = Came
    BY <1>3, Ranges DEF Learns
  <2>2. C!Value(s) \in Came BY <1>3 DEF Learns, Fates, Offer
  <2> QED BY <1>1, <2>1, <2>2 DEF Kept
<1>4. ASSUME NEW s \in Senders, Begins(s) \/ Fails(s) \/ Offers(s) PROVE Kept'
  <2>1. returned' = returned /\ Here' = Here /\ Came' = Came
    BY <1>4, Ranges DEF Begins, Fails, Offers
  <2> QED BY <1>1, <2>1 DEF Kept
<1>5. CASE Pops \/ TakesIt \/ Quiet
  <2>1. returned' = returned /\ Here \cup Came \subseteq Here' \cup Came'
    BY <1>5, Ranges DEF Pops, TakesIt, Quiet
  <2> QED BY <1>1, <2>1 DEF Kept
<1> QED BY <1>2, <1>3, <1>4, <1>5 DEF ChanKinds, OfSender

\* The values of a sender are queued and received in the order of their numbers.
LEMMA InSequenceStep ==
  ASSUME C!ChanAssumption, C!TypeOK, Fates, ChanKinds
  PROVE  InSequence'
<1>1. /\ InSequence /\ Fresh /\ Numbered /\ Known \subseteq C!Values
      /\ qudata \in Seq(C!Values) /\ got \in Seq(C!Values)
  BY KnownValues DEF Fates, C!TypeOK
<1>2. made \in [Senders -> Int] BY DEF C!TypeOK, C!ChanAssumption
<1>3. Ordered(qudata') = Ordered(qudata)' /\ Ordered(got') = Ordered(got)' BY DEF Ordered
<1>4. ASSUME NEW s \in Senders, NEW K, K \subseteq Known, C!Value(s) \notin K
      PROVE  \A v \in K : Before(v, C!Value(s))
  <2> SUFFICES ASSUME NEW v \in K, v[1] = C!Value(s)[1] PROVE v[2] < C!Value(s)[2] BY DEF Before
  <2>1. v \in C!Values /\ v[2] <= made[v[1]] BY <1>1, <1>4 DEF Numbered
  <2>2. v = <<v[1], v[2]>> /\ v[2] \in Int BY <2>1 DEF C!Values
  <2>3. v[1] = s /\ v # <<s, made[s]>> BY <1>4 DEF C!Value
  <2> QED BY <1>2, <2>1, <2>2, <2>3 DEF C!Value
<1>5. ASSUME UNCHANGED <<qudata, got>> PROVE InSequence'
  BY <1>1, <1>5 DEF InSequence, Here, Came, Ordered
<1>6. ASSUME NEW s \in Senders, Puts(s) PROVE InSequence'
  <2>1. qudata' = Append(qudata, C!Value(s)) /\ UNCHANGED got BY <1>6 DEF Puts
  <2>2. Here' = Here \cup {C!Value(s)} /\ Came' = Came BY <2>1, Ranges
  <2>3. C!Value(s) \notin Here \cup Came BY <1>1, <1>6 DEF Puts, Fresh
  <2>4. \A v \in Here \cup Came : Before(v, C!Value(s)) BY <1>4, <2>3 DEF Known
  <2>5. Ordered(qudata') BY <1>1, <2>1, <2>4, OrderedAppend DEF InSequence, Here
  <2>6. Ordered(got') BY <1>1, <2>1 DEF InSequence, Ordered
  <2>7. \A v \in Came', w \in Here' : Before(v, w) BY <1>1, <2>2, <2>4 DEF InSequence
  <2> QED BY <1>3, <2>5, <2>6, <2>7 DEF InSequence, Before
<1>7. CASE Pops
  <2>1. qudata # <<>> /\ qudata' = Tail(qudata) /\ got' = Append(got, Head(qudata))
    BY <1>7 DEF Pops
  <2>2. /\ Head(qudata) \in Here /\ Here = Here' \cup {Head(qudata)}
        /\ Came' = Came \cup {Head(qudata)}
    BY <2>1, Ranges
  <2>3. Ordered(qudata') /\ \A x \in Here' : Before(Head(qudata), x)
    BY <1>1, <2>1, OrderedTail DEF InSequence, Here
  <2>4. Ordered(got') BY <1>1, <2>1, <2>2, OrderedAppend DEF InSequence, Came
  <2>5. \A v \in Came', w \in Here' : Before(v, w) BY <1>1, <2>2, <2>3 DEF InSequence
  <2> QED BY <1>3, <2>3, <2>4, <2>5 DEF InSequence, Before
<1>8. CASE TakesIt
  <2>1. got' = Append(got, data) /\ UNCHANGED qudata /\ ~C!Buffered BY <1>8 DEF TakesIt
  <2>2. w_mu \in Senders /\ data = C!Value(w_mu) BY <1>8, PendingValue DEF TakesIt
  <2>3. data \notin Came BY <1>8 DEF TakesIt, Fates, Offer
  <2>4. \A v \in Came : Before(v, data) BY <1>4, <2>2, <2>3 DEF Known
  <2>5. Ordered(got') BY <1>1, <2>1, <2>4, OrderedAppend DEF InSequence, Came
  <2>6. Ordered(qudata') BY <1>1, <2>1 DEF InSequence, Ordered
  <2>7. Here' = {}
    <3>1. qudata = <<>> BY <2>1 DEF C!TypeOK, C!Buffered, C!ChanAssumption
    <3> QED BY <2>1, <3>1 DEF Here, Elems
  <2> QED BY <1>3, <2>5, <2>6, <2>7 DEF InSequence, Before
<1>9. ASSUME NEW s \in Senders, Begins(s) \/ Fails(s) \/ Learns(s) \/ Offers(s) PROVE InSequence'
  BY <1>5, <1>9 DEF Begins, Fails, Learns, Offers
<1>10. CASE Quiet BY <1>5, <1>10 DEF Quiet
<1> QED BY <1>6, <1>7, <1>8, <1>9, <1>10 DEF ChanKinds, OfSender

-----------------------------------------------------------------------------
(* The invariant *)

\* The values stay in their types.
LEMMA ValuesStep ==
  ASSUME C!ChanAssumption, C!TypeOK, Fates, ChanKinds
  PROVE  /\ cap' = cap /\ made' \in [Senders -> 0 .. MaxSend]
         /\ returned' \subseteq C!Values /\ failed' \subseteq C!Values /\ got' \in Seq(C!Values)
         /\ qudata' \in Seq(C!Values) /\ Len(qudata') <= cap /\ data' \in C!Values \cup {<<>>}
         /\ w_mu' \in Senders \cup {Free}
<1>1. /\ made \in [Senders -> 0 .. MaxSend]
      /\ returned \subseteq C!Values /\ failed \subseteq C!Values
      /\ got \in Seq(C!Values) /\ qudata \in Seq(C!Values) /\ Len(qudata) <= cap
      /\ data \in C!Values \cup {<<>>} /\ w_mu \in Senders \cup {Free}
      /\ MaxSend \in Nat /\ cap \in Nat
  BY DEF C!TypeOK, C!ChanAssumption
<1>2. ASSUME NEW s \in Senders, Begins(s)
      PROVE  /\ made' \in [Senders -> 0 .. MaxSend] /\ failed' \subseteq C!Values
             /\ UNCHANGED <<cap, returned, qudata, got, data, w_mu>>
  <2>1. made[s] + 1 \in 1 .. MaxSend BY <1>1, <1>2 DEF Begins
  <2>2. made' \in [Senders -> 0 .. MaxSend] BY <1>1, <1>2, <2>1 DEF Begins
  <2>3. <<s, made[s] + 1>> \in C!Values BY <2>1 DEF C!Values
  <2> QED BY <1>1, <1>2, <2>2, <2>3 DEF Begins
<1>3. ASSUME NEW s \in Senders, Fails(s)
      PROVE  /\ failed' \subseteq C!Values /\ UNCHANGED <<cap, made, returned, qudata, got, data>>
             /\ w_mu' \in Senders \cup {Free}
  BY <1>1, <1>3, PendingValue DEF Fails
<1>4. ASSUME NEW s \in Senders, Puts(s)
      PROVE  /\ returned' \subseteq C!Values /\ qudata' \in Seq(C!Values) /\ Len(qudata') <= cap
             /\ UNCHANGED <<cap, made, failed, got, data, w_mu>>
  BY <1>1, <1>4, PendingValue DEF Puts
<1>5. ASSUME NEW s \in Senders, Learns(s)
      PROVE  /\ returned' \subseteq C!Values /\ UNCHANGED <<cap, made, failed, qudata, got, data>>
             /\ w_mu' \in Senders \cup {Free}
  BY <1>1, <1>5, PendingValue DEF Learns, Pending
<1>6. ASSUME NEW s \in Senders, Offers(s)
      PROVE  /\ data' \in C!Values /\ UNCHANGED <<cap, made, returned, failed, qudata, got>>
             /\ w_mu' \in Senders
  BY <1>1, <1>6, PendingValue DEF Offers, Pending
<1>7. CASE Pops
  <2>1. Head(qudata) \in C!Values BY <1>7, Ranges DEF Pops
  <2>2. qudata' \in Seq(C!Values) /\ Len(qudata') <= cap /\ got' \in Seq(C!Values)
    BY <1>1, <1>7, <2>1 DEF Pops
  <2> QED BY <1>1, <1>7, <2>2 DEF Pops
<1>8. CASE TakesIt
  <2>1. data \in C!Values BY <1>8, PendingValue DEF TakesIt
  <2> QED BY <1>1, <1>8, <2>1 DEF TakesIt
<1>9. CASE Quiet BY <1>1, <1>9 DEF Quiet
<1> QED BY <1>1, <1>2, <1>3, <1>4, <1>5, <1>6, <1>7, <1>8, <1>9 DEF ChanKinds, OfSender

\* A thread goes to another place, and the flag and the receiver inside stay in their types.
LEMMA PlacesStep ==
  ASSUME C!ChanAssumption, C!TypeOK, C!Next
  PROVE  AtType' /\ closed' \in BOOLEAN /\ r_mu' \in Receivers \cup {Free}
<1>1. AtType /\ closed \in BOOLEAN /\ r_mu \in Receivers \cup {Free}
  BY DEF C!TypeOK, AtType, Ends, Stations
<1>2. \A t, a : a \in Stations /\ C!Goto(t, a) => AtType' BY <1>1 DEF C!Goto, AtType
<1>3. ASSUME NEW t, NEW a \in Stations, NEW U, C!GotoSignal(t, a, U) PROVE AtType'
  <2>1. \A f \in [Ends -> Stations] : [f EXCEPT ![t] = a] \in [Ends -> Stations] OBVIOUS
  <2>2. "woken" \in Stations BY DEF Stations
  <2>3. \A u : \A f \in [Ends -> Stations] : [f EXCEPT ![u] = "woken"] \in [Ends -> Stations]
    BY <2>2
  <2>4. \A u : [c_at EXCEPT ![t] = a, ![u] = "woken"] \in [Ends -> Stations]
    BY <1>1, <2>1, <2>2, <2>3 DEF AtType
  <2> QED BY <1>1, <1>3, <2>1, <2>4 DEF C!GotoSignal, AtType
<1>4. /\ "out" \in Stations /\ "enter" \in Stations /\ "sleep" \in Stations
      /\ "woken" \in Stations /\ "signal" \in Stations
  BY DEF Stations
<1>5. ASSUME NEW s \in Senders, C!Sends(s) PROVE AtType' /\ UNCHANGED <<closed, r_mu>>
  <2>1. UNCHANGED <<closed, r_mu>>
    BY <1>5 DEF C!Sends, C!Send, C!BufferedRefused, C!BufferedFull, C!BufferedPush, C!SendSignal,
          C!HandRefused,
           C!HandPut, C!HandTaken, C!HandWithdraw, C!HandWait
  <2>2. \/ UNCHANGED c_at
        \/ \E a \in Stations : C!Goto(s, a) \/ C!GotoSignal(s, a, Receivers)
    BY <1>4, <1>5 DEF C!Sends, C!Send, C!BufferedRefused, C!BufferedFull, C!BufferedPush,
          C!SendSignal,
           C!HandRefused, C!HandPut, C!HandTaken, C!HandWithdraw, C!HandWait
  <2> QED BY <1>1, <1>2, <1>3, <2>1, <2>2 DEF AtType
<1>6. ASSUME NEW r \in Receivers, C!Receives(r)
      PROVE  AtType' /\ UNCHANGED closed /\ r_mu' \in Receivers \cup {Free}
  <2>1. UNCHANGED closed /\ r_mu' \in Receivers \cup {Free}
    BY <1>1, <1>6 DEF C!Receives, C!Recv, C!BufferedPop, C!BufferedEmpty, C!RecvSignal,
          C!HandWaitFor,
           C!HandNothing, C!HandTake
  <2>2. \E a \in Stations : C!Goto(r, a) \/ C!GotoSignal(r, a, Senders)
    BY <1>4, <1>6 DEF C!Receives, C!Recv, C!BufferedPop, C!BufferedEmpty, C!RecvSignal,
          C!HandWaitFor,
           C!HandNothing, C!HandTake
  <2> QED BY <1>2, <1>3, <2>1, <2>2
<1>7. ASSUME NEW t \in Senders \cup Receivers, C!Spurious(t)
      PROVE  AtType' /\ UNCHANGED <<closed, r_mu>>
  BY <1>2, <1>4, <1>7 DEF C!Spurious
<1>8. CASE C!Close BY <1>1, <1>4, <1>8 DEF C!Close, AtType
<1> QED BY <1>1, <1>5, <1>6, <1>7, <1>8 DEF C!Next

LEMMA SumNat == \A m, n \in Nat : m + n \in Nat
  OBVIOUS

LEMMA ChanInit == ASSUME C!ChanAssumption, C!Init PROVE ChanInv
<1>1. C!TypeOK
  <2>1. /\ c_at \in [Senders \cup Receivers -> {"out", "enter", "sleep", "woken", "signal"}]
        /\ made \in [Senders -> 0 .. MaxSend] /\ cap \in Nat
    BY DEF C!Init, C!ChanAssumption
  <2>2. qudata = <<>> /\ got = <<>> /\ data = <<>> BY DEF C!Init
  <2>3. qudata \in Seq(C!Values) /\ got \in Seq(C!Values) /\ Len(qudata) = 0 BY <2>2
  <2>4. Len(qudata) <= cap /\ data \in C!Values \cup {<<>>} BY <2>1, <2>2, <2>3
  <2>5. /\ cap \in Caps /\ closed \in BOOLEAN /\ r_waiting \in Nat /\ w_waiting \in Nat
        /\ r_mu \in Receivers \cup {Free} /\ w_mu \in Senders \cup {Free}
        /\ returned \subseteq C!Values /\ failed \subseteq C!Values
    BY DEF C!Init
  <2> QED BY <2>1, <2>3, <2>4, <2>5 DEF C!TypeOK
<1>2. Waits
  <2>1. \A T, p : T \subseteq Ends /\ p # "out" => {t \in T : c_at[t] = p} = {}
    BY DEF C!Init, Ends
  <2>2. \A T, p : T \subseteq Ends /\ p # "out" => In(T, p) = 0 BY <2>1, FS_EmptySet DEF In
  <2>3. Counts /\ RSleep = 0 /\ RWoken = 0 /\ RSignal = 0 /\ SSleep = 0 /\ SWoken = 0 /\ SSignal = 0
    BY <2>2, TwoSides DEF Counts, RSleep, RWoken, RSignal, SSleep, SWoken, SSignal
  <2> QED BY <2>3 DEF C!Init, Waits, BufferedWaits, HandWaits
<1>3. Here = {} /\ Came = {} BY DEF C!Init, Here, Came, Elems
<1>4. Free \notin Senders BY TwoSides
<1>5. Fates
  BY <1>3, <1>4 DEF C!Init, Fates, Numbered, Known, Fresh, Pending, Offer, Apart, Kept, InSequence,
         Ordered
<1> QED BY <1>1, <1>2, <1>5 DEF ChanInv

LEMMA ChanStep == ASSUME C!ChanAssumption, ChanInv, [C!Next]_(C!vars) PROVE ChanInv'
<1>1. CASE UNCHANGED C!vars
  BY <1>1 DEF C!vars, C!history, ChanInv, C!TypeOK, Waits, BufferedWaits, HandWaits, C!Buffered,
        RSleep, RWoken, RSignal, SSleep, SWoken, SSignal, In, Fates, Numbered, Known, Fresh,
        Pending, Offer, Apart, Kept, InSequence, Ordered, Here, Came, Elems, C!Value
<1>2. CASE C!Next
  <2>1. C!TypeOK /\ Waits /\ Fates BY DEF ChanInv
  <2>2. Waits' BY <1>2, <2>1, SendsWaits, ReceivesWaits, OthersWaits DEF C!Next
  <2>3. ChanKinds BY <1>2, <2>1, SendsKinds, ReceivesKinds, OthersKinds DEF C!Next
  <2>4. Fates'
    BY <2>1, <2>3, NumberedStep, FreshStep, OfferStep, ApartStep, KeptStep, InSequenceStep DEF Fates
  <2>5. /\ cap' = cap /\ made' \in [Senders -> 0 .. MaxSend]
        /\ returned' \subseteq C!Values /\ failed' \subseteq C!Values /\ got' \in Seq(C!Values)
        /\ qudata' \in Seq(C!Values) /\ Len(qudata') <= cap /\ data' \in C!Values \cup {<<>>}
        /\ w_mu' \in Senders \cup {Free}
    BY <2>1, <2>3, ValuesStep
  <2>6. AtType' /\ closed' \in BOOLEAN /\ r_mu' \in Receivers \cup {Free}
    BY <1>2, <2>1, PlacesStep
  <2>7. RSleep' \in Nat /\ RWoken' \in Nat /\ SSleep' \in Nat /\ SWoken' \in Nat
    BY TwoSides, FS_Subset, FS_CardinalityType DEF RSleep, RWoken, SSleep, SWoken, In
  <2>8. r_waiting' \in Nat
    <3>1. r_waiting' = RSleep' + RWoken' BY <2>2 DEF Waits
    <3> QED BY <2>7, <3>1, SumNat, Zenon
  <2>9. w_waiting' \in Nat
    <3>1. CASE C!Buffered'
      <4>1. w_waiting' = SSleep' + SWoken' BY <2>2, <3>1 DEF Waits, BufferedWaits
      <4> QED BY <2>7, <4>1, SumNat, Zenon
    <3>2. CASE ~C!Buffered'
      <4>1. w_waiting \in Nat /\ ~C!Buffered BY <2>1, <2>5, <3>2 DEF C!TypeOK, C!Buffered
      <4> QED BY <2>3, <4>1
            DEF ChanKinds, OfSender, Begins, Fails, Puts, Learns, Offers, Pops, TakesIt, Quiet
    <3> QED BY <3>1, <3>2
  <2>10. C!TypeOK' BY <2>1, <2>5, <2>6, <2>8, <2>9 DEF C!TypeOK, AtType, Ends, Stations
  <2> QED BY <2>2, <2>4, <2>10 DEF ChanInv
<1> QED BY <1>1, <1>2

LEMMA ChanAlways == C!Spec => []ChanInv
<1>1. C!Init => ChanInv BY HandoffAssumption, ChanInit
<1>2. ChanInv /\ [C!Next]_(C!vars) => ChanInv' BY HandoffAssumption, ChanStep
<1> QED BY <1>1, <1>2, PTL DEF C!Spec

-----------------------------------------------------------------------------
(* The theorems *)

\* Every variable of a channel stays in its type, for any number of threads and any
\* capacity (chan.c).
THEOREM ChanTypesCorrect == C!Spec => []C!TypeOK
<1>1. ChanInv => C!TypeOK BY DEF ChanInv
<1> QED BY <1>1, ChanAlways, PTL

\* A failed send's value is never received, a successful one's is received once or is
\* still queued, and each sender's values come in their order (chan.c:66-170).
THEOREM SendsAreTrueCorrect == C!Spec => []SendsAreTrue
<1>1. ASSUME ChanInv PROVE SendsAreTrue
  <2>1. C!TypeOK /\ Fates BY <1>1 DEF ChanInv
  <2>2. got \in Seq(C!Values) /\ Ordered(got) BY <2>1 DEF C!TypeOK, Fates, InSequence
  <2>3. Cardinality(Came) = Len(got) BY <2>2, OrderedNoRepeat DEF Came
  <2>4. \A i, j \in DOMAIN got : i < j /\ got[i][1] = got[j][1] => got[i][2] < got[j][2]
    BY <2>2 DEF Ordered, Before
  <2>5. /\ failed \cap (Here \cup Came) = {} /\ returned \cap failed = {}
        /\ returned \subseteq Here \cup Came
    BY <2>1 DEF Fates, Apart, Kept
  <2>6. C!Cardinality(Came) = Len(got) BY <2>3, SameFinite
  <2> QED BY <2>4, <2>5, <2>6 DEF SendsAreTrue, C!SendsAreTrue, Here, Came, Elems
<1> QED BY <1>1, ChanAlways, PTL

\* No wake-up of a channel is lost (chan.c:66-170).
THEOREM NobodyForgottenCorrect == C!Spec => []NobodyForgotten
<1>1. ASSUME ChanInv PROVE NobodyForgotten
  BY <1>1, HandoffAssumption, WaitsForgetNobody DEF ChanInv, NobodyForgotten
<1> QED BY <1>1, ChanAlways, PTL

-----------------------------------------------------------------------------
(* The timing wheel: where a timer is *)

Cells == [n : Timers, ready : BOOLEAN]
Places == {"top", "drain", "run", "ran", "prepare", "show", "recheck", "commit", "asleep",
           "woke", "exited"}

Types ==
  /\ clock \in Nat /\ jiffies \in Nat /\ curtick \in Nat /\ wake_at \in Nat
  /\ at \in Places
  /\ wstate \in {"awake", "sleep", "waking"} /\ moved \in BOOLEAN /\ exit \in BOOLEAN
  /\ reqadd \in Seq(Cells)
  /\ expires \in [Timers -> Nat] /\ owed \in [Timers -> Nat]
  /\ slot \in [Timers -> {<<>>} \cup (Levels \X Nat)]
  /\ adder \in [Timers -> {"out", "publish", "look", "wake", "futex", "done"}]
  /\ main \in {"out", "wake", "futex", "join", "done"}

\* In slot s, a timer that expires at e and is owed tick o will be met in time from tick
\* j on: the slot begins at Unit * q, not yet passed and less than a turn ahead.
Fits(s, e, o, j) ==
  /\ s \in Levels \X Nat
  /\ s[1] = 1 \/ e = o
  /\ \E q \in Nat : /\ s[2] = q % Size(s[1])
                    /\ Unit(s[1]) * q <= o /\ o < Unit(s[1]) * q + Unit(s[1])
                    /\ j <= Unit(s[1]) * q /\ Unit(s[1]) * q < j + Turn(s[1])

WheelOK ==
  /\ wrong = {}
  /\ \A n \in Timers : slot[n] # <<>> => Fits(slot[n], expires[n], owed[n], jiffies)

\* A timer that was not added is nowhere.
QueueOK ==
  \A n \in Timers : adder[n] = "out" =>
    slot[n] = <<>> /\ \A i \in DOMAIN reqadd : reqadd[i].n # n

SleepOK ==
  at \in {"prepare", "show", "recheck", "commit", "asleep"} =>
    \A n \in Timers : slot[n] # <<>> => wake_at <= owed[n]

\* Who will make the epoch move, and who has and will wake the thread.
EpochComes == main = "wake" \/ \E n \in Timers : adder[n] = "wake"
FutexComes == main = "futex" \/ \E n \in Timers : adder[n] = "futex"

WakeOK ==
  /\ at \in {"recheck", "commit", "asleep"} =>
       wstate = "sleep" \/ (wstate = "waking" /\ (moved \/ EpochComes))
  /\ at \in {"commit", "asleep"} /\ ~moved =>
       /\ exit => main = "wake"
       /\ (\E i \in DOMAIN reqadd : reqadd[i].ready) =>
            EpochComes \/ (wstate = "sleep" /\ \E n \in Timers : adder[n] = "look")
  /\ at = "asleep" /\ moved => FutexComes

IInv == Types /\ WheelOK /\ QueueOK /\ SleepOK /\ WakeOK

USE WheelAssumption

-----------------------------------------------------------------------------
(* Division, with the divisor a variable *)

\* Quotient and remainder.
LEMMA DivMod ==
  ASSUME NEW a \in Nat, NEW u \in Nat \ {0}
  PROVE  a \div u \in Nat /\ a % u \in 0 .. u - 1 /\ a = u * (a \div u) + (a % u)
OBVIOUS

\* A remainder is a number.
LEMMA ModNat ==
  ASSUME NEW a \in Nat, NEW u \in Nat \ {0}
  PROVE  a % u \in Nat
<1>1. a % u \in 0 .. u - 1 BY DivMod
<1>2. 0 .. u - 1 \subseteq Nat OBVIOUS
<1> QED BY <1>1, <1>2

\* Multiples of u less than u apart.
LEMMA Multiples ==
  ASSUME NEW x \in Nat, NEW y \in Nat, NEW u \in Nat \ {0}, u * x < u * y + u
  PROVE  x <= y
OBVIOUS

\* The quotient is the only q with u * q <= a < u * q + u.
LEMMA DivUnique ==
  ASSUME NEW a \in Nat, NEW u \in Nat \ {0}, NEW q \in Nat, u * q <= a, a < u * q + u
  PROVE  a \div u = q
<1> DEFINE d == a \div u  r == a % u
<1>1. d \in Nat /\ r \in 0 .. u - 1 /\ a = u * d + r BY DivMod
<1> HIDE DEF d, r
<1>2. d <= q BY <1>1, Multiples
<1>3. q <= d BY <1>1, Multiples
<1> QED BY <1>1, <1>2, <1>3 DEF d

\* A multiple has no remainder.
LEMMA MultipleMod ==
  ASSUME NEW u \in Nat \ {0}, NEW q \in Nat
  PROVE  (u * q) % u = 0 /\ (u * q) \div u = q
<1>1. u * q \in Nat OBVIOUS
<1>2. (u * q) \div u = q BY <1>1, DivUnique
<1>3. u * q = u * q + ((u * q) % u) /\ (u * q) % u \in 0 .. u - 1
  <2>1. u * q = u * ((u * q) \div u) + ((u * q) % u) BY <1>1, DivMod
  <2> QED BY <2>1, <1>1, <1>2, DivMod
<1> QED BY <1>1, <1>2, <1>3

\* Numbers less than s apart with the same remainder are the same.
LEMMA ModApart ==
  ASSUME NEW a \in Nat, NEW b \in Nat, NEW s \in Nat \ {0}, a % s = b % s, a <= b, b < a + s
  PROVE  a = b
<1> DEFINE p == a \div s  q == b \div s  r == a % s
<1>1. p \in Nat /\ q \in Nat /\ r \in Nat /\ a = s * p + r /\ b = s * q + r
  <2>1. p \in Nat /\ r \in 0 .. s - 1 /\ a = s * p + r BY DivMod
  <2>2. q \in Nat /\ b = s * q + (b % s) BY DivMod
  <2>3. 0 .. s - 1 \subseteq Nat OBVIOUS
  <2> QED BY <2>1, <2>2, <2>3
<1> HIDE DEF p, q, r
<1>2. p <= q BY <1>1, Multiples
<1>3. q <= p BY <1>1, Multiples
<1> QED BY <1>1, <1>2, <1>3

-----------------------------------------------------------------------------
(* The levels *)

\* A level's turn is the next level's unit, and coarser units are multiples of TVR_SIZE.
LEMMA Units ==
  ASSUME NEW k \in Levels
  PROVE  /\ Unit(k) \in Nat \ {0} /\ Size(k) \in Nat \ {0} /\ Turn(k) \in Nat \ {0}
         /\ k # 1 => k - 1 \in Levels /\ Turn(k - 1) = Unit(k)
         /\ k # 1 => \E m \in Nat \ {0} : Unit(k) = TVR_SIZE * m
         /\ Unit(k) <= Turn(5)
<1> DEFINE r == TVR_SIZE  v == TVN_SIZE
<1>1. r \in Nat \ {0} /\ v \in Nat \ {0} BY DEF WheelAssumption
<1>2. r * v \in Nat \ {0} /\ r * v * v \in Nat \ {0} /\ r * v * v * v \in Nat \ {0}
      /\ r * v * v * v * v \in Nat \ {0}
  <2>1. \A x \in Nat \ {0} : x * v \in Nat \ {0} BY <1>1
  <2> QED BY <1>1, <2>1
<1>3. /\ r <= r * v /\ r * v <= r * v * v /\ r * v * v <= r * v * v * v
      /\ r * v * v * v <= r * v * v * v * v
  <2>1. \A x \in Nat \ {0} : x <= x * v BY <1>1
  <2> QED BY <1>1, <1>2, <2>1
<1>4. r * v * v = r * (v * v) /\ r * v * v * v = r * (v * v * v) /\ v * v \in Nat \ {0}
      /\ v * v * v \in Nat \ {0}
  <2>1. \A x, y \in Nat \ {0} : x * y \in Nat \ {0} OBVIOUS
  <2> QED BY <1>1, <2>1
<1>5. k \in {1, 2, 3, 4, 5} BY DEF Levels
<1>6. CASE k = 1 BY <1>6, <1>1, <1>2, <1>3 DEF Unit, Size, Turn, Levels
<1>7. CASE k = 2
  <2>1. r = r * 1 BY <1>1
  <2> QED BY <2>1, <1>7, <1>1, <1>2, <1>3 DEF Unit, Size, Turn, Levels
<1>8. CASE k = 3 BY <1>8, <1>1, <1>2, <1>3 DEF Unit, Size, Turn, Levels
<1>9. CASE k = 4 BY <1>9, <1>1, <1>2, <1>3, <1>4 DEF Unit, Size, Turn, Levels
<1>10. CASE k = 5 BY <1>10, <1>1, <1>2, <1>3, <1>4 DEF Unit, Size, Turn, Levels
<1> QED BY <1>5, <1>6, <1>7, <1>8, <1>9, <1>10

\* A time within the last level's turn has a level, whose slots are no longer than it.
LEMMA LevelFits ==
  ASSUME NEW ms \in Nat, ms < Turn(5)
  PROVE  /\ Level(ms) \in Levels /\ ms < Turn(Level(ms))
         /\ Level(ms) # 1 => Unit(Level(ms)) <= ms
<1> DEFINE P(k) == (k = 5 \/ ms < Turn(k)) /\ (k = 1 \/ ms >= Turn(k - 1))
<1>1. \A k \in Levels : Turn(k) \in Nat BY Units
<1>2. Levels = {1, 2, 3, 4, 5} BY DEF Levels
<1>3. 2 - 1 = 1 /\ 3 - 1 = 2 /\ 4 - 1 = 3 /\ 5 - 1 = 4 OBVIOUS
<1>4. \E k \in Levels : P(k)
  <2>1. CASE ms < Turn(1) BY <2>1, <1>2
  <2>2. CASE ~(ms < Turn(1)) /\ ms < Turn(2) BY <2>2, <1>1, <1>2, <1>3
  <2>3. CASE ~(ms < Turn(2)) /\ ms < Turn(3) BY <2>3, <1>1, <1>2, <1>3
  <2>4. CASE ~(ms < Turn(3)) /\ ms < Turn(4) BY <2>4, <1>1, <1>2, <1>3
  <2>5. CASE ~(ms < Turn(4)) BY <2>5, <1>1, <1>2, <1>3
  <2> QED BY <2>1, <2>2, <2>3, <2>4, <2>5
<1>5. Level(ms) \in Levels /\ P(Level(ms)) BY <1>4 DEF Level
<1>6. Level(ms) # 1 => Turn(Level(ms) - 1) = Unit(Level(ms)) BY <1>5, Units
<1> QED BY <1>5, <1>6, Units

\* A slot of the first level is that of the tick itself.
LEMMA FirstLevel ==
  ASSUME NEW s, NEW e \in Nat, NEW o \in Nat, NEW j \in Nat
  PROVE  s[1] = 1 => (Fits(s, e, o, j) <=> /\ s \in Levels \X Nat /\ s[2] = o % TVR_SIZE
                                           /\ j <= o /\ o < j + TVR_SIZE)
<1> SUFFICES ASSUME s[1] = 1
             PROVE  Fits(s, e, o, j) <=> /\ s \in Levels \X Nat /\ s[2] = o % TVR_SIZE
                                         /\ j <= o /\ o < j + TVR_SIZE
  OBVIOUS
<1>1. /\ Unit(s[1]) = 1 /\ Size(s[1]) = TVR_SIZE /\ Turn(s[1]) = TVR_SIZE /\ TVR_SIZE \in Nat
  BY DEF Unit, Size, Turn, WheelAssumption
<1>2. \A q \in Nat : 1 * q = q /\ (q <= o /\ o < q + 1 => q = o) OBVIOUS
<1> QED BY <1>1, <1>2 DEF Fits

\* Where _tw_getslot puts a timer.
LEMMA Placed ==
  ASSUME Types, NEW e \in Nat, e < jiffies + Turn(5)
  PROVE  /\ e <= jiffies => /\ GetSlot(e) = <<1, jiffies % TVR_SIZE>>
                            /\ Fits(GetSlot(e), e, jiffies, jiffies)
         /\ e > jiffies => /\ Fits(GetSlot(e), e, e, jiffies)
                           /\ Fits(GetSlot(e), e, e, jiffies + 1)
                           /\ GetSlot(e) # <<1, jiffies % TVR_SIZE>>
<1> DEFINE j == jiffies  g == GetSlot(e)
<1>1. j \in Nat /\ TVR_SIZE \in Nat \ {0} /\ Turn(5) \in Nat
  BY Units DEF Types, WheelAssumption, Levels
<1>2. CASE e <= j
  <2>1. g = <<1, j % TVR_SIZE>> BY <1>2 DEF GetSlot
  <2>a. j % TVR_SIZE \in Nat /\ 1 \in Levels BY <1>1, ModNat DEF Levels
  <2>2. g[1] = 1 /\ g[2] = j % TVR_SIZE /\ g \in Levels \X Nat BY <2>1, <2>a
  <2>3. Fits(g, e, j, j) BY <2>2, <1>1, FirstLevel
  <2> QED BY <2>1, <2>3, <1>2, <1>1
<1>3. CASE e > j
  <2> DEFINE k == Level(e - j)  u == Unit(k)  q == e \div u
  <2>1. e - j \in Nat /\ e - j < Turn(5) BY <1>1, <1>3
  <2>2. k \in Levels /\ e - j < Turn(k) /\ (k # 1 => u <= e - j) BY <2>1, LevelFits
  <2>3. u \in Nat \ {0} /\ Size(k) \in Nat \ {0} /\ Turn(k) \in Nat BY <2>2, Units
  <2>4. q \in Nat /\ e % u \in 0 .. u - 1 /\ e = u * q + (e % u) BY <2>3, DivMod
  <2>5. g = <<k, q % Size(k)>> BY <1>1, <1>3 DEF GetSlot
  <2>6. q % Size(k) \in Nat BY <2>3, <2>4, ModNat
  <2>7. g \in Levels \X Nat /\ g[1] = k /\ g[2] = q % Size(k) BY <2>2, <2>5, <2>6
  <2>8. j + 1 <= u * q
    <3>1. CASE k = 1
      <4>1. u = 1 BY <3>1 DEF Unit
      <4> QED BY <4>1, <2>4, <1>1, <1>3
    <3>2. CASE k # 1 BY <3>2, <2>2, <2>3, <2>4, <1>1
    <3> QED BY <3>1, <3>2
  <2>9. u * q <= e /\ e < u * q + u /\ u * q < j + Turn(k)
    <3>1. u * q \in Nat BY <2>3, <2>4
    <3> HIDE DEF u, q, k
    <3>2. u * q <= e /\ e < u * q + u BY <3>1, <2>3, <2>4
    <3> QED BY <3>1, <3>2, <2>2, <2>3, <1>1
  <2>10. Fits(g, e, e, j) /\ Fits(g, e, e, j + 1)
    <3> HIDE DEF g, u, q, k
    <3>1. \A i \in {j, j + 1} : /\ i <= u * q /\ u * q < i + Turn(k)
      BY <2>3, <2>4, <2>8, <2>9, <1>1
    <3> QED BY <3>1, <2>7, <2>4, <2>9 DEF Fits, u
  <2>11. g # <<1, j % TVR_SIZE>>
    <3>1. SUFFICES ASSUME g = <<1, j % TVR_SIZE>> PROVE FALSE OBVIOUS
    <3>2. g[1] = 1 /\ g[2] = j % TVR_SIZE BY <3>1
    <3>3. g[2] = e % TVR_SIZE /\ e < j + TVR_SIZE BY <3>2, <2>10, <1>1, FirstLevel
    <3>4. j % TVR_SIZE = e % TVR_SIZE BY <3>2, <3>3
    <3>5. j \in Nat /\ j <= e BY <1>1, <1>3
    <3>6. j = e BY ONLY <3>3, <3>4, <3>5, <1>1, ModApart, e \in Nat
    <3> QED BY <3>6, <1>3, <1>1
  <2> QED BY <2>10, <2>11, <1>3, <1>1
<1> QED BY <1>1, <1>2, <1>3

\* What _tw_cascade leaves of a timer: it is in the slot that is run now if and only if
\* this is the tick it is owed, otherwise it will be met from the next tick on.
LEMMA Moved ==
  ASSUME Types, NEW n \in Timers, Fits(slot[n], expires[n], owed[n], jiffies)
  PROVE  \/ owed[n] = jiffies /\ Cascaded[n] = <<1, jiffies % TVR_SIZE>>
         \/ /\ Cascaded[n] # <<1, jiffies % TVR_SIZE>>
            /\ Fits(Cascaded[n], expires[n], owed[n], jiffies + 1)
<1> DEFINE j == jiffies  o == owed[n]  k == slot[n][1]  u == Unit(k)
           moving == {l \in Levels \ {1} : Cascades(l)}
           current == {<<l, (j \div Unit(l)) % Size(l)>> : l \in moving}
<1>1. /\ j \in Nat /\ o \in Nat /\ expires[n] \in Nat /\ TVR_SIZE \in Nat \ {0}
      /\ slot[n] \in Levels \X Nat /\ k \in Levels /\ slot[n] = <<k, slot[n][2]>>
  BY DEF Types, Fits, WheelAssumption
<1>2. u \in Nat \ {0} /\ Size(k) \in Nat \ {0} /\ Turn(k) = u * Size(k) /\ u <= Turn(5)
      /\ Turn(5) \in Nat
  BY <1>1, Units DEF Turn, Levels
<1>3. PICK q \in Nat : /\ slot[n][2] = q % Size(k) /\ u * q <= o /\ o < u * q + u
                       /\ j <= u * q /\ u * q < j + Turn(k)
  BY DEF Fits
<1>4. u * q \in Nat BY <1>2
<1>5. Cascaded[n] = IF slot[n] \in current THEN GetSlot(expires[n]) ELSE slot[n]
  BY DEF Cascaded
<1>6. CASE slot[n] \in current
  <2>1. PICK l \in moving : slot[n] = <<l, (j \div Unit(l)) % Size(l)>> BY <1>6
  <2>2. l = k /\ k # 1 /\ Cascades(k) /\ slot[n][2] = (j \div u) % Size(k) BY <2>1, <1>1
  <2> DEFINE c == j \div u
  <2>3. c \in Nat /\ j = u * c
    <3>1. c \in Nat /\ j = u * c + (j % u) BY <1>1, <1>2, DivMod
    <3>2. j % u = 0 BY <2>2 DEF Cascades
    <3>3. u * c \in Nat BY <1>2, <3>1
    <3> QED BY <3>1, <3>2, <3>3
  <2>4. c = q
    <3>1. c % Size(k) = q % Size(k) BY <2>2, <1>3
    <3> HIDE DEF c, u, k
    <3>2. c <= q
      <4>1. u * c < u * q + u BY <2>3, <1>3, <1>2, <1>4
      <4> QED BY <4>1, <2>3, <1>2, Multiples
    <3>3. q < c + Size(k)
      <4>1. u * q < u * c + u * Size(k) BY <2>3, <1>3, <1>2
      <4>2. u * c + u * Size(k) = u * (c + Size(k)) BY <2>3, <1>2
      <4> QED BY <4>1, <4>2, <2>3, <1>2
    <3> QED BY <3>1, <3>2, <3>3, <2>3, <1>2, ModApart
  <2>5. j <= o /\ o < j + u BY <2>3, <2>4, <1>3
  <2>6. expires[n] = o BY <2>2 DEF Fits
  <2>7. Cascaded[n] = GetSlot(o) BY <1>5, <1>6, <2>6
  <2>8. o < j + Turn(5) BY <2>5, <1>1, <1>2
  <2> HIDE DEF u, k
  <2>9. CASE o = j BY <2>9, <2>7, <2>8, <1>1, Placed
  <2>10. CASE o > j BY <2>10, <2>6, <2>7, <2>8, <1>1, Placed
  <2> QED BY <2>5, <2>9, <2>10, <1>1
<1>7. CASE slot[n] \notin current /\ k = 1
  <2>1. Cascaded[n] = slot[n] BY <1>5, <1>7
  <2>2. slot[n][2] = o % TVR_SIZE /\ j <= o /\ o < j + TVR_SIZE BY <1>7, <1>1, FirstLevel
  <2>3. CASE o = j BY <2>1, <2>2, <2>3, <1>1, <1>7
  <2>4. CASE o > j
    <3>1. slot[n][2] # j % TVR_SIZE
      <4>1. SUFFICES ASSUME o % TVR_SIZE = j % TVR_SIZE PROVE FALSE BY <2>2
      <4>2. j <= o BY <2>2
      <4>3. j = o BY ONLY <4>1, <4>2, <2>2, <1>1, ModApart
      <4> QED BY <4>3, <2>4, <1>1
    <3>2. Cascaded[n] # <<1, j % TVR_SIZE>>
      <4>1. SUFFICES ASSUME slot[n] = <<1, j % TVR_SIZE>> PROVE FALSE BY <2>1
      <4> QED BY <4>1, <3>1
    <3>3. j + 1 \in Nat /\ j + 1 <= o /\ o < (j + 1) + TVR_SIZE BY <2>2, <2>4, <1>1
    <3>4. Fits(slot[n], expires[n], o, j + 1) BY <3>3, <2>2, <1>1, <1>7, FirstLevel
    <3> QED BY <3>2, <3>4, <2>1
  <2> QED BY <2>2, <2>3, <2>4, <1>1
<1>8. CASE slot[n] \notin current /\ k # 1
  <2>1. Cascaded[n] = slot[n] BY <1>5, <1>8
  <2>2. Cascaded[n] # <<1, j % TVR_SIZE>>
    <3>1. SUFFICES ASSUME slot[n] = <<1, j % TVR_SIZE>> PROVE FALSE BY <2>1
    <3> QED BY <3>1, <1>8
  <2>3. j # u * q
    <3>1. SUFFICES ASSUME j = u * q PROVE FALSE OBVIOUS
    <3>2. j % u = 0 /\ j \div u = q
      <4> HIDE DEF u
      <4>1. (u * q) % u = 0 /\ (u * q) \div u = q BY <1>2, MultipleMod
      <4> QED BY <3>1, <4>1
    <3>3. k \in moving BY <3>2, <1>1, <1>8 DEF Cascades
    <3>4. <<k, (j \div Unit(k)) % Size(k)>> \in current BY <3>3
    <3>5. slot[n] = <<k, (j \div Unit(k)) % Size(k)>> BY <3>2, <1>1, <1>3
    <3> QED BY <3>4, <3>5, <1>8
  <2>4. j + 1 <= u * q /\ u * q < (j + 1) + Turn(k)
    <3>1. Turn(k) \in Nat BY <1>1, Units
    <3> HIDE DEF u, k
    <3> QED BY <3>1, <2>3, <1>1, <1>2, <1>3, <1>4
  <2>5. Fits(slot[n], expires[n], o, j + 1) BY <2>4, <1>1, <1>3 DEF Fits
  <2> QED BY <2>1, <2>2, <2>5
<1> QED BY <1>6, <1>7, <1>8

\* A timer of the wheel is not owed before the wheel's next turn as _tw_next_delta sees it.
LEMMA NotBefore ==
  ASSUME Types, NEW n \in Timers, Fits(slot[n], expires[n], owed[n], jiffies),
         NEW d \in Nat, NextDelta(d)
  PROVE  jiffies <= owed[n] /\ jiffies + d <= owed[n]
<1> DEFINE j == jiffies  o == owed[n]  k == slot[n][1]  u == Unit(k)  r == j % TVR_SIZE
           bound == (TVR_SIZE - r) % TVR_SIZE
<1>1. /\ j \in Nat /\ o \in Nat /\ expires[n] \in Nat /\ TVR_SIZE \in Nat \ {0}
      /\ slot[n] \in Levels \X Nat /\ k \in Levels /\ slot[n] = <<k, slot[n][2]>>
  BY DEF Types, Fits, WheelAssumption
<1>2. r \in 0 .. TVR_SIZE - 1 BY <1>1, DivMod
<1>3. d \in 0 .. bound /\ \A c \in 0 .. d - 1 : ~Full(c) BY DEF NextDelta
<1>4. bound \in Nat /\ d <= bound
  <2>1. TVR_SIZE - r \in Nat BY <1>1, <1>2
  <2>2. bound \in Nat BY <2>1, <1>1, ModNat
  <2> QED BY <2>2, <1>3
<1>5. CASE k = 1
  <2>1. slot[n][2] = o % TVR_SIZE /\ j <= o BY <1>5, <1>1, FirstLevel
  <2> DEFINE x == o - j
  <2>2. x \in Nat /\ j + x = o BY <2>1, <1>1
  <2>3. Full(x) BY <2>1, <2>2, <1>1, <1>5 DEF Full
  <2>4. ~(x < d) BY <2>2, <2>3, <1>3
  <2> QED BY <2>1, <2>2, <2>4, <1>1
<1>6. CASE k # 1
  <2>1. PICK q \in Nat : u * q <= o /\ j <= u * q BY DEF Fits
  <2>2. PICK m \in Nat \ {0} : u = TVR_SIZE * m BY <1>1, <1>6, Units
  <2> DEFINE x == m * q  c == j \div TVR_SIZE  t == TVR_SIZE
  <2>3. x \in Nat /\ u * q = t * x /\ t * x \in Nat BY <2>2, <1>1
  <2>4. c \in Nat /\ j = t * c + r /\ t * c \in Nat
    <3>1. c \in Nat /\ j = t * c + r BY <1>1, DivMod
    <3> QED BY <3>1, <1>1
  <2>5. j <= t * x /\ t * x <= o BY <2>1, <2>3
  <2>6. CASE r = 0
    <3>1. bound = 0
      <4>1. t * 1 = t /\ (t * 1) % t = 0 BY <1>1, MultipleMod
      <4>2. t - r = t BY <2>6, <1>1
      <4> QED BY <4>1, <4>2
    <3> HIDE DEF bound
    <3> QED BY <3>1, <2>5, <2>3, <1>1, <1>4
  <2>7. CASE r # 0
    <3>1. bound = t - r
      <4> DEFINE w == t - r
      <4>1. w \in Nat /\ w < t BY <2>7, <1>1, <1>2
      <4>2. t * 0 = 0 BY <1>1
      <4>3. w \div t = 0 BY <4>1, <4>2, <1>1, DivUnique
      <4>4. w = t * (w \div t) + (w % t) /\ w % t \in Nat BY <4>1, <1>1, DivMod, ModNat
      <4> HIDE DEF w
      <4>5. w = w % t BY <4>2, <4>3, <4>4
      <4> QED BY <4>5 DEF w
    <3> HIDE DEF bound, x, c, r
    <3>2. c + 1 <= x
      <4>1. ~(x <= c) BY <2>4, <2>5, <2>7, <2>3, <1>1, <1>2
      <4> QED BY <4>1, <2>3, <2>4
    <3>3. t * c + t <= t * x BY <3>2, <2>3, <2>4, <1>1
    <3>4. j + bound = t * c + t BY <3>1, <2>4, <1>1, <1>2
    <3> QED BY <3>3, <3>4, <2>4, <2>5, <2>3, <1>1, <1>4
  <2> QED BY <2>6, <2>7
<1> QED BY <1>5, <1>6

-----------------------------------------------------------------------------
(* The steps *)

\* The value _tw_insert_all goes on with is less than a turn of the last level ahead.
LEMMA Clamped ==
  ASSUME Types, NEW e \in Nat
  PROVE  Clamp(e) \in Nat /\ Clamp(e) < jiffies + Turn(5)
<1>1. Turn(5) \in Nat \ {0} BY Units DEF Levels
<1> QED BY <1>1 DEF Clamp, Types

\* A timer outside the wheel is not touched by a cascade.
LEMMA Outside ==
  ASSUME NEW n \in Timers, slot[n] = <<>>
  PROVE  Cascaded[n] = <<>>
<1> DEFINE moving == {k \in Levels \ {1} : Cascades(k)}
<1>1. <<>> \notin {<<k, (jiffies \div Unit(k)) % Size(k)>> : k \in moving}
  OBVIOUS
<1> QED BY <1>1 DEF Cascaded

\* Slots are only ever those of a level, or none.
LEMMA SlotType ==
  ASSUME Types, NEW n \in Timers, slot[n] # <<>> => Fits(slot[n], expires[n], owed[n], jiffies)
  PROVE  Cascaded[n] \in {<<>>} \cup (Levels \X Nat)
<1>1. CASE slot[n] # <<>>
  <2>1. CASE Cascaded[n] = <<1, jiffies % TVR_SIZE>>
    <3>1. jiffies % TVR_SIZE \in Nat BY ModNat DEF Types, WheelAssumption
    <3> QED BY <2>1, <3>1 DEF Levels
  <2>2. CASE Fits(Cascaded[n], expires[n], owed[n], jiffies + 1) BY <2>2 DEF Fits
  <2> QED BY <1>1, <2>1, <2>2, Moved
<1>2. CASE slot[n] = <<>> BY <1>2, Outside
<1> QED BY <1>1, <1>2

\* A cell that is published stays the same otherwise.
LEMMA Published ==
  ASSUME Types, NEW n \in Timers, Publish(n)
  PROVE  /\ reqadd' \in Seq(Cells) /\ DOMAIN reqadd' = DOMAIN reqadd
         /\ \A i \in DOMAIN reqadd : /\ reqadd'[i].n = reqadd[i].n
                                     /\ reqadd[i].n # n => reqadd'[i] = reqadd[i]
<1> DEFINE m == Len(reqadd)
           f(i) == IF reqadd[i].n = n THEN [reqadd[i] EXCEPT !.ready = TRUE] ELSE reqadd[i]
<1>1. m \in Nat /\ DOMAIN reqadd = 1 .. m /\ \A i \in 1 .. m : reqadd[i] \in Cells BY DEF Types
<1>2. reqadd' = [i \in 1 .. m |-> f(i)] BY <1>1 DEF Publish
<1>3. \A i \in 1 .. m : f(i) \in Cells /\ f(i).n = reqadd[i].n
  <2>1. \A c \in Cells : LET d == [c EXCEPT !.ready = TRUE] IN d \in Cells /\ d.n = c.n
    BY DEF Cells
  <2> QED BY <1>1, <2>1
<1> HIDE DEF f, m
<1>4. reqadd' \in [1 .. m -> Cells] BY <1>2, <1>3
<1>5. reqadd' \in Seq(Cells) BY <1>1, <1>4, SeqDef
<1> QED BY <1>1, <1>2, <1>3, <1>5 DEF f

\* Types are kept.
LEMMA TypesStep == ASSUME IInv, Next PROVE Types'
<1> USE DEF IInv, Types, Places, AdderGoto, wheel, waiter, thread
<1>1. CASE Clock BY <1>1 DEF Clock
<1>2. ASSUME NEW n \in Timers, Add(n) PROVE Types'
  <2>1. PICK ms \in Timeouts : expires' = [expires EXCEPT ![n] = clock + ms] BY <1>2 DEF Add
  <2>2. ms \in Nat BY DEF WheelAssumption
  <2>3. [n |-> n, ready |-> FALSE] \in Cells BY DEF Cells
  <2>4. reqadd' \in Seq(Cells) BY <1>2, <2>3 DEF Add
  <2> QED BY <1>2, <2>1, <2>2, <2>4 DEF Add
<1>3. ASSUME NEW n \in Timers, Publish(n) PROVE Types'
  <2>1. reqadd' \in Seq(Cells) BY <1>3, Published
  <2> QED BY <1>3, <2>1 DEF Publish
<1>4. ASSUME NEW n \in Timers, Look(n) \/ WakeEpoch(n) \/ Wake(n) PROVE Types'
  <2>1. CASE Look(n) BY <2>1 DEF Look
  <2>2. CASE WakeEpoch(n) BY <2>2 DEF WakeEpoch
  <2>3. CASE Wake(n) BY <2>3 DEF Wake, FutexWake
  <2> QED BY <1>4, <2>1, <2>2, <2>3
<1>5. CASE TwFree \/ FreeEpoch \/ FreeWake BY <1>5 DEF TwFree, FreeEpoch, FreeWake, FutexWake
<1>6. CASE FreeRest BY <1>6 DEF FreeRest
<1>7. CASE Top BY <1>7 DEF Top
<1>8. CASE Insert
  <2> DEFINE m == Head(reqadd).n  e == Clamp(expires[m])
  <2>1. reqadd # <<>> /\ Head(reqadd) \in Cells /\ Tail(reqadd) \in Seq(Cells)
    BY <1>8 DEF Insert, HeadReady
  <2>2. m \in Timers /\ expires[m] \in Nat BY <2>1 DEF Cells
  <2>3. e \in Nat /\ e < jiffies + Turn(5) BY <2>2, Clamped
  <2>4. GetSlot(e) \in Levels \X Nat BY <2>3, Placed DEF Fits
  <2>5. /\ expires' = [expires EXCEPT ![m] = e] /\ slot' = [slot EXCEPT ![m] = GetSlot(e)]
        /\ owed' = [owed EXCEPT ![m] = IF e > jiffies THEN e ELSE jiffies]
    BY <1>8 DEF Insert
  <2> HIDE DEF m, e
  <2>6. expires' \in [Timers -> Nat] /\ owed' \in [Timers -> Nat] BY <2>2, <2>3, <2>5
  <2>7. slot' \in [Timers -> {<<>>} \cup (Levels \X Nat)] BY <2>2, <2>4, <2>5
  <2> QED BY <1>8, <2>1, <2>6, <2>7 DEF Insert
<1>9. CASE Run
  <2>1. slot' \in [Timers -> {<<>>} \cup (Levels \X Nat)] BY <1>9, SlotType DEF Run, WheelOK
  <2>2. expires' \in [Timers -> Nat] /\ owed' \in [Timers -> Nat] BY <1>9 DEF Run
  <2> QED BY <1>9, <2>1, <2>2 DEF Run
<1>10. CASE Inserted \/ Prepare \/ Show \/ Recheck \/ Commit \/ TimeOut \/ Awake
  BY <1>10 DEF Inserted, Prepare, Show, Recheck, Commit, TimeOut, Awake
<1>11. CASE Sleepy
  <2>1. TVR_SIZE \in Nat BY DEF WheelAssumption
  <2> QED BY <1>11, <2>1 DEF Sleepy
<1> QED BY <1>1, <1>2, <1>3, <1>4, <1>5, <1>6, <1>7, <1>8, <1>9, <1>10, <1>11
     DEF Next, Adds, Frees, Turns, Sleeps

\* A step that leaves the wheel alone, and the times of the timers in it.
LEMMA WheelQuiet ==
  ASSUME IInv, UNCHANGED <<jiffies, slot, owed, wrong>>,
         \A n \in Timers : slot[n] # <<>> => expires'[n] = expires[n]
  PROVE  WheelOK'
<1>1. WheelOK
  BY DEF IInv
<1>2. wrong' = {}
  BY <1>1 DEF WheelOK
<1>3. ASSUME NEW n \in Timers, slot'[n] # <<>>
      PROVE  Fits(slot'[n], expires'[n], owed'[n], jiffies')
  <2>1. /\ slot'[n] = slot[n] /\ expires'[n] = expires[n] /\ owed'[n] = owed[n]
        /\ jiffies' = jiffies
    BY <1>3
  <2>2. Fits(slot[n], expires[n], owed[n], jiffies) BY <1>1, <1>3, <2>1 DEF WheelOK
  <2> QED BY <2>1, <2>2
<1> QED
  BY <1>2, <1>3 DEF WheelOK

\* Insert puts a timer in its slot.
LEMMA WheelInsert == ASSUME IInv, Insert PROVE WheelOK'
<1> USE DEF IInv
<1> DEFINE m == Head(reqadd).n  e == Clamp(expires[m])  o == IF e > jiffies THEN e ELSE jiffies
<1>1. m \in Timers /\ expires[m] \in Nat
  <2>1. reqadd # <<>> /\ reqadd \in Seq(Cells) /\ expires \in [Timers -> Nat]
    BY DEF Insert, HeadReady, Types
  <2>2. Head(reqadd) \in Cells BY <2>1
  <2> QED BY <2>1, <2>2 DEF Cells
<1>2. e \in Nat /\ e < jiffies + Turn(5) BY <1>1, Clamped
<1>3. /\ expires' = [expires EXCEPT ![m] = e] /\ slot' = [slot EXCEPT ![m] = GetSlot(e)]
      /\ owed' = [owed EXCEPT ![m] = o] /\ jiffies' = jiffies /\ wrong' = wrong
  BY DEF Insert
<1>4. Fits(GetSlot(e), e, o, jiffies) BY <1>2, Placed DEF Types
<1> HIDE DEF m, e, o
<1>5. expires'[m] = e /\ owed'[m] = o /\ slot'[m] = GetSlot(e) BY <1>1, <1>3 DEF Types
<1>6. \A n \in Timers \ {m} : slot'[n] = slot[n] /\ expires'[n] = expires[n] /\ owed'[n] = owed[n]
  BY <1>3 DEF Types
<1>7. \A n \in Timers : slot'[n] # <<>> => Fits(slot'[n], expires'[n], owed'[n], jiffies)
  BY <1>1, <1>4, <1>5, <1>6 DEF WheelOK
<1> QED BY <1>3, <1>7 DEF WheelOK, Fits, Size, Unit, Turn

\* Run runs those that are owed this tick, and the others will still be met.
LEMMA WheelRun == ASSUME IInv, Run PROVE WheelOK'
<1> USE DEF IInv
<1> DEFINE now == <<1, jiffies % TVR_SIZE>>  due == {n \in Timers : Cascaded[n] = now}
<1>1. /\ slot' = [n \in Timers |-> IF n \in due THEN <<>> ELSE Cascaded[n]]
      /\ expires' = [n \in Timers |-> IF n \in due THEN 0 ELSE expires[n]]
      /\ owed' = [n \in Timers |-> IF n \in due THEN 0 ELSE owed[n]]
      /\ wrong' = wrong \cup {n \in due : owed[n] # jiffies}
      /\ jiffies' = jiffies + 1
  BY DEF Run
<1>2. \A n \in Timers : slot[n] = <<>> => Cascaded[n] = <<>> /\ n \notin due BY Outside
<1>3. ASSUME NEW n \in Timers, slot[n] # <<>>
      PROVE  \/ n \in due /\ owed[n] = jiffies
             \/ n \notin due /\ Fits(Cascaded[n], expires[n], owed[n], jiffies + 1)
  <2>1. Fits(slot[n], expires[n], owed[n], jiffies) BY <1>3 DEF WheelOK
  <2> QED BY <2>1, Moved
<1> HIDE DEF due
<1>4. wrong' = {}
  <2>1. \A n \in Timers : n \in due => owed[n] = jiffies BY <1>2, <1>3
  <2>2. due \subseteq Timers BY DEF due
  <2> QED BY <2>1, <2>2, <1>1 DEF WheelOK
<1>5. \A n \in Timers : slot'[n] # <<>> => Fits(slot'[n], expires'[n], owed'[n], jiffies + 1)
  BY <1>1, <1>2, <1>3
<1> QED BY <1>1, <1>4, <1>5 DEF WheelOK, Fits, Size, Unit, Turn

\* The wheel is kept.
LEMMA WheelStep == ASSUME IInv, Next PROVE WheelOK'
<1> USE DEF wheel, waiter, thread
<1>1. CASE UNCHANGED <<wheel, expires>> BY <1>1, WheelQuiet
<1>2. ASSUME NEW n \in Timers, Add(n) PROVE WheelOK'
  <2>1. slot[n] = <<>> BY <1>2 DEF Add, IInv, QueueOK
  <2>2. \A t \in Timers \ {n} : expires'[t] = expires[t] BY <1>2 DEF Add, IInv, Types
  <2>3. \A t \in Timers : slot[t] # <<>> => expires'[t] = expires[t] BY <2>1, <2>2
  <2> QED BY <1>2, <2>3, WheelQuiet DEF Add
<1>3. CASE FreeRest BY <1>3 DEF FreeRest, WheelOK, IInv
<1>4. CASE Insert BY <1>4, WheelInsert
<1>5. CASE Run BY <1>5, WheelRun
<1>6. ASSUME NEW n \in Timers, Publish(n) \/ Look(n) \/ WakeEpoch(n) \/ Wake(n)
      PROVE  UNCHANGED <<wheel, expires>>
  BY <1>6 DEF Publish, Look, WakeEpoch, Wake
<1>7. CASE Clock \/ Top \/ TwFree \/ FreeEpoch \/ FreeWake
  BY <1>7, <1>1 DEF Clock, Top, TwFree, FreeEpoch, FreeWake
<1>8. CASE Inserted \/ Sleeps
  BY <1>8, <1>1
     DEF Inserted, Sleeps, Sleepy, Prepare, Show, Recheck, Commit, TimeOut, Awake
<1> QED BY <1>1, <1>2, <1>3, <1>4, <1>5, <1>6, <1>7, <1>8 DEF Next, Adds, Frees, Turns

\* A timer that was not added is still nowhere.
LEMMA QueueStep == ASSUME IInv, Next PROVE QueueOK'
<1> USE DEF IInv, Types, AdderGoto, wheel, waiter, thread
<1>1. CASE UNCHANGED <<adder, slot, reqadd>> BY <1>1 DEF QueueOK
<1>2. ASSUME NEW n \in Timers, Add(n) PROVE QueueOK'
  <2>1. \A t \in Timers : adder'[t] = "out" => t # n /\ adder[t] = "out" BY <1>2 DEF Add
  <2>2. reqadd' = Append(reqadd, [n |-> n, ready |-> FALSE]) BY <1>2 DEF Add
  <2>3. \A i \in DOMAIN reqadd' :
          reqadd'[i].n = n \/ (i \in DOMAIN reqadd /\ reqadd'[i] = reqadd[i])
    BY <2>2
  <2> QED BY <1>2, <2>1, <2>3 DEF Add, QueueOK
<1>3. ASSUME NEW n \in Timers, Publish(n) PROVE QueueOK'
  <2>1. DOMAIN reqadd' = DOMAIN reqadd /\ \A i \in DOMAIN reqadd : reqadd'[i].n = reqadd[i].n
    BY <1>3, Published
  <2>2. \A t \in Timers : adder'[t] = "out" => adder[t] = "out" BY <1>3 DEF Publish
  <2> QED BY <1>3, <2>1, <2>2 DEF Publish, QueueOK
<1>4. ASSUME NEW n \in Timers, Look(n) \/ WakeEpoch(n) \/ Wake(n) PROVE QueueOK'
  <2>1. UNCHANGED <<slot, reqadd>> BY <1>4 DEF Look, WakeEpoch, Wake
  <2>2. \A t \in Timers : adder'[t] = "out" => adder[t] = "out"
    <3>1. CASE Look(n) BY <3>1 DEF Look
    <3>2. CASE WakeEpoch(n) BY <3>2 DEF WakeEpoch
    <3>3. CASE Wake(n) BY <3>3 DEF Wake
    <3> QED BY <1>4, <3>1, <3>2, <3>3
  <2> QED BY <2>1, <2>2 DEF QueueOK
<1>5. CASE FreeRest BY <1>5 DEF FreeRest, QueueOK
<1>6. CASE Insert
  <2> DEFINE m == Head(reqadd).n
  <2>1. reqadd # <<>> /\ reqadd' = Tail(reqadd) /\ adder' = adder
        /\ slot' = [slot EXCEPT ![m] = GetSlot(Clamp(expires[m]))]
    BY <1>6 DEF Insert, HeadReady
  <2>2. m = reqadd[1].n /\ 1 \in DOMAIN reqadd BY <2>1
  <2>3. \A t \in Timers : adder[t] = "out" => t # m BY <2>2 DEF QueueOK
  <2>4. \A i \in DOMAIN reqadd' : i + 1 \in DOMAIN reqadd /\ reqadd'[i] = reqadd[i + 1] BY <2>1
  <2> HIDE DEF m
  <2>5. \A t \in Timers : adder[t] = "out" => slot'[t] = slot[t] BY <2>1, <2>3
  <2> QED BY <2>1, <2>4, <2>5 DEF QueueOK
<1>7. CASE Run
  <2>1. \A t \in Timers : slot[t] = <<>> => slot'[t] = <<>> BY <1>7, Outside DEF Run
  <2> QED BY <1>7, <2>1 DEF Run, QueueOK
<1>8. CASE Clock \/ Top \/ TwFree \/ FreeEpoch \/ FreeWake
  BY <1>8, <1>1 DEF Clock, Top, TwFree, FreeEpoch, FreeWake
<1>9. CASE Inserted \/ Sleeps
  BY <1>9, <1>1
     DEF Inserted, Sleeps, Sleepy, Prepare, Show, Recheck, Commit, TimeOut, Awake
<1> QED BY <1>2, <1>3, <1>4, <1>5, <1>6, <1>7, <1>8, <1>9 DEF Next, Adds, Frees, Turns

\* While the thread means to sleep, or sleeps, the wheel stays as it was.
LEMMA SleepStep == ASSUME IInv, Next PROVE SleepOK'
<1> USE DEF IInv, Types, AdderGoto, wheel, waiter, thread
<1>1. CASE UNCHANGED <<at, wake_at, slot, owed>> BY <1>1 DEF SleepOK
<1>2. ASSUME NEW n \in Timers, Add(n) \/ Publish(n) \/ Look(n) \/ WakeEpoch(n)
      PROVE  UNCHANGED <<at, wake_at, slot, owed>>
  BY <1>2 DEF Add, Publish, Look, WakeEpoch
<1>3. CASE Clock \/ TwFree \/ FreeEpoch BY <1>3, <1>1 DEF Clock, TwFree, FreeEpoch
<1>4. CASE FreeWake \/ \E n \in Timers : Wake(n)
  <2>1. /\ UNCHANGED <<wake_at, slot, owed>> /\ (at' = "woke" \/ at' = at)
    BY <1>4 DEF FreeWake, Wake, FutexWake
  <2> QED BY <2>1 DEF SleepOK
<1>5. CASE Top \/ Insert \/ Inserted \/ Run \/ FreeRest \/ TimeOut \/ Awake
  <2>1. at' \notin {"prepare", "show", "recheck", "commit", "asleep"}
    BY <1>5 DEF Top, Insert, Inserted, Run, FreeRest, TimeOut, Awake
  <2> QED BY <2>1 DEF SleepOK
<1>6. CASE Prepare \/ Show \/ Recheck \/ Commit
  <2>1. /\ UNCHANGED <<wake_at, slot, owed>> /\ at \in {"prepare", "show", "recheck", "commit"}
    BY <1>6 DEF Prepare, Show, Recheck, Commit
  <2> QED BY <2>1 DEF SleepOK
<1>7. CASE Sleepy
  <2>1. PICK d \in 0 .. TVR_SIZE : NextDelta(d) /\ wake_at' = jiffies + d BY <1>7 DEF Sleepy
  <2>2. d \in Nat BY DEF WheelAssumption
  <2>3. \A n \in Timers : slot[n] # <<>> => jiffies + d <= owed[n]
    BY <2>1, <2>2, NotBefore DEF WheelOK
  <2>4. UNCHANGED <<slot, owed>> BY <1>7 DEF Sleepy
  <2> QED BY <2>1, <2>3, <2>4 DEF SleepOK
<1> QED BY <1>1, <1>2, <1>3, <1>4, <1>5, <1>6, <1>7 DEF Next, Adds, Frees, Turns, Sleeps

\* A sleeping thread has been, or will be, told of what came after its second look.
LEMMA WakeStep == ASSUME IInv, Next PROVE WakeOK'
<1> USE DEF IInv, Types, AdderGoto, wheel, waiter, thread
<1>1. CASE UNCHANGED <<at, wstate, moved, exit, main, adder, reqadd>>
  BY <1>1 DEF WakeOK, EpochComes, FutexComes
<1>2. CASE at' \notin {"recheck", "commit", "asleep"}
  BY <1>2 DEF WakeOK
<1>3. CASE Clock BY <1>3, <1>1 DEF Clock
<1>4. CASE Top \/ Insert \/ Inserted \/ Run \/ FreeRest \/ TimeOut \/ Awake \/ Sleepy \/ Prepare
  BY <1>4, <1>2
     DEF Top, Insert, Inserted, Run, FreeRest, TimeOut, Awake, Sleepy, Prepare
<1>5. ASSUME NEW n \in Timers, Add(n) PROVE WakeOK'
  <2>1. reqadd' = Append(reqadd, [n |-> n, ready |-> FALSE]) BY <1>5 DEF Add
  <2>2. \A i \in DOMAIN reqadd' : reqadd'[i].ready =>
          i \in DOMAIN reqadd /\ reqadd'[i] = reqadd[i]
    BY <2>1
  <2>3. /\ UNCHANGED <<at, wstate, moved, exit, main>> /\ adder[n] = "out"
        /\ \A t \in Timers \ {n} : adder'[t] = adder[t]
    BY <1>5 DEF Add
  <2>4. (EpochComes => EpochComes') /\ (FutexComes => FutexComes')
    BY <2>3 DEF EpochComes, FutexComes
  <2>5. (\E t \in Timers : adder[t] = "look") => \E t \in Timers : adder'[t] = "look" BY <2>3
  <2> QED BY <2>2, <2>3, <2>4, <2>5 DEF WakeOK
<1>6. ASSUME NEW n \in Timers, Publish(n) PROVE WakeOK'
  <2>1. /\ UNCHANGED <<at, wstate, moved, exit, main>> /\ adder[n] = "publish"
        /\ adder'[n] = "look" /\ \A t \in Timers \ {n} : adder'[t] = adder[t]
    BY <1>6 DEF Publish
  <2>2. (EpochComes => EpochComes') /\ (FutexComes => FutexComes')
    BY <2>1 DEF EpochComes, FutexComes
  <2> QED BY <2>1, <2>2 DEF WakeOK
<1>7. ASSUME NEW n \in Timers, Look(n) PROVE WakeOK'
  <2>1. /\ UNCHANGED <<at, moved, exit, main, reqadd>> /\ adder[n] = "look"
        /\ \A t \in Timers \ {n} : adder'[t] = adder[t]
        /\ \/ wstate = "sleep" /\ wstate' = "waking" /\ adder'[n] = "wake"
           \/ wstate # "sleep" /\ wstate' = wstate
    BY <1>7 DEF Look
  <2>2. (EpochComes => EpochComes') /\ (FutexComes => FutexComes')
    BY <2>1 DEF EpochComes, FutexComes
  <2>3. wstate = "sleep" => EpochComes' BY <2>1 DEF EpochComes
  <2> QED BY <2>1, <2>2, <2>3 DEF WakeOK
<1>8. CASE FreeEpoch \/ \E n \in Timers : WakeEpoch(n)
  <2>1. moved' = TRUE /\ UNCHANGED <<at, wstate>> BY <1>8 DEF FreeEpoch, WakeEpoch
  <2>2. FutexComes' BY <1>8 DEF FreeEpoch, WakeEpoch, FutexComes
  <2> QED BY <2>1, <2>2 DEF WakeOK
<1>9. CASE FreeWake \/ \E n \in Timers : Wake(n)
  <2>1. /\ UNCHANGED <<wstate, moved, exit, reqadd>>
    BY <1>9 DEF FreeWake, Wake, FutexWake
  <2>2. at' # "asleep" /\ (at' = at \/ at' = "woke") BY <1>9 DEF FreeWake, Wake, FutexWake
  <2>3. EpochComes => EpochComes'
    <3>1. CASE FreeWake BY <3>1 DEF FreeWake, EpochComes
    <3>2. ASSUME NEW n \in Timers, Wake(n) PROVE EpochComes => EpochComes'
      BY <3>2 DEF Wake, EpochComes
    <3> QED BY <1>9, <3>1, <3>2
  <2>4. main = "wake" => main' = "wake" BY <1>9 DEF FreeWake, Wake
  <2>5. (\E t \in Timers : adder[t] = "look") => \E t \in Timers : adder'[t] = "look"
    BY <1>9 DEF FreeWake, Wake
  <2> QED BY <2>1, <2>2, <2>3, <2>4, <2>5 DEF WakeOK
<1>10. CASE TwFree
  <2>1. main' = "wake" /\ UNCHANGED <<at, wstate, moved, adder, reqadd>> /\ main = "out"
    BY <1>10 DEF TwFree
  <2>2. EpochComes' /\ (FutexComes => FutexComes') BY <2>1 DEF EpochComes, FutexComes
  <2> QED BY <2>1, <2>2 DEF WakeOK
<1>11. CASE Show
  <2>1. at' = "recheck" /\ wstate' = "sleep" BY <1>11 DEF Show
  <2> QED BY <2>1 DEF WakeOK
<1>12. CASE Recheck
  <2>1. /\ at = "recheck" /\ UNCHANGED <<wstate, moved, exit, main, adder, reqadd>>
        /\ at' = IF exit \/ reqadd # <<>> THEN "woke" ELSE "commit"
    BY <1>12 DEF Recheck
  <2>2. at' = "commit" => ~exit /\ reqadd = <<>> BY <2>1
  <2>3. EpochComes => EpochComes' BY <2>1 DEF EpochComes
  <2> QED BY <2>1, <2>2, <2>3 DEF WakeOK
<1>13. CASE Commit
  <2>1. /\ at = "commit" /\ UNCHANGED <<wstate, moved, exit, main, adder, reqadd>>
        /\ at' = IF moved THEN "woke" ELSE "asleep"
    BY <1>13 DEF Commit
  <2>2. EpochComes => EpochComes' BY <2>1 DEF EpochComes
  <2> QED BY <2>1, <2>2 DEF WakeOK
<1> QED BY <1>3, <1>4, <1>5, <1>6, <1>7, <1>8, <1>9, <1>10, <1>11, <1>12, <1>13
     DEF Next, Adds, Frees, Turns, Sleeps

\* The wheel begins empty.
LEMMA InitOK == Init => IInv
<1> SUFFICES ASSUME Init PROVE IInv
  OBVIOUS
<1>1. clock \in Nat BY DEF Init, WheelAssumption
<1>2. reqadd \in Seq(Cells) BY DEF Init
<1>3. Types BY <1>1, <1>2 DEF Init, Types, Places
<1>4. WheelOK /\ QueueOK BY DEF Init, WheelOK, QueueOK
<1>5. SleepOK /\ WakeOK BY DEF Init, SleepOK, WakeOK
<1> QED BY <1>3, <1>4, <1>5 DEF IInv

LEMMA StepOK == IInv /\ [Next]_vars => IInv'
<1>1. ASSUME IInv, Next PROVE IInv'
  BY <1>1, TypesStep, WheelStep, QueueStep, SleepStep, WakeStep DEF IInv
<1>2. ASSUME IInv, UNCHANGED vars PROVE IInv'
  <2> USE <1>2 DEF IInv, vars, wheel, waiter, thread
  <2>1. Types' /\ WheelOK' BY WheelQuiet DEF Types
  <2>2. QueueOK' /\ SleepOK' BY DEF QueueOK, SleepOK
  <2>3. WakeOK' BY DEF WakeOK, EpochComes, FutexComes
  <2> QED BY <2>1, <2>2, <2>3
<1> QED BY <1>1, <1>2

\* What the invariant is for.
LEMMA OnTimeFollows == IInv => OnTime
<1> SUFFICES ASSUME IInv PROVE OnTime
  OBVIOUS
<1> USE DEF IInv
<1>1. RanWhenOwed
  <2>1. ASSUME NEW n \in InWheel PROVE jiffies <= owed[n]
    <3>1. n \in Timers /\ Fits(slot[n], expires[n], owed[n], jiffies) BY DEF InWheel, WheelOK
    <3>2. PICK q \in Nat : Unit(slot[n][1]) * q <= owed[n] /\ jiffies <= Unit(slot[n][1]) * q
      BY <3>1 DEF Fits
    <3>3. Unit(slot[n][1]) \in Nat BY <3>1, Units DEF Fits
    <3> HIDE DEF IInv
    <3>4. \A x, y, z \in Nat : x <= y /\ y <= z => x <= z OBVIOUS
    <3>5. Unit(slot[n][1]) * q \in Nat BY <3>3
    <3>6. jiffies \in Nat /\ owed[n] \in Nat BY <3>1 DEF IInv, Types
    <3> QED BY <3>2, <3>4, <3>5, <3>6
  <2> QED BY <2>1 DEF RanWhenOwed, WheelOK
<1>2. SleepsInTime
  <2>1. EpochComes \/ FutexComes \/ main = "wake" => WakeOnItsWay
    BY DEF EpochComes, FutexComes, WakeOnItsWay
  <2> QED BY <2>1 DEF SleepsInTime, SleepOK, WakeOK, InWheel, Types
<1> QED BY <1>1, <1>2 DEF OnTime

\* No timer runs early or late and the thread of the wheel does not sleep past one
\* (tw.c), for any number of timers, all time-outs and all widths of the levels.
THEOREM OnTimeCorrect == Spec => []OnTime
<1> QED BY InitOK, StepOK, OnTimeFollows, PTL DEF Spec

-----------------------------------------------------------------------------
(* The queue with a spill layer: its invariant *)

\* What the place of a thread says of what it has still to do.
AtWork ==
  /\ \A p \in Producers :
       /\ pc[p] \in {"idle", "fast", "try", "publish", "lock", "spill"}
       /\ pc[p] # "idle" => todo[p] # 0
       /\ pc[p] # "idle" => sent[p] + todo[p] <= MaxPush + (IF pc[p] = "publish" THEN 1 ELSE 0)
  /\ \A c \in Consumers :
       pc[c] \in {"off", "idle", "fast", "decide", "lock", "refast", "drain", "count"}
  /\ \A o \in Observers : pc[o] \in {"idle", "look", "empty"}

\* The lock has one holder, and the counter is what is in the spill queue, what the holder
\* is about to put there, or what it has just taken.
OneInside ==
  \A th \in F!Threads : lck = th <=> pc[th] \in {"spill", "refast", "drain", "count"}
SpillCounted ==
  /\ \A p \in Producers : lck = p => novf = Len(qu) + todo[p]
  /\ \A c \in Consumers :
       /\ lck = c /\ pc[c] = "count" => novf = Len(qu) + want[c]
       /\ lck = c /\ pc[c] # "count" => novf = Len(qu)
  /\ lck = Free => novf = Len(qu)

\* A producer that goes to the ring has nothing in the spill queue; nor have those in
\* the ring when a consumer is about to drain.
Spilled(p) == \E i \in DOMAIN qu : qu[i].by = p
Straight == \A p \in Producers : pc[p] \in {"fast", "try", "publish"} => ~Spilled(p)
Bare ==
  \A c \in Consumers : pc[c] = "drain" /\ want[c] # 0 /\ fastrtn[c] # "inflight" =>
    \A i \in DOMAIN fast : ~Spilled(fast[i].by)

\* InOrder in parts: each of the two queues rises producer by producer, the ring is
\* before the spill queue, both hold only what is sent and not taken, and all of it.
Within(s) == \A i \in DOMAIN s : last[s[i].by] < s[i].n /\ s[i].n <= sent[s[i].by]
Rising(s) == \A i, j \in DOMAIN s : i < j /\ s[i].by = s[j].by => s[i].n < s[j].n
RingFirst ==
  \A i \in DOMAIN fast, j \in DOMAIN qu : fast[i].by = qu[j].by => fast[i].n < qu[j].n
Queued(p, n) ==
  \/ \E i \in DOMAIN fast : fast[i].by = p /\ fast[i].n = n
  \/ \E i \in DOMAIN qu : qu[i].by = p /\ qu[i].n = n
Whole ==
  \A p \in Producers :
    last[p] <= sent[p] /\ \A n \in last[p] + 1 .. sent[p] : Queued(p, n)

\* What an observer has marked was pushed, and is no longer in the ring after its first look.
Marked ==
  /\ \A p \in Producers : done[p] <= sent[p] /\ \A o \in Observers : mark[o][p] <= done[p]
  /\ \A o \in Observers : pc[o] = "look" =>
       \A i \in DOMAIN fast : mark[o][fast[i].by] < fast[i].n

FsquInv ==
  /\ F!TypeOK /\ AtWork /\ OneInside /\ SpillCounted /\ Straight /\ Bare
  /\ Within(fast) /\ Within(qu) /\ Rising(fast) /\ Rising(qu) /\ RingFirst /\ Whole
  /\ Marked /\ F!EmptySound

-----------------------------------------------------------------------------
(* The constants, and sequences *)

\* What the assumption on the constants gives.
LEMMA FsquSetting ==
  /\ \A p \in Producers : p \in F!Threads /\ p # Free /\ p \notin Consumers /\ p \notin Observers
  /\ \A c \in Consumers : c \in F!Threads /\ c # Free /\ c \notin Producers /\ c \notin Observers
  /\ \A o \in Observers : o \in F!Threads /\ o # Free /\ o \notin Producers /\ o \notin Consumers
  /\ \A th \in F!Threads : th # Free
  /\ F!Threads = Producers \cup Consumers \cup Observers
  /\ FastCap \in Nat \ {0} /\ MaxPush \in Nat /\ MaxBatch \in Nat \ {0} /\ MaxWant \in Nat \ {0}
BY HandoffAssumption DEF F!FsquAssumption, F!Threads

\* A set of numbers that is not empty has a least one, and a greatest one if it is bounded.
UpTo(T, k) == {y \in T : y <= k}

LEMMA LeastOf ==
  ASSUME NEW T \in SUBSET Nat, T # {}
  PROVE  \E x \in T : \A y \in T : x <= y
<1> DEFINE Heads == {UpTo(T, k) : k \in T}
<1>0. \A k \in T : k \in Nat OBVIOUS
<1>1. Heads \subseteq FiniteSubsetsOf(Nat)
  <2>1. ASSUME NEW k \in T PROVE UpTo(T, k) \in FiniteSubsetsOf(Nat)
    <3>0. k \in Nat BY <1>0
    <3>4. ASSUME NEW y \in UpTo(T, k) PROVE y \in 0 .. k
      <4>1. y \in Nat /\ y <= k BY <1>0 DEF UpTo
      <4> QED BY <3>0, <4>1
    <3>1. UpTo(T, k) \subseteq 0 .. k /\ 0 \in Int /\ k \in Int BY <3>0, <3>4
    <3>2. IsFiniteSet(0 .. k) BY <3>1, FS_Interval
    <3>3. IsFiniteSet(UpTo(T, k)) BY <3>1, <3>2, FS_Subset
    <3> QED BY <3>3 DEF FiniteSubsetsOf, UpTo
  <2> QED BY <2>1
<1>2. IsWellFoundedOn(StrictSubsetOrdering(Nat), FiniteSubsetsOf(Nat))
  BY FS_StrictSubsetOrderingWellFounded
<1>3. PICK X \in Heads : \A Y \in Heads : ~ (<<Y, X>> \in StrictSubsetOrdering(Nat))
  <2>1. Heads # {} OBVIOUS
  <2> HIDE DEF Heads
  <2> QED BY <1>1, <1>2, <2>1, WFMin
<1>4. PICK x \in T : X = UpTo(T, x) BY <1>3
<1>5. ASSUME NEW y \in T, y < x PROVE FALSE
  <2>1. UpTo(T, y) \in Heads OBVIOUS
  <2>0. x \in Nat /\ y \in Nat BY <1>0
  <2>5. \A z \in UpTo(T, y) : z \in T /\ z \in Nat /\ z <= x BY <1>0, <1>5, <2>0 DEF UpTo
  <2>6. UpTo(T, y) \subseteq X BY <1>4, <2>5 DEF UpTo
  <2>7. x \in X BY <1>4, <2>0 DEF UpTo
  <2>8. x \notin UpTo(T, y) BY <1>5, <2>0 DEF UpTo
  <2>2. UpTo(T, y) \subseteq X /\ x \in X /\ x \notin UpTo(T, y) BY <2>6, <2>7, <2>8
  <2>3. X \subseteq Nat BY <1>4 DEF UpTo
  <2>4. <<UpTo(T, y), X>> \in StrictSubsetOrdering(Nat) BY <2>2, <2>3 DEF StrictSubsetOrdering
  <2> QED BY <1>3, <2>1, <2>4
<1> QED BY <1>0, <1>5

LEMMA GreatestOf ==
  ASSUME NEW m \in Nat, NEW S, S \subseteq 1 .. m, S # {}
  PROVE  \E x \in S : \A y \in S : y <= x
<1> DEFINE T == {m - y : y \in S}
<1>1. T \in SUBSET Nat /\ T # {}
  <2>1. ASSUME NEW y \in S PROVE m - y \in Nat
    <3>1. y \in Nat /\ y <= m OBVIOUS
    <3> QED BY <3>1
  <2> QED BY <2>1
<1>2. PICK t \in T : \A y \in T : t <= y
  <2> HIDE DEF T
  <2> QED BY <1>1, LeastOf
<1>3. PICK x \in S : t = m - x BY <1>2
<1>4. ASSUME NEW y \in S PROVE y <= x
  <2>1. m - y \in T OBVIOUS
  <2>2. m - x <= m - y BY <1>2, <1>3, <2>1
  <2>3. x \in Int /\ y \in Int OBVIOUS
  <2> QED BY <2>2, <2>3
<1> QED BY <1>4

\* A sequence with one more at its end, without its first, with another behind it, and
\* without what comes first.
LEMMA OneMore ==
  ASSUME NEW S, NEW q \in Seq(S), NEW x \in S
  PROVE  /\ Append(q, x) \in Seq(S) /\ Len(q) \in Nat /\ Len(Append(q, x)) = Len(q) + 1
         /\ \A i \in DOMAIN q : i \in DOMAIN Append(q, x) /\ Append(q, x)[i] = q[i] /\ i <= Len(q)
         /\ Len(q) + 1 \in DOMAIN Append(q, x) /\ Append(q, x)[Len(q) + 1] = x
         /\ \A i \in DOMAIN Append(q, x) : i \in DOMAIN q \/ i = Len(q) + 1
OBVIOUS

LEMMA OneLess ==
  ASSUME NEW S, NEW q \in Seq(S), q # <<>>
  PROVE  /\ Tail(q) \in Seq(S) /\ Len(q) \in Nat /\ Len(Tail(q)) = Len(q) - 1
         /\ 1 \in DOMAIN q /\ Head(q) = q[1] /\ Head(q) \in S
         /\ \A i \in DOMAIN Tail(q) :
              i \in Nat /\ i >= 1 /\ i + 1 \in DOMAIN q /\ Tail(q)[i] = q[i + 1]
         /\ \A i \in DOMAIN q : i \in Nat /\ i >= 1
         /\ \A i \in DOMAIN q : i # 1 => i - 1 \in DOMAIN Tail(q) /\ Tail(q)[i - 1] = q[i]
OBVIOUS

LEMMA TwoSeqs ==
  ASSUME NEW S, NEW q \in Seq(S), NEW r \in Seq(S)
  PROVE  /\ q \o r \in Seq(S) /\ Len(q) \in Nat /\ Len(r) \in Nat /\ Len(q \o r) = Len(q) + Len(r)
         /\ \A i \in DOMAIN q : i \in Nat /\ i <= Len(q) /\ i \in DOMAIN (q \o r)
                   /\ (q \o r)[i] = q[i]
         /\ \A i \in DOMAIN r : /\ i \in Nat /\ i >= 1 /\ i + Len(q) \in DOMAIN (q \o r)
                                /\ (q \o r)[i + Len(q)] = r[i]
         /\ \A i \in DOMAIN (q \o r) : i \in Nat /\ (i \in DOMAIN q \/ i - Len(q) \in DOMAIN r)
         /\ \A i \in DOMAIN (q \o r) : i \in DOMAIN q => (q \o r)[i] = q[i]
         /\ \A i \in DOMAIN (q \o r) : i \notin DOMAIN q =>
              i > Len(q) /\ i - Len(q) \in DOMAIN r /\ (q \o r)[i] = r[i - Len(q)]
<1>1. /\ q \o r \in Seq(S) /\ Len(q) \in Nat /\ Len(r) \in Nat /\ Len(q \o r) = Len(q) + Len(r)
      /\ DOMAIN q = 1 .. Len(q) /\ DOMAIN r = 1 .. Len(r) /\ DOMAIN (q \o r) = 1 .. Len(q) + Len(r)
  OBVIOUS
<1>2. \A i \in 1 .. Len(q) + Len(r) : (q \o r)[i] = IF i <= Len(q) THEN q[i] ELSE r[i - Len(q)]
  OBVIOUS
<1> QED BY <1>1, <1>2

LEMMA Without ==
  ASSUME NEW S, NEW q \in Seq(S), NEW m \in 0 .. Len(q)
  PROVE  LET r == SubSeq(q, m + 1, Len(q)) IN
         /\ r \in Seq(S) /\ Len(q) \in Nat /\ Len(r) = Len(q) - m
         /\ \A i \in DOMAIN q : i \in Nat /\ i >= 1 /\ i <= Len(q)
         /\ \A i \in DOMAIN r : i \in Nat /\ i >= 1 /\ m + i \in DOMAIN q /\ r[i] = q[m + i]
         /\ \A i \in DOMAIN q : i > m => i - m \in DOMAIN r /\ r[i - m] = q[i]
<1> DEFINE r == SubSeq(q, m + 1, Len(q))
<1>1. Len(q) \in Nat /\ DOMAIN q = 1 .. Len(q) /\ m \in Nat /\ m <= Len(q) OBVIOUS
<1>2. /\ r \in Seq(S) /\ Len(r) = Len(q) - m /\ DOMAIN r = 1 .. Len(q) - m
      /\ \A i \in 1 .. Len(q) - m : r[i] = q[m + i]
  <2>1. m + 1 \in Int /\ Len(q) \in Int /\ \A i \in m + 1 .. Len(q) : q[i] \in S BY <1>1
  <2>2. /\ r \in Seq(S) /\ Len(r) = IF m + 1 <= Len(q) THEN Len(q) - (m + 1) + 1 ELSE 0
        /\ \A i \in 1 .. Len(q) - (m + 1) + 1 : r[i] = q[(m + 1) + i - 1]
    BY <1>1, <2>1, SubSeqProperties
  <2> HIDE DEF r
  <2>3. (m + 1 <= Len(q) <=> m < Len(q)) /\ Len(q) - (m + 1) + 1 = Len(q) - m BY <1>1
  <2>4. Len(r) = Len(q) - m
    <3>1. CASE m < Len(q) BY <2>2, <2>3, <3>1
    <3>2. CASE m = Len(q) BY <1>1, <2>2, <2>3, <3>2
    <3>4. \A a, b \in Nat : a <= b => a < b \/ a = b OBVIOUS
    <3>3. m < Len(q) \/ m = Len(q) BY <1>1, <3>4
    <3> QED BY <3>1, <3>2, <3>3
  <2>5. DOMAIN r = 1 .. Len(q) - m BY <2>2, <2>4
  <2>6. \A i \in 1 .. Len(q) - m : r[i] = q[m + i]
    <3>1. ASSUME NEW i \in 1 .. Len(q) - m PROVE r[i] = q[m + i]
      <4>1. (m + 1) + i - 1 = m + i BY <1>1
      <4> QED BY <2>2, <2>3, <4>1
    <3> QED BY <3>1
  <2> QED BY <2>2, <2>4, <2>5, <2>6
<1> HIDE DEF r
<1>3. ASSUME NEW i \in DOMAIN q, i > m PROVE i - m \in DOMAIN r /\ r[i - m] = q[i]
  <2>1. i - m \in 1 .. Len(q) - m /\ m + (i - m) = i BY <1>1, <1>3
  <2> QED BY <1>2, <2>1
<1>4. \A i \in DOMAIN r : i \in Nat /\ i >= 1 /\ m + i \in DOMAIN q /\ r[i] = q[m + i] BY <1>1, <1>2
<1>5. r \in Seq(S) /\ Len(q) \in Nat /\ Len(r) = Len(q) - m
      /\ \A i \in DOMAIN q : i \in Nat /\ i >= 1 /\ i <= Len(q) BY <1>1, <1>2
<1> QED BY <1>3, <1>4, <1>5 DEF r

-----------------------------------------------------------------------------
(* Types, and what the places say *)

\* Where a step takes its thread.
LEMMA Goes ==
  ASSUME F!TypeOK, NEW th \in F!Threads, NEW l, F!Goto(th, l)
  PROVE  pc'[th] = l /\ \A x \in F!Threads : x # th => pc'[x] = pc[x]
BY DEF F!TypeOK, F!Goto

\* A producer's numbers are within the bound.
LEMMA Bounded ==
  ASSUME FsquInv, NEW p \in Producers
  PROVE  /\ todo[p] \in Nat /\ sent[p] \in Nat /\ done[p] \in Nat /\ last[p] \in Nat
         /\ todo[p] <= MaxBatch /\ sent[p] <= MaxPush
         /\ pc[p] # "idle" => todo[p] >= 1 /\ todo[p] - 1 \in 0 .. MaxBatch
         /\ pc[p] \in {"fast", "try", "lock", "spill"} => sent[p] + todo[p] <= MaxPush
         /\ pc[p] = "publish" => sent[p] + todo[p] <= MaxPush + 1
<1>1. /\ todo[p] \in 0 .. MaxBatch /\ sent[p] \in 0 .. MaxPush
      /\ done[p] \in 0 .. MaxPush /\ last[p] \in 0 .. MaxPush
  BY DEF FsquInv, F!TypeOK, F!Numbers
<1>2. /\ pc[p] # "idle" => todo[p] # 0
      /\ pc[p] # "idle" => sent[p] + todo[p] <= MaxPush + (IF pc[p] = "publish" THEN 1 ELSE 0)
  BY DEF FsquInv, AtWork
<1> QED BY <1>1, <1>2, FsquSetting

\* What is placed in the spill queue by one step, and what is taken from it.
Batch(p) == [i \in 1 .. todo[p] |-> [by |-> p, n |-> sent[p] + i]]
RingCells == [by : Producers, n : F!Numbers, ready : BOOLEAN]
Items == [by : Producers, n : F!Numbers]

LEMMA BatchSeq ==
  ASSUME FsquInv, NEW p \in Producers, pc[p] = "spill"
  PROVE  /\ Batch(p) \in Seq(Items) /\ Len(Batch(p)) = todo[p] /\ todo[p] \in Nat /\ sent[p] \in Nat
         /\ sent[p] + todo[p] \in F!Numbers
         /\ \A i \in DOMAIN Batch(p) : i \in 1 .. todo[p] /\ Batch(p)[i].by = p
                   /\ Batch(p)[i].n = sent[p] + i
         /\ \A i \in 1 .. todo[p] : i \in DOMAIN Batch(p)
<1>1. /\ todo[p] \in Nat /\ sent[p] \in Nat /\ sent[p] + todo[p] <= MaxPush
  BY Bounded
<1>2. \A i \in 1 .. todo[p] : [by |-> p, n |-> sent[p] + i] \in Items
  BY <1>1, FsquSetting DEF Items, F!Numbers
<1>3. Batch(p) \in [1 .. todo[p] -> Items] BY <1>2 DEF Batch
<1>4. Batch(p) \in Seq(Items) /\ Len(Batch(p)) = todo[p] BY <1>1, <1>3
<1>5. DOMAIN Batch(p) = 1 .. todo[p] BY <1>3
<1> QED BY <1>1, <1>4, <1>5, FsquSetting DEF Batch, F!Numbers

\* How many a drain takes.
LEMMA DrainSome ==
  ASSUME F!TypeOK, NEW c \in Consumers, F!Drain(c)
  PROVE  \E m \in Nat : /\ m <= Len(qu) /\ m <= want[c] /\ m \in 0 .. Len(qu)
                       /\ qu' = SubSeq(qu, m + 1, Len(qu))
                       /\ last' = [p \in Producers |-> F!LastOf(p, SubSeq(qu, 1, m))]
                       /\ want' = [want EXCEPT ![c] = m] /\ m = F!Least(want[c], Len(qu))
<1>1. want[c] \in Nat /\ Len(qu) \in Nat BY FsquSetting DEF F!TypeOK
<1>2. PICK m : m = F!Least(want[c], Len(qu)) OBVIOUS
<1>3. m \in Nat /\ m <= Len(qu) /\ m <= want[c] BY <1>1, <1>2 DEF F!Least
<1>4. /\ qu' = SubSeq(qu, m + 1, Len(qu))
      /\ last' = [p \in Producers |-> F!LastOf(p, SubSeq(qu, 1, m))]
      /\ want' = [want EXCEPT ![c] = m]
  BY <1>2 DEF F!Drain
<1>5. m \in 0 .. Len(qu) BY <1>1, <1>3
<1> WITNESS m \in Nat
<1> QED BY <1>2, <1>3, <1>4, <1>5

\* The last number taken out by a drain is a number.
LEMMA LastTaken ==
  ASSUME F!TypeOK, NEW m \in 0 .. Len(qu), NEW p \in Producers
  PROVE  /\ (\A i \in 1 .. m : qu[i].by # p) => F!LastOf(p, SubSeq(qu, 1, m)) = last[p]
         /\ (\E i \in 1 .. m : qu[i].by = p) =>
              \E i \in 1 .. m : /\ qu[i].by = p /\ F!LastOf(p, SubSeq(qu, 1, m)) = qu[i].n
                                /\ \A j \in 1 .. m : qu[j].by = p => j <= i
<1>1. PICK s : s = SubSeq(qu, 1, m) OBVIOUS
<1>2. qu \in Seq(Items) /\ Len(qu) \in Nat /\ m \in Nat /\ m <= Len(qu) BY DEF F!TypeOK, Items
<1>3. DOMAIN s = 1 .. m /\ \A i \in 1 .. m : s[i] = qu[i]
  <2>1. 1 \in 1 .. Len(qu) + 1 /\ m \in 1 - 1 .. Len(qu) BY <1>2
  <2>2. /\ s \in Seq(Items) /\ Len(s) = m - 1 + 1
        /\ \A i \in 1 .. m - 1 + 1 : s[i] = qu[1 + i - 1]
    BY <1>1, <1>2, <2>1, SubSeqProperties
  <2> QED BY <1>2, <2>2
<1>4. PICK mine : mine = {i \in DOMAIN s : s[i].by = p} OBVIOUS
<1>5. F!LastOf(p, s) = IF mine = {} THEN last[p]
                       ELSE s[CHOOSE i \in mine : \A j \in mine : j <= i].n
  BY <1>4 DEF F!LastOf
<1>6. ASSUME \A i \in 1 .. m : qu[i].by # p PROVE F!LastOf(p, s) = last[p]
  <2>1. mine = {} BY <1>3, <1>4, <1>6
  <2> QED BY <1>5, <2>1
<1>7. ASSUME \E i \in 1 .. m : qu[i].by = p
      PROVE  \E i \in 1 .. m : /\ qu[i].by = p /\ F!LastOf(p, s) = qu[i].n
                               /\ \A j \in 1 .. m : qu[j].by = p => j <= i
  <2>1. mine # {} /\ mine \subseteq 1 .. m BY <1>3, <1>4, <1>7
  <2>2. \E i \in mine : \A j \in mine : j <= i BY <1>2, <2>1, GreatestOf
  <2>3. PICK k : k = CHOOSE i \in mine : \A j \in mine : j <= i OBVIOUS
  <2>4. k \in mine /\ \A j \in mine : j <= k BY <2>2, <2>3
  <2>5. F!LastOf(p, s) = s[k].n BY <1>5, <2>1, <2>3
  <2> QED BY <1>3, <1>4, <2>1, <2>4, <2>5
<1> QED BY <1>1, <1>6, <1>7

TypePc == pc \in [F!Threads -> {"off", "idle", "fast", "try", "publish", "lock", "spill", "decide",
                               "refast", "drain", "count", "look", "empty"}]

\* The types after any step.
LEMMA FsquTypesStep ==
  ASSUME FsquInv, [F!Next]_(F!vars)
  PROVE  F!TypeOK'
<1> USE DEF F!spill, F!takers
<1>0. FsquInv /\ F!TypeOK BY DEF FsquInv
<1>1. ASSUME NEW p \in Producers, F!Push(p) PROVE F!TypeOK'
  <2>1. ASSUME NEW n \in 1 .. MaxBatch, F!PushStart(p, n) PROVE F!TypeOK'
    BY <1>0, <2>1, FsquSetting DEF F!PushStart, F!Goto, F!TypeOK, F!Threads
  <2>2. CASE F!TryStart(p)
    BY <1>0, <2>2, FsquSetting DEF F!TryStart, F!Goto, F!TypeOK, F!Threads
  <2>3. CASE F!FastClaim(p)
    <3>1. sent[p] + 1 \in F!Numbers BY <2>3, Bounded, FsquSetting DEF F!FastClaim, F!Numbers
    <3>2. PICK x : x = [by |-> p, n |-> sent[p] + 1, ready |-> FALSE] OBVIOUS
    <3>3. x \in RingCells BY <3>1, <3>2 DEF RingCells
    <3>4. fast \in Seq(RingCells) /\ fast' = Append(fast, x)
      BY <1>0, <2>3, <3>2 DEF F!FastClaim, F!TypeOK, RingCells
    <3>5. fast' \in Seq(RingCells) /\ Len(fast') <= FastCap
      BY <1>0, <2>3, <3>3, <3>4, OneMore, FsquSetting DEF F!FastClaim, F!TypeOK
    <3>6. sent' \in [Producers -> F!Numbers] BY <1>0, <2>3, <3>1 DEF F!FastClaim, F!TypeOK
    <3>7. TypePc' BY <1>0, <2>3, FsquSetting DEF F!FastClaim, F!Goto, TypePc, F!TypeOK
    <3>8. UNCHANGED <<qu, novf, lck, todo, want, fastrtn, mark, done, last>> BY <2>3 DEF F!FastClaim
    <3> QED BY <1>0, <3>5, <3>6, <3>7, <3>8 DEF F!TypeOK, RingCells, TypePc
  <2>4. CASE F!FastPublish(p)
    <3>1. fast \in Seq(RingCells) BY <1>0 DEF F!TypeOK, RingCells
    <3>2. fast' \in Seq(RingCells) /\ Len(fast') = Len(fast)
      <4>1. Len(fast) \in Nat /\ DOMAIN fast = 1 .. Len(fast) BY <3>1
      <4>2. fast' \in [1 .. Len(fast) -> RingCells]
        <5>1. \A i \in DOMAIN fast : fast[i] \in RingCells BY <3>1
        <5>2. \A x \in RingCells : [x EXCEPT !.ready = TRUE] \in RingCells BY DEF RingCells
        <5> QED BY <2>4, <4>1, <5>1, <5>2 DEF F!FastPublish
      <4> QED BY <4>1, <4>2
    <3>3. todo' \in [Producers -> 0 .. MaxBatch] BY <1>0, <2>4, Bounded DEF F!FastPublish, F!TypeOK
    <3>4. done' \in [Producers -> F!Numbers] BY <1>0, <2>4 DEF F!FastPublish, F!TypeOK
    <3>5. TypePc' BY <1>0, <2>4, FsquSetting DEF F!FastPublish, F!Goto, TypePc, F!TypeOK
    <3>6. UNCHANGED <<qu, novf, lck, want, fastrtn, mark, sent, last>> BY <2>4 DEF F!FastPublish
    <3> QED BY <1>0, <3>2, <3>3, <3>4, <3>5, <3>6 DEF F!TypeOK, RingCells, TypePc
  <2>5. CASE F!FastFull(p)
    BY <1>0, <2>5, FsquSetting DEF F!FastFull, F!Goto, F!TypeOK, F!Threads
  <2>6. CASE F!TryFails(p)
    BY <1>0, <2>6, FsquSetting DEF F!TryFails, F!Goto, F!TypeOK, F!Threads
  <2>7. CASE F!PushLock(p)
    <3>1. novf' \in Nat /\ novf' >= Len(qu)
      <4>1. novf \in Nat /\ novf >= Len(qu) /\ Len(qu) \in Nat BY <1>0 DEF F!TypeOK
      <4>2. todo[p] \in Nat /\ novf' = novf + todo[p] BY <2>7, Bounded DEF F!PushLock
      <4> QED BY <4>1, <4>2
    <3>2. TypePc' BY <1>0, <2>7, FsquSetting DEF F!PushLock, F!Goto, TypePc, F!TypeOK
    <3>3. lck' \in F!Threads \cup {Free} BY <2>7, FsquSetting DEF F!PushLock
    <3>4. UNCHANGED <<fast, qu, todo, want, fastrtn, mark, sent, done, last>> BY <2>7 DEF F!PushLock
    <3> QED BY <1>0, <3>1, <3>2, <3>3, <3>4 DEF F!TypeOK, TypePc
  <2>8. CASE F!PushSpill(p)
    <3>1. Batch(p) \in Seq(Items) /\ Len(Batch(p)) = todo[p] /\ sent[p] + todo[p] \in F!Numbers
      BY <2>8, BatchSeq DEF F!PushSpill
    <3>2. qu \in Seq(Items) /\ qu' = qu \o Batch(p)
      BY <1>0, <2>8 DEF F!PushSpill, F!TypeOK, Items, Batch
    <3>3. qu' \in Seq(Items) /\ Len(qu') = Len(qu) + todo[p]
      <4>1. PICK b : b = Batch(p) OBVIOUS
      <4> QED BY <3>1, <3>2, <4>1, TwoSeqs
    <3>4. novf = Len(qu) + todo[p]
      <4>1. lck = p BY <2>8, FsquSetting DEF F!PushSpill, FsquInv, OneInside
      <4> QED BY <4>1 DEF FsquInv, SpillCounted
    <3>5. /\ sent' \in [Producers -> F!Numbers] /\ done' \in [Producers -> F!Numbers]
          /\ todo' \in [Producers -> 0 .. MaxBatch]
      BY <1>0, <2>8, <3>1, FsquSetting DEF F!PushSpill, F!TypeOK
    <3>6. TypePc' BY <1>0, <2>8, FsquSetting DEF F!PushSpill, F!Goto, TypePc, F!TypeOK
    <3>7. novf' = novf /\ novf \in Nat /\ lck' = Free BY <1>0, <2>8 DEF F!PushSpill, F!TypeOK
    <3>8. UNCHANGED <<fast, want, fastrtn, mark, last>> BY <2>8 DEF F!PushSpill
    <3> QED BY <1>0, <3>3, <3>4, <3>5, <3>6, <3>7, <3>8 DEF F!TypeOK, Items, TypePc
  <2> QED BY <1>1, <2>1, <2>2, <2>3, <2>4, <2>5, <2>6, <2>7, <2>8 DEF F!Push
<1>2. ASSUME NEW c \in Consumers, F!Pop(c) PROVE F!TypeOK'
  <2>1. ASSUME NEW n \in 1 .. MaxWant, F!PopStart(c, n) PROVE F!TypeOK'
    BY <1>0, <2>1, FsquSetting DEF F!PopStart, F!Goto, F!TypeOK, F!Threads
  <2>2. CASE F!FastTake(c)
    <3>1. fast \in Seq(RingCells) /\ fast # <<>> BY <1>0, <2>2 DEF F!FastTake, F!TypeOK, RingCells
    <3>2. Tail(fast) \in Seq(RingCells) /\ Len(Tail(fast)) <= FastCap /\ Head(fast) \in RingCells
      BY <1>0, <3>1, OneLess, FsquSetting DEF F!TypeOK
    <3>3. fast' \in Seq(RingCells) /\ Len(fast') <= FastCap BY <2>2, <3>2 DEF F!FastTake
    <3>4. last' \in [Producers -> F!Numbers] BY <1>0, <2>2, <3>2 DEF F!FastTake, F!TypeOK, RingCells
    <3>5. want' \in [Consumers -> 0 .. MaxWant] BY <1>0, <2>2, FsquSetting DEF F!FastTake, F!TypeOK
    <3>6. UNCHANGED <<qu, novf, lck, pc, todo, fastrtn, mark, sent, done>> BY <2>2 DEF F!FastTake
    <3> QED BY <1>0, <3>3, <3>4, <3>5, <3>6 DEF F!TypeOK, RingCells
  <2>3. CASE F!FastStop(c)
    <3>1. fastrtn' \in [Consumers -> {"ok", "empty", "inflight"}]
      <4>1. F!Answers(c) \subseteq {"empty", "inflight"} BY DEF F!Answers
      <4>2. fastrtn' = fastrtn \/ \E r \in F!Answers(c) : fastrtn' = [fastrtn EXCEPT ![c] = r]
        BY <2>3 DEF F!FastStop
      <4> QED BY <1>0, <4>1, <4>2 DEF F!TypeOK
    <3>2. TypePc' BY <1>0, <2>3, FsquSetting DEF F!FastStop, F!Goto, TypePc, F!TypeOK
    <3>3. UNCHANGED <<fast, qu, novf, lck, todo, want, mark, sent, done, last>>
      BY <2>3 DEF F!FastStop
    <3> QED BY <1>0, <3>1, <3>2, <3>3 DEF F!TypeOK, TypePc
  <2>4. CASE F!Decide(c)
    BY <1>0, <2>4, FsquSetting DEF F!Decide, F!Goto, F!TypeOK, F!Threads
  <2>5. CASE F!PopLock(c)
    BY <1>0, <2>5, FsquSetting DEF F!PopLock, F!Goto, F!TypeOK, F!Threads
  <2>6. CASE F!Drain(c)
    <3>0. PICK m \in Nat : /\ m <= Len(qu) /\ m <= want[c] /\ m \in 0 .. Len(qu)
                       /\ qu' = SubSeq(qu, m + 1, Len(qu))
                       /\ last' = [p \in Producers |-> F!LastOf(p, SubSeq(qu, 1, m))]
                       /\ want' = [want EXCEPT ![c] = m]
      BY <1>0, <2>6, DrainSome
    <3>1. qu \in Seq(Items) BY <1>0 DEF F!TypeOK, Items
    <3>2. qu' \in Seq(Items) /\ Len(qu') = Len(qu) - m /\ Len(qu) \in Nat BY <3>0, <3>1, Without
    <3>3. last' \in [Producers -> F!Numbers]
      <4>1. ASSUME NEW p \in Producers PROVE F!LastOf(p, SubSeq(qu, 1, m)) \in F!Numbers
        <5>1. last[p] \in F!Numbers BY <1>0 DEF F!TypeOK
        <5>2. \A i \in 1 .. m : qu[i].n \in F!Numbers
          <6>1. \A i \in 1 .. m : i \in 1 .. Len(qu) BY <3>0, <3>2
          <6>2. \A i \in 1 .. Len(qu) : qu[i] \in Items BY <3>1
          <6>3. \A x \in Items : x.n \in F!Numbers BY DEF Items
          <6> QED BY <6>1, <6>2, <6>3
        <5> QED BY <1>0, <3>0, <5>1, <5>2, LastTaken
      <4> QED BY <3>0, <4>1
    <3>4. want' \in [Consumers -> 0 .. MaxWant]
      <4>1. want[c] \in 0 .. MaxWant BY <1>0 DEF F!TypeOK
      <4>2. m \in 0 .. MaxWant BY <3>0, <4>1, FsquSetting
      <4> QED BY <1>0, <3>0, <4>2 DEF F!TypeOK
    <3>5. TypePc' BY <1>0, <2>6, FsquSetting DEF F!Drain, F!Goto, TypePc, F!TypeOK
    <3>6. UNCHANGED <<fast, novf, lck, todo, fastrtn, mark, sent, done>> BY <2>6 DEF F!Drain
    <3>7. Len(qu') <= novf BY <1>0, <3>0, <3>2 DEF F!TypeOK
    <3> QED BY <1>0, <3>2, <3>3, <3>4, <3>5, <3>6, <3>7 DEF F!TypeOK, Items, TypePc
  <2>7. CASE F!DrainCount(c)
    <3>1. novf' \in Nat /\ novf' >= Len(qu)
      <4>1. lck = c BY <2>7, FsquSetting DEF F!DrainCount, FsquInv, OneInside
      <4>2. novf = Len(qu) + want[c] BY <2>7, <4>1 DEF F!DrainCount, FsquInv, SpillCounted
      <4>3. want[c] \in Nat /\ Len(qu) \in Nat BY <1>0, FsquSetting DEF F!TypeOK
      <4> QED BY <2>7, <4>2, <4>3 DEF F!DrainCount
    <3>2. TypePc' BY <1>0, <2>7, FsquSetting DEF F!DrainCount, F!Goto, TypePc, F!TypeOK
    <3>3. lck' = Free /\ UNCHANGED <<fast, qu, todo, want, fastrtn, mark, sent, done, last>>
      BY <2>7 DEF F!DrainCount
    <3> QED BY <1>0, <3>1, <3>2, <3>3 DEF F!TypeOK, TypePc
  <2>8. CASE F!DrainNot(c)
    BY <1>0, <2>8, FsquSetting DEF F!DrainNot, F!Goto, F!TypeOK, F!Threads
  <2> QED BY <1>2, <2>1, <2>2, <2>3, <2>4, <2>5, <2>6, <2>7, <2>8 DEF F!Pop
<1>3. ASSUME NEW o \in Observers, F!LookFast(o) \/ F!LookNovf(o) PROVE F!TypeOK'
  <2>1. CASE F!LookFast(o)
    <3>1. mark' \in [Observers -> [Producers -> F!Numbers]] BY <1>0, <2>1 DEF F!LookFast, F!TypeOK
    <3>2. TypePc' BY <1>0, <2>1, FsquSetting DEF F!LookFast, F!Goto, TypePc, F!TypeOK
    <3>3. UNCHANGED <<fast, qu, novf, lck, todo, want, fastrtn, sent, done, last>>
      BY <2>1 DEF F!LookFast
    <3> QED BY <1>0, <3>1, <3>2, <3>3 DEF F!TypeOK, TypePc
  <2>2. CASE F!LookNovf(o)
    BY <1>0, <2>2, FsquSetting DEF F!LookNovf, F!Goto, F!TypeOK, F!Threads
  <2> QED BY <1>3, <2>1, <2>2
<1>4. CASE UNCHANGED F!vars BY <1>0, <1>4 DEF F!vars, F!Goto, F!TypeOK, F!Threads
<1> QED BY <1>1, <1>2, <1>3, <1>4 DEF F!Next


-----------------------------------------------------------------------------
(* What a step does to the two queues *)

\* The elements of both, and the counts, are numbers of producers.
LEMMA Elements ==
  ASSUME F!TypeOK
  PROVE  /\ fast \in Seq(RingCells) /\ qu \in Seq(Items)
         /\ \A i \in DOMAIN fast : i \in Nat /\ i >= 1 /\ fast[i].by \in Producers
                   /\ fast[i].n \in Nat
         /\ \A i \in DOMAIN qu : i \in Nat /\ i >= 1 /\ qu[i].by \in Producers /\ qu[i].n \in Nat
         /\ \A p \in Producers : last[p] \in Nat /\ sent[p] \in Nat /\ done[p] \in Nat
         /\ \A o \in Observers, p \in Producers : mark[o][p] \in Nat
<1>1. fast \in Seq(RingCells) /\ qu \in Seq(Items) BY DEF F!TypeOK, RingCells, Items
<1>2. \A x \in RingCells : x.by \in Producers /\ x.n \in Nat BY DEF RingCells, F!Numbers
<1>3. \A x \in Items : x.by \in Producers /\ x.n \in Nat BY DEF Items, F!Numbers
<1>4. \A i \in DOMAIN fast : i \in Nat /\ i >= 1 /\ fast[i] \in RingCells BY <1>1
<1>5. \A i \in DOMAIN qu : i \in Nat /\ i >= 1 /\ qu[i] \in Items BY <1>1
<1>6. \A p \in Producers : last[p] \in Nat /\ sent[p] \in Nat /\ done[p] \in Nat
  BY DEF F!TypeOK, F!Numbers
<1>7. \A o \in Observers, p \in Producers : mark[o][p] \in Nat BY DEF F!TypeOK, F!Numbers
<1> QED BY <1>1, <1>2, <1>3, <1>4, <1>5, <1>6, <1>7

\* A claim puts the producer's next number at the end of the ring.
ClaimDoes(p) ==
  /\ qu' = qu /\ last' = last /\ sent'[p] = sent[p] + 1
  /\ \A x \in Producers : x # p => sent'[x] = sent[x]
  /\ \A i \in DOMAIN fast : i \in DOMAIN fast' /\ fast'[i] = fast[i] /\ i <= Len(fast)
  /\ Len(fast) \in Nat /\ Len(fast) + 1 \in DOMAIN fast'
  /\ fast'[Len(fast) + 1].by = p /\ fast'[Len(fast) + 1].n = sent[p] + 1
  /\ \A i \in DOMAIN fast' : i \in DOMAIN fast \/ i = Len(fast) + 1

LEMMA ClaimEffect ==
  ASSUME FsquInv, F!TypeOK, NEW p \in Producers, F!FastClaim(p) PROVE ClaimDoes(p)
<1>1. PICK x : x = [by |-> p, n |-> sent[p] + 1, ready |-> FALSE] OBVIOUS
<1>2. sent[p] + 1 \in F!Numbers BY Bounded, FsquSetting DEF F!FastClaim, F!Numbers
<1>3. x \in RingCells BY <1>1, <1>2 DEF RingCells
<1>4. fast' = Append(fast, x) /\ fast \in Seq(RingCells) BY <1>1, Elements DEF F!FastClaim
<1>5. /\ \A i \in DOMAIN fast : i \in DOMAIN fast' /\ fast'[i] = fast[i] /\ i <= Len(fast)
      /\ Len(fast) \in Nat /\ Len(fast) + 1 \in DOMAIN fast' /\ fast'[Len(fast) + 1] = x
      /\ \A i \in DOMAIN fast' : i \in DOMAIN fast \/ i = Len(fast) + 1
  BY <1>3, <1>4, OneMore
<1>6. x.by = p /\ x.n = sent[p] + 1 BY <1>1
<1>7. /\ qu' = qu /\ last' = last /\ sent'[p] = sent[p] + 1
      /\ \A y \in Producers : y # p => sent'[y] = sent[y]
  BY DEF F!FastClaim, F!spill, F!TypeOK
<1> QED BY <1>5, <1>6, <1>7 DEF ClaimDoes

\* A publication changes no number.
PublishDoes ==
  /\ qu' = qu /\ last' = last /\ sent' = sent /\ DOMAIN fast' = DOMAIN fast
  /\ \A i \in DOMAIN fast : fast'[i].by = fast[i].by /\ fast'[i].n = fast[i].n

LEMMA PublishEffect ==
  ASSUME F!TypeOK, NEW p \in Producers, F!FastPublish(p) PROVE PublishDoes
<1>1. \A i \in DOMAIN fast : fast[i] \in RingCells BY Elements
<1>2. \A x \in RingCells : /\ [x EXCEPT !.ready = TRUE].by = x.by
                       /\ [x EXCEPT !.ready = TRUE].n = x.n BY DEF RingCells
<1>3. fast' = [i \in DOMAIN fast |-> IF fast[i].by = p THEN [fast[i] EXCEPT !.ready = TRUE]
                                     ELSE fast[i]] BY DEF F!FastPublish
<1>4. DOMAIN fast' = DOMAIN fast BY <1>3
<1>5. ASSUME NEW i \in DOMAIN fast PROVE fast'[i].by = fast[i].by /\ fast'[i].n = fast[i].n
  <2>1. fast'[i] = fast[i] \/ fast'[i] = [fast[i] EXCEPT !.ready = TRUE] BY <1>3
  <2> QED BY <1>1, <1>2, <2>1
<1> QED BY <1>4, <1>5 DEF PublishDoes, F!FastPublish, F!spill

\* A batch goes behind what is in the spill queue.
SpillDoes(p) ==
  /\ fast' = fast /\ last' = last /\ todo[p] \in Nat /\ sent'[p] = sent[p] + todo[p]
  /\ \A x \in Producers : x # p => sent'[x] = sent[x]
  /\ Len(qu) \in Nat
  /\ \A i \in DOMAIN qu : i \in DOMAIN qu' /\ qu'[i] = qu[i] /\ i <= Len(qu)
  /\ \A i \in 1 .. todo[p] : /\ i + Len(qu) \in DOMAIN qu'
                             /\ qu'[i + Len(qu)].by = p /\ qu'[i + Len(qu)].n = sent[p] + i
  /\ \A i \in DOMAIN qu' : i \notin DOMAIN qu =>
       /\ i \in Nat /\ i > Len(qu) /\ i - Len(qu) \in 1 .. todo[p]
       /\ qu'[i].by = p /\ qu'[i].n = sent[p] + (i - Len(qu))

LEMMA SpillEffect ==
  ASSUME FsquInv, F!TypeOK, NEW p \in Producers, F!PushSpill(p) PROVE SpillDoes(p)
<1>1. PICK b : b = Batch(p) OBVIOUS
<1>2. pc[p] = "spill" BY DEF F!PushSpill
<1>3. /\ b \in Seq(Items) /\ Len(b) = todo[p] /\ todo[p] \in Nat /\ sent[p] \in Nat
      /\ \A i \in DOMAIN b : i \in 1 .. todo[p] /\ b[i].by = p /\ b[i].n = sent[p] + i
      /\ \A i \in 1 .. todo[p] : i \in DOMAIN b
  BY <1>1, <1>2, BatchSeq
<1>4. qu' = qu \o b /\ qu \in Seq(Items) BY <1>1, Elements DEF F!PushSpill, Batch
<1>5. /\ Len(qu) \in Nat
      /\ \A i \in DOMAIN qu : i \in Nat /\ i <= Len(qu) /\ i \in DOMAIN qu' /\ qu'[i] = qu[i]
      /\ \A i \in DOMAIN b : i + Len(qu) \in DOMAIN qu' /\ qu'[i + Len(qu)] = b[i]
      /\ \A i \in DOMAIN qu' : i \in Nat
      /\ \A i \in DOMAIN qu' : i \notin DOMAIN qu =>
           i > Len(qu) /\ i - Len(qu) \in DOMAIN b /\ qu'[i] = b[i - Len(qu)]
  BY <1>3, <1>4, TwoSeqs
<1>6. \A i \in 1 .. todo[p] : /\ i + Len(qu) \in DOMAIN qu'
                              /\ qu'[i + Len(qu)].by = p /\ qu'[i + Len(qu)].n = sent[p] + i
  BY <1>3, <1>5
<1>7. \A i \in DOMAIN qu' : i \notin DOMAIN qu =>
        /\ i \in Nat /\ i > Len(qu) /\ i - Len(qu) \in 1 .. todo[p]
        /\ qu'[i].by = p /\ qu'[i].n = sent[p] + (i - Len(qu))
  BY <1>3, <1>5
<1>8. /\ fast' = fast /\ last' = last /\ sent'[p] = sent[p] + todo[p]
      /\ \A x \in Producers : x # p => sent'[x] = sent[x]
  BY DEF F!PushSpill, F!TypeOK
<1> QED BY <1>3, <1>5, <1>6, <1>7, <1>8 DEF SpillDoes

\* No producer's count falls by it.
LEMMA SpillGrows ==
  ASSUME F!TypeOK, NEW p \in Producers, SpillDoes(p)
  PROVE  \A x \in Producers : sent[x] <= sent'[x] /\ sent'[x] \in Nat
<1>1. \A x \in Producers : sent[x] \in Nat BY Elements
<1>2. /\ todo[p] \in Nat /\ sent'[p] = sent[p] + todo[p]
      /\ \A x \in Producers : x # p => sent'[x] = sent[x] BY DEF SpillDoes
<1>3. sent[p] <= sent'[p] /\ sent'[p] \in Nat BY <1>1, <1>2
<1>4. ASSUME NEW x \in Producers, x # p PROVE sent[x] <= sent'[x] /\ sent'[x] \in Nat
  <2>1. sent[x] \in Nat /\ sent'[x] = sent[x] BY <1>1, <1>2, <1>4
  <2> QED BY <2>1
<1> QED BY <1>3, <1>4

\* Taking from the ring takes the first.
TakeDoes ==
  /\ qu' = qu /\ sent' = sent /\ 1 \in DOMAIN fast
  /\ last'[fast[1].by] = fast[1].n
  /\ \A x \in Producers : x # fast[1].by => last'[x] = last[x]
  /\ \A i \in DOMAIN fast' : i \in Nat /\ i >= 1 /\ i + 1 \in DOMAIN fast /\ fast'[i] = fast[i + 1]
  /\ \A i \in DOMAIN fast : i # 1 => i - 1 \in DOMAIN fast' /\ fast'[i - 1] = fast[i]

LEMMA TakeEffect ==
  ASSUME F!TypeOK, NEW c \in Consumers, F!FastTake(c) PROVE TakeDoes
<1>1. fast \in Seq(RingCells) /\ fast # <<>> /\ fast' = Tail(fast) BY Elements DEF F!FastTake
<1>2. /\ 1 \in DOMAIN fast /\ Head(fast) = fast[1]
      /\ \A i \in DOMAIN fast' : i \in Nat /\ i >= 1 /\ i + 1 \in DOMAIN fast
                /\ fast'[i] = fast[i + 1]
      /\ \A i \in DOMAIN fast : i # 1 => i - 1 \in DOMAIN fast' /\ fast'[i - 1] = fast[i]
  BY <1>1, OneLess
<1>3. fast[1].by \in Producers BY <1>2, Elements
<1>4. /\ last'[fast[1].by] = fast[1].n
      /\ \A x \in Producers : x # fast[1].by => last'[x] = last[x]
  BY <1>2, <1>3 DEF F!FastTake, F!TypeOK
<1> QED BY <1>2, <1>4 DEF TakeDoes, F!FastTake, F!spill

\* A drain takes the first m of the spill queue.
DrainDoes(m) ==
  /\ fast' = fast /\ sent' = sent /\ m \in Nat
  /\ \A i \in DOMAIN qu' : i \in Nat /\ i >= 1 /\ m + i \in DOMAIN qu /\ qu'[i] = qu[m + i]
  /\ \A i \in DOMAIN qu : i > m => i - m \in DOMAIN qu' /\ qu'[i - m] = qu[i]
  /\ \A p \in Producers :
       \/ last'[p] = last[p] /\ \A i \in DOMAIN qu : qu[i].by = p => i > m
       \/ \E k \in DOMAIN qu : /\ k <= m /\ qu[k].by = p /\ last'[p] = qu[k].n
                               /\ \A i \in DOMAIN qu : i <= m /\ qu[i].by = p => i <= k

LEMMA DrainEffect ==
  ASSUME F!TypeOK, NEW c \in Consumers, F!Drain(c) PROVE \E m : DrainDoes(m)
<1>0. PICK m \in Nat : /\ m \in 0 .. Len(qu) /\ qu' = SubSeq(qu, m + 1, Len(qu))
                       /\ last' = [p \in Producers |-> F!LastOf(p, SubSeq(qu, 1, m))]
  BY DrainSome
<1>1. qu \in Seq(Items) BY Elements
<1>2. /\ \A i \in DOMAIN qu : i \in Nat /\ i >= 1 /\ i <= Len(qu)
      /\ \A i \in DOMAIN qu' : i \in Nat /\ i >= 1 /\ m + i \in DOMAIN qu /\ qu'[i] = qu[m + i]
      /\ \A i \in DOMAIN qu : i > m => i - m \in DOMAIN qu' /\ qu'[i - m] = qu[i]
  BY <1>0, <1>1, Without
<1>3. ASSUME NEW p \in Producers
      PROVE \/ last'[p] = last[p] /\ \A i \in DOMAIN qu : qu[i].by = p => i > m
            \/ \E k \in DOMAIN qu : /\ k <= m /\ qu[k].by = p /\ last'[p] = qu[k].n
                                    /\ \A i \in DOMAIN qu : i <= m /\ qu[i].by = p => i <= k
  <2>1. last'[p] = F!LastOf(p, SubSeq(qu, 1, m)) BY <1>0
  <2>2. DOMAIN qu = 1 .. Len(qu) /\ Len(qu) \in Nat BY <1>1
  <2>3. \A i \in DOMAIN qu : i \in 1 .. m <=> i <= m BY <1>0, <1>2
  <2>4. 1 .. m \subseteq DOMAIN qu BY <1>0, <2>2
  <2>5. CASE \A i \in 1 .. m : qu[i].by # p
    <3>1. last'[p] = last[p] BY <1>0, <2>1, <2>5, LastTaken
    <3>2. \A i \in DOMAIN qu : qu[i].by = p => ~ (i <= m) BY <2>3, <2>5
    <3> QED BY <1>0, <1>2, <3>1, <3>2
  <2>6. CASE \E i \in 1 .. m : qu[i].by = p
    <3>1. PICK k \in 1 .. m : /\ qu[k].by = p /\ F!LastOf(p, SubSeq(qu, 1, m)) = qu[k].n
                              /\ \A j \in 1 .. m : qu[j].by = p => j <= k
      BY <1>0, <2>6, LastTaken
    <3>2. k \in DOMAIN qu /\ k <= m BY <2>3, <2>4
    <3> QED BY <2>1, <2>3, <3>1, <3>2
  <2> QED BY <2>5, <2>6
<1>4. fast' = fast /\ sent' = sent BY DEF F!Drain
<1> QED BY <1>0, <1>2, <1>3, <1>4 DEF DrainDoes

\* Every other step leaves both as they were.
QueueKinds ==
  \/ UNCHANGED <<fast, qu, sent, last>>
  \/ \E p \in Producers : F!FastClaim(p) /\ ClaimDoes(p)
  \/ PublishDoes
  \/ \E p \in Producers : F!PushSpill(p) /\ SpillDoes(p)
  \/ TakeDoes
  \/ \E c \in Consumers, m \in Nat : F!Drain(c) /\ DrainDoes(m)

\* What any step does to the two queues.
LEMMA QueueKindsStep ==
  ASSUME FsquInv, [F!Next]_(F!vars)
  PROVE  QueueKinds
<1> USE DEF F!spill, F!takers
<1>0. FsquInv /\ F!TypeOK BY DEF FsquInv
<1>1. ASSUME NEW p \in Producers, F!Push(p) PROVE QueueKinds
  <2>1. ASSUME NEW n \in 1 .. MaxBatch, F!PushStart(p, n) PROVE QueueKinds
    BY <1>0, <2>1 DEF F!PushStart, QueueKinds
  <2>2. CASE F!TryStart(p)
    BY <1>0, <2>2 DEF F!TryStart, QueueKinds
  <2>3. CASE F!FastClaim(p)
    BY <1>0, <2>3, ClaimEffect DEF QueueKinds
  <2>4. CASE F!FastPublish(p)
    BY <1>0, <2>4, PublishEffect DEF QueueKinds
  <2>5. CASE F!FastFull(p)
    BY <1>0, <2>5 DEF F!FastFull, QueueKinds
  <2>6. CASE F!TryFails(p)
    BY <1>0, <2>6 DEF F!TryFails, QueueKinds
  <2>7. CASE F!PushLock(p)
    BY <1>0, <2>7 DEF F!PushLock, QueueKinds
  <2>8. CASE F!PushSpill(p)
    BY <1>0, <2>8, SpillEffect DEF QueueKinds
  <2> QED BY <1>1, <2>1, <2>2, <2>3, <2>4, <2>5, <2>6, <2>7, <2>8 DEF F!Push
<1>2. ASSUME NEW c \in Consumers, F!Pop(c) PROVE QueueKinds
  <2>1. ASSUME NEW n \in 1 .. MaxWant, F!PopStart(c, n) PROVE QueueKinds
    BY <1>0, <2>1 DEF F!PopStart, QueueKinds
  <2>2. CASE F!FastTake(c)
    BY <1>0, <2>2, TakeEffect DEF QueueKinds
  <2>3. CASE F!FastStop(c)
    BY <1>0, <2>3 DEF F!FastStop, QueueKinds
  <2>4. CASE F!Decide(c)
    BY <1>0, <2>4 DEF F!Decide, QueueKinds
  <2>5. CASE F!PopLock(c)
    BY <1>0, <2>5 DEF F!PopLock, QueueKinds
  <2>6. CASE F!Drain(c)
    <3>1. PICK m : DrainDoes(m) BY <1>0, <2>6, DrainEffect
    <3> QED BY <2>6, <3>1 DEF QueueKinds, DrainDoes
  <2>7. CASE F!DrainCount(c)
    BY <1>0, <2>7 DEF F!DrainCount, QueueKinds
  <2>8. CASE F!DrainNot(c)
    BY <1>0, <2>8 DEF F!DrainNot, QueueKinds
  <2> QED BY <1>2, <2>1, <2>2, <2>3, <2>4, <2>5, <2>6, <2>7, <2>8 DEF F!Pop
<1>3. ASSUME NEW o \in Observers, F!LookFast(o) \/ F!LookNovf(o) PROVE QueueKinds
  <2>1. CASE F!LookFast(o)
    BY <1>0, <2>1 DEF F!LookFast, QueueKinds
  <2>2. CASE F!LookNovf(o)
    BY <1>0, <2>2 DEF F!LookNovf, QueueKinds
  <2> QED BY <1>3, <2>1, <2>2
<1>4. CASE UNCHANGED F!vars BY <1>0, <1>4 DEF F!vars, QueueKinds
<1> QED BY <1>1, <1>2, <1>3, <1>4 DEF F!Next


-----------------------------------------------------------------------------
(* The steps: the two queues *)

\* What is in the ring was sent and not taken.
LEMMA RingWithinStep ==
  ASSUME FsquInv, [F!Next]_(F!vars) PROVE Within(fast)'
<1>0. FsquInv /\ F!TypeOK /\ F!TypeOK' /\ QueueKinds BY FsquTypesStep, QueueKindsStep DEF FsquInv
<1>e. /\ \A i \in DOMAIN fast : i \in Nat /\ i >= 1 /\ fast[i].by \in Producers /\ fast[i].n \in Nat
      /\ \A i \in DOMAIN qu : i \in Nat /\ i >= 1 /\ qu[i].by \in Producers /\ qu[i].n \in Nat
      /\ \A p \in Producers : last[p] \in Nat /\ sent[p] \in Nat
     /\ Within(fast) /\ Rising(fast) /\ Whole /\ Bare BY <1>0, Elements DEF FsquInv
<1>1. CASE UNCHANGED <<fast, qu, sent, last>>
  BY <1>e, <1>1 DEF Within
<1>2. ASSUME NEW p \in Producers, F!FastClaim(p), ClaimDoes(p) PROVE Within(fast)'
  <2>1. ASSUME NEW i \in DOMAIN fast'
        PROVE last'[fast'[i].by] < fast'[i].n /\ fast'[i].n <= sent'[fast'[i].by]
    <3>1. CASE i \in DOMAIN fast
      <4>1. fast'[i] = fast[i] BY <1>2, <3>1 DEF ClaimDoes
      <4>2. sent[fast[i].by] <= sent'[fast[i].by] BY <1>e, <1>2, <3>1 DEF ClaimDoes
      <4>3. sent'[fast[i].by] \in Nat BY <1>e, <1>2, <3>1 DEF ClaimDoes
      <4>4. last'[fast[i].by] < fast[i].n /\ fast[i].n <= sent[fast[i].by]
        BY <1>e, <1>2, <3>1 DEF Within, ClaimDoes
      <4> QED BY <1>e, <3>1, <4>1, <4>2, <4>3, <4>4
    <3>2. CASE i = Len(fast) + 1
      <4>1. fast'[i].by = p /\ fast'[i].n = sent[p] + 1 BY <1>2, <3>2 DEF ClaimDoes
      <4>2. last'[p] <= sent[p] /\ sent'[p] = sent[p] + 1 BY <1>e, <1>2 DEF Whole, ClaimDoes
      <4>3. last'[p] \in Nat /\ sent[p] \in Nat BY <1>e, <1>2 DEF ClaimDoes
      <4> QED BY <4>1, <4>2, <4>3
    <3> QED BY <1>2, <3>1, <3>2 DEF ClaimDoes
  <2> QED BY <2>1 DEF Within
<1>3. CASE PublishDoes
  BY <1>e, <1>3 DEF Within, PublishDoes
<1>4. ASSUME NEW p \in Producers, F!PushSpill(p), SpillDoes(p) PROVE Within(fast)'
  <2>1. ASSUME NEW i \in DOMAIN fast
    PROVE last'[fast[i].by] < fast[i].n /\ fast[i].n <= sent'[fast[i].by]
    <3>1. last[fast[i].by] < fast[i].n /\ fast[i].n <= sent[fast[i].by] /\ last' = last
      BY <1>e, <1>4 DEF Within, SpillDoes
    <3>2. sent[fast[i].by] <= sent'[fast[i].by] /\ sent'[fast[i].by] \in Nat
      BY <1>0, <1>e, <1>4, SpillGrows
    <3> QED BY <1>e, <3>1, <3>2
  <2> QED BY <1>4, <2>1 DEF Within, SpillDoes
<1>5. CASE TakeDoes
  <2>1. ASSUME NEW i \in DOMAIN fast'
        PROVE last'[fast'[i].by] < fast'[i].n /\ fast'[i].n <= sent'[fast'[i].by]
    <3>1. i + 1 \in DOMAIN fast /\ fast'[i] = fast[i + 1] /\ i \in Nat /\ i >= 1
      BY <1>5 DEF TakeDoes
    <3>2. fast[i + 1].n <= sent[fast[i + 1].by] /\ last[fast[i + 1].by] < fast[i + 1].n
      BY <1>e, <3>1 DEF Within
    <3>3. CASE fast[i + 1].by = fast[1].by
      <4>1. 1 < i + 1 /\ 1 \in DOMAIN fast BY <1>5, <3>1 DEF TakeDoes
      <4>2. fast[1].n < fast[i + 1].n BY <1>e, <3>1, <3>3, <4>1 DEF Rising
      <4> QED BY <1>5, <3>1, <3>2, <3>3, <4>2 DEF TakeDoes
    <3>4. CASE fast[i + 1].by # fast[1].by
      <4>1. last'[fast[i + 1].by] = last[fast[i + 1].by] BY <1>e, <1>5, <3>1, <3>4 DEF TakeDoes
      <4> QED BY <1>5, <3>1, <3>2, <4>1 DEF TakeDoes
    <3> QED BY <3>3, <3>4
  <2> QED BY <2>1 DEF Within
<1>6. ASSUME NEW c \in Consumers, NEW m \in Nat, F!Drain(c), DrainDoes(m) PROVE Within(fast)'
  <2>1. pc[c] = "drain" /\ want[c] # 0 /\ fastrtn[c] # "inflight"
    <3>1. want[c] \in Nat /\ want[c] > 0 BY <1>0, <1>6, FsquSetting DEF F!Drain, F!TypeOK
    <3> QED BY <1>6, <3>1 DEF F!Drain
  <2>2. ASSUME NEW i \in DOMAIN fast PROVE last'[fast[i].by] = last[fast[i].by]
    <3>1. ~ Spilled(fast[i].by) BY <1>e, <2>1 DEF Bare
    <3>2. fast[i].by \in Producers BY <1>e
    <3> QED BY <1>6, <3>1, <3>2 DEF DrainDoes, Spilled
  <2>3. fast' = fast /\ sent' = sent BY <1>6 DEF DrainDoes
  <2> QED BY <1>e, <2>2, <2>3 DEF Within
<1> QED BY <1>0, <1>1, <1>2, <1>3, <1>4, <1>5, <1>6 DEF QueueKinds

\* What is in the spill queue was sent and not taken.
LEMMA SpillWithinStep ==
  ASSUME FsquInv, [F!Next]_(F!vars) PROVE Within(qu)'
<1>0. FsquInv /\ F!TypeOK /\ F!TypeOK' /\ QueueKinds BY FsquTypesStep, QueueKindsStep DEF FsquInv
<1>e. /\ \A i \in DOMAIN fast : i \in Nat /\ i >= 1 /\ fast[i].by \in Producers /\ fast[i].n \in Nat
      /\ \A i \in DOMAIN qu : i \in Nat /\ i >= 1 /\ qu[i].by \in Producers /\ qu[i].n \in Nat
      /\ \A p \in Producers : last[p] \in Nat /\ sent[p] \in Nat
     /\ Within(qu) /\ Rising(qu) /\ Whole /\ RingFirst BY <1>0, Elements DEF FsquInv
<1>1. CASE UNCHANGED <<fast, qu, sent, last>>
  BY <1>e, <1>1 DEF Within
<1>2. ASSUME NEW p \in Producers, F!FastClaim(p), ClaimDoes(p) PROVE Within(qu)'
  <2>1. ASSUME NEW i \in DOMAIN qu PROVE last'[qu[i].by] < qu[i].n /\ qu[i].n <= sent'[qu[i].by]
    <3>1. last[qu[i].by] < qu[i].n /\ qu[i].n <= sent[qu[i].by] /\ last' = last
      BY <1>e, <1>2 DEF Within, ClaimDoes
    <3>2. sent[qu[i].by] <= sent'[qu[i].by] /\ sent'[qu[i].by] \in Nat BY <1>e, <1>2 DEF ClaimDoes
    <3> QED BY <1>e, <3>1, <3>2
  <2> QED BY <1>2, <2>1 DEF Within, ClaimDoes
<1>3. CASE PublishDoes
  BY <1>e, <1>3 DEF Within, PublishDoes
<1>4. ASSUME NEW p \in Producers, F!PushSpill(p), SpillDoes(p) PROVE Within(qu)'
  <2>1. ASSUME NEW i \in DOMAIN qu'
        PROVE last'[qu'[i].by] < qu'[i].n /\ qu'[i].n <= sent'[qu'[i].by]
    <3>1. CASE i \in DOMAIN qu
      <4>1. qu'[i] = qu[i] BY <1>4, <3>1 DEF SpillDoes
      <4>5. \A x \in Producers : sent[x] <= sent'[x] /\ sent'[x] \in Nat BY <1>0, <1>4, SpillGrows
      <4>6. qu[i].by \in Producers BY <1>e, <3>1
      <4>2. sent[qu[i].by] <= sent'[qu[i].by] BY <4>5, <4>6
      <4>3. sent'[qu[i].by] \in Nat BY <4>5, <4>6
      <4>4. last'[qu[i].by] < qu[i].n /\ qu[i].n <= sent[qu[i].by]
        BY <1>e, <1>4, <3>1 DEF Within, SpillDoes
      <4> QED BY <1>e, <3>1, <4>1, <4>2, <4>3, <4>4
    <3>2. CASE i \notin DOMAIN qu
      <4>1. PICK k : k = i - Len(qu) OBVIOUS
      <4>2. k \in 1 .. todo[p] /\ qu'[i].by = p /\ qu'[i].n = sent[p] + k
        BY <1>4, <3>2, <4>1 DEF SpillDoes
      <4>3. last'[p] <= sent[p] /\ sent'[p] = sent[p] + todo[p] BY <1>e, <1>4 DEF Whole, SpillDoes
      <4>4. last'[p] \in Nat /\ sent[p] \in Nat /\ todo[p] \in Nat BY <1>e, <1>4 DEF SpillDoes
      <4> QED BY <4>2, <4>3, <4>4
    <3> QED BY <3>1, <3>2
  <2> QED BY <2>1 DEF Within
<1>5. CASE TakeDoes
  <2>1. ASSUME NEW i \in DOMAIN qu PROVE last'[qu[i].by] < qu[i].n
    <3>1. CASE qu[i].by = fast[1].by
      <4>1. fast[1].n < qu[i].n BY <1>e, <1>5, <3>1 DEF TakeDoes, RingFirst
      <4> QED BY <1>5, <3>1, <4>1 DEF TakeDoes
    <3>2. CASE qu[i].by # fast[1].by BY <1>e, <1>5, <3>2 DEF TakeDoes, Within
    <3> QED BY <3>1, <3>2
  <2> QED BY <1>e, <1>5, <2>1 DEF Within, TakeDoes
<1>6. ASSUME NEW c \in Consumers, NEW m \in Nat, F!Drain(c), DrainDoes(m) PROVE Within(qu)'
  <2>1. ASSUME NEW i \in DOMAIN qu'
        PROVE last'[qu'[i].by] < qu'[i].n /\ qu'[i].n <= sent'[qu'[i].by]
    <3>1. m + i \in DOMAIN qu /\ qu'[i] = qu[m + i] /\ i \in Nat /\ i >= 1 BY <1>6 DEF DrainDoes
    <3>2. last[qu[m + i].by] < qu[m + i].n /\ qu[m + i].n <= sent[qu[m + i].by]
      BY <1>e, <3>1 DEF Within
    <3>3. qu[m + i].by \in Producers BY <1>e, <3>1
    <3>4. CASE last'[qu[m + i].by] = last[qu[m + i].by] BY <1>6, <3>1, <3>2, <3>4 DEF DrainDoes
    <3>5. CASE \E k \in DOMAIN qu : /\ k <= m /\ qu[k].by = qu[m + i].by
                                    /\ last'[qu[m + i].by] = qu[k].n
      <4>1. PICK k \in DOMAIN qu : /\ k <= m /\ qu[k].by = qu[m + i].by
                                   /\ last'[qu[m + i].by] = qu[k].n BY <3>5
      <4>2. k < m + i BY <1>e, <3>1, <4>1
      <4>3. qu[k].n < qu[m + i].n BY <1>e, <3>1, <4>1, <4>2 DEF Rising
      <4> QED BY <1>6, <3>1, <3>2, <4>1, <4>3 DEF DrainDoes
    <3> QED BY <1>6, <3>3, <3>4, <3>5 DEF DrainDoes
  <2> QED BY <2>1 DEF Within
<1> QED BY <1>0, <1>1, <1>2, <1>3, <1>4, <1>5, <1>6 DEF QueueKinds

\* The ring rises producer by producer.
LEMMA RingRisingStep ==
  ASSUME FsquInv, [F!Next]_(F!vars) PROVE Rising(fast)'
<1>0. FsquInv /\ F!TypeOK /\ F!TypeOK' /\ QueueKinds BY FsquTypesStep, QueueKindsStep DEF FsquInv
<1>e. /\ \A i \in DOMAIN fast : i \in Nat /\ i >= 1 /\ fast[i].by \in Producers /\ fast[i].n \in Nat
      /\ \A i \in DOMAIN qu : i \in Nat /\ i >= 1 /\ qu[i].by \in Producers /\ qu[i].n \in Nat
      /\ \A p \in Producers : last[p] \in Nat /\ sent[p] \in Nat
     /\ Within(fast) /\ Rising(fast) BY <1>0, Elements DEF FsquInv
<1>1. CASE UNCHANGED <<fast, qu, sent, last>>
  BY <1>e, <1>1 DEF Rising
<1>2. ASSUME NEW p \in Producers, F!FastClaim(p), ClaimDoes(p) PROVE Rising(fast)'
  <2>1. ASSUME NEW i \in DOMAIN fast', NEW j \in DOMAIN fast', i < j, fast'[i].by = fast'[j].by
        PROVE fast'[i].n < fast'[j].n
    <3>0. Len(fast) \in Nat /\ \A k \in DOMAIN fast : k <= Len(fast) BY <1>2 DEF ClaimDoes
    <3>1. CASE i \in DOMAIN fast /\ j \in DOMAIN fast
      BY <1>e, <1>2, <2>1, <3>1 DEF Rising, ClaimDoes
    <3>2. CASE i \in DOMAIN fast /\ j = Len(fast) + 1
      <4>1. fast'[j].by = p /\ fast'[j].n = sent[p] + 1 /\ fast'[i] = fast[i]
        BY <1>2, <3>2 DEF ClaimDoes
      <4>2. fast[i].n <= sent[p] BY <1>e, <2>1, <3>2, <4>1 DEF Within
      <4> QED BY <1>e, <3>2, <4>1, <4>2
    <3>3. CASE i = Len(fast) + 1
      <4>1. j <= Len(fast) + 1 BY <1>2, <3>0 DEF ClaimDoes
      <4>2. j \in Nat BY <1>e, <1>2, <3>0 DEF ClaimDoes
      <4> QED BY <2>1, <3>0, <3>3, <4>1, <4>2
    <3> QED BY <1>2, <3>1, <3>2, <3>3 DEF ClaimDoes
  <2> QED BY <2>1 DEF Rising
<1>3. CASE PublishDoes
  BY <1>e, <1>3 DEF Rising, PublishDoes
<1>4. ASSUME NEW p \in Producers, F!PushSpill(p), SpillDoes(p) PROVE Rising(fast)'
  BY <1>e, <1>4 DEF Rising, SpillDoes
<1>5. CASE TakeDoes
  <2>1. ASSUME NEW i \in DOMAIN fast', NEW j \in DOMAIN fast', i < j, fast'[i].by = fast'[j].by
        PROVE fast'[i].n < fast'[j].n
    <3>1. /\ i + 1 \in DOMAIN fast /\ fast'[i] = fast[i + 1] /\ i \in Nat
          /\ j + 1 \in DOMAIN fast /\ fast'[j] = fast[j + 1] /\ j \in Nat
      BY <1>5 DEF TakeDoes
    <3>2. i + 1 < j + 1 BY <2>1, <3>1
    <3> QED BY <1>e, <2>1, <3>1, <3>2 DEF Rising
  <2> QED BY <2>1 DEF Rising
<1>6. ASSUME NEW c \in Consumers, NEW m \in Nat, F!Drain(c), DrainDoes(m) PROVE Rising(fast)'
  BY <1>e, <1>6 DEF Rising, DrainDoes
<1> QED BY <1>0, <1>1, <1>2, <1>3, <1>4, <1>5, <1>6 DEF QueueKinds

\* The spill queue rises producer by producer.
LEMMA SpillRisingStep ==
  ASSUME FsquInv, [F!Next]_(F!vars) PROVE Rising(qu)'
<1>0. FsquInv /\ F!TypeOK /\ F!TypeOK' /\ QueueKinds BY FsquTypesStep, QueueKindsStep DEF FsquInv
<1>e. /\ \A i \in DOMAIN fast : i \in Nat /\ i >= 1 /\ fast[i].by \in Producers /\ fast[i].n \in Nat
      /\ \A i \in DOMAIN qu : i \in Nat /\ i >= 1 /\ qu[i].by \in Producers /\ qu[i].n \in Nat
      /\ \A p \in Producers : last[p] \in Nat /\ sent[p] \in Nat
     /\ Within(qu) /\ Rising(qu) BY <1>0, Elements DEF FsquInv
<1>1. CASE UNCHANGED <<fast, qu, sent, last>>
  BY <1>e, <1>1 DEF Rising
<1>2. ASSUME NEW p \in Producers, F!FastClaim(p), ClaimDoes(p) PROVE Rising(qu)'
  BY <1>e, <1>2 DEF Rising, ClaimDoes
<1>3. CASE PublishDoes
  BY <1>e, <1>3 DEF Rising, PublishDoes
<1>4. ASSUME NEW p \in Producers, F!PushSpill(p), SpillDoes(p) PROVE Rising(qu)'
  <2>1. ASSUME NEW i \in DOMAIN qu', NEW j \in DOMAIN qu', i < j, qu'[i].by = qu'[j].by
        PROVE qu'[i].n < qu'[j].n
    <3>0. Len(qu) \in Nat /\ \A k \in DOMAIN qu : k <= Len(qu) BY <1>4 DEF SpillDoes
    <3>1. CASE i \in DOMAIN qu /\ j \in DOMAIN qu BY <1>e, <1>4, <2>1, <3>1 DEF Rising, SpillDoes
    <3>2. CASE i \in DOMAIN qu /\ j \notin DOMAIN qu
      <4>1. PICK k : k = j - Len(qu) OBVIOUS
      <4>2. /\ k \in 1 .. todo[p] /\ qu'[j].by = p /\ qu'[j].n = sent[p] + k /\ qu'[i] = qu[i]
            /\ todo[p] \in Nat
        BY <1>4, <3>2, <4>1 DEF SpillDoes
      <4>3. qu[i].n <= sent[p] BY <1>e, <2>1, <3>2, <4>2 DEF Within
      <4>4. sent[p] \in Nat /\ qu[i].n \in Nat BY <1>e, <3>2, <1>4
      <4> QED BY <4>2, <4>3, <4>4
    <3>3. CASE i \notin DOMAIN qu /\ j \notin DOMAIN qu
      <4>1. PICK k, l : k = i - Len(qu) /\ l = j - Len(qu) OBVIOUS
      <4>2. /\ k \in 1 .. todo[p] /\ qu'[i].n = sent[p] + k /\ i \in Nat
            /\ l \in 1 .. todo[p] /\ qu'[j].n = sent[p] + l /\ j \in Nat
            /\ todo[p] \in Nat
        BY <1>4, <3>3, <4>1 DEF SpillDoes
      <4>3. k < l BY <2>1, <3>0, <4>1, <4>2
      <4>4. sent[p] \in Nat BY <1>e, <1>4
      <4> QED BY <4>2, <4>3, <4>4
    <3>4. CASE i \notin DOMAIN qu /\ j \in DOMAIN qu
      <4>1. i \in Nat /\ i > Len(qu) /\ j <= Len(qu) BY <1>4, <3>0, <3>4 DEF SpillDoes
      <4>2. j \in Nat BY <1>e, <3>4
      <4> QED BY <2>1, <3>0, <4>1, <4>2
    <3> QED BY <3>1, <3>2, <3>3, <3>4
  <2> QED BY <2>1 DEF Rising
<1>5. CASE TakeDoes
  BY <1>e, <1>5 DEF Rising, TakeDoes
<1>6. ASSUME NEW c \in Consumers, NEW m \in Nat, F!Drain(c), DrainDoes(m) PROVE Rising(qu)'
  <2>1. ASSUME NEW i \in DOMAIN qu', NEW j \in DOMAIN qu', i < j, qu'[i].by = qu'[j].by
        PROVE qu'[i].n < qu'[j].n
    <3>1. /\ m + i \in DOMAIN qu /\ qu'[i] = qu[m + i] /\ i \in Nat
          /\ m + j \in DOMAIN qu /\ qu'[j] = qu[m + j] /\ j \in Nat
      BY <1>6 DEF DrainDoes
    <3>2. m + i < m + j BY <2>1, <3>1
    <3> QED BY <1>e, <2>1, <3>1, <3>2 DEF Rising
  <2> QED BY <2>1 DEF Rising
<1> QED BY <1>0, <1>1, <1>2, <1>3, <1>4, <1>5, <1>6 DEF QueueKinds

\* What a producer has in the ring comes before what it has in the spill queue.
LEMMA RingFirstStep ==
  ASSUME FsquInv, [F!Next]_(F!vars) PROVE RingFirst'
<1>0. FsquInv /\ F!TypeOK /\ F!TypeOK' /\ QueueKinds BY FsquTypesStep, QueueKindsStep DEF FsquInv
<1>e. /\ \A i \in DOMAIN fast : i \in Nat /\ i >= 1 /\ fast[i].by \in Producers /\ fast[i].n \in Nat
      /\ \A i \in DOMAIN qu : i \in Nat /\ i >= 1 /\ qu[i].by \in Producers /\ qu[i].n \in Nat
      /\ \A p \in Producers : last[p] \in Nat /\ sent[p] \in Nat
     /\ Within(fast) /\ RingFirst /\ Straight BY <1>0, Elements DEF FsquInv
<1>1. CASE UNCHANGED <<fast, qu, sent, last>>
  BY <1>e, <1>1 DEF RingFirst
<1>2. ASSUME NEW p \in Producers, F!FastClaim(p), ClaimDoes(p) PROVE RingFirst'
  <2>1. ASSUME NEW i \in DOMAIN fast', NEW j \in DOMAIN qu, fast'[i].by = qu[j].by
        PROVE fast'[i].n < qu[j].n
    <3>1. CASE i \in DOMAIN fast BY <1>e, <1>2, <2>1, <3>1 DEF RingFirst, ClaimDoes
    <3>2. CASE i = Len(fast) + 1
      <4>1. fast'[i].by = p BY <1>2, <3>2 DEF ClaimDoes
      <4>2. ~ Spilled(p) BY <1>e, <1>2 DEF Straight, F!FastClaim
      <4> QED BY <2>1, <4>1, <4>2 DEF Spilled
    <3> QED BY <1>2, <3>1, <3>2 DEF ClaimDoes
  <2> QED BY <1>2, <2>1 DEF RingFirst, ClaimDoes
<1>3. CASE PublishDoes
  BY <1>e, <1>3 DEF RingFirst, PublishDoes
<1>4. ASSUME NEW p \in Producers, F!PushSpill(p), SpillDoes(p) PROVE RingFirst'
  <2>1. ASSUME NEW i \in DOMAIN fast, NEW j \in DOMAIN qu', fast[i].by = qu'[j].by
        PROVE fast[i].n < qu'[j].n
    <3>1. CASE j \in DOMAIN qu BY <1>e, <1>4, <2>1, <3>1 DEF RingFirst, SpillDoes
    <3>2. CASE j \notin DOMAIN qu
      <4>1. PICK k : k = j - Len(qu) OBVIOUS
      <4>2. /\ k \in 1 .. todo[p] /\ qu'[j].by = p /\ qu'[j].n = sent[p] + k /\ todo[p] \in Nat
        BY <1>4, <3>2, <4>1 DEF SpillDoes
      <4>3. fast[i].n <= sent[p] /\ sent[p] \in Nat /\ fast[i].n \in Nat
        BY <1>e, <1>4, <2>1, <4>2 DEF Within
      <4> QED BY <4>2, <4>3
    <3> QED BY <3>1, <3>2
  <2> QED BY <1>4, <2>1 DEF RingFirst, SpillDoes
<1>5. CASE TakeDoes
  <2>1. ASSUME NEW i \in DOMAIN fast', NEW j \in DOMAIN qu, fast'[i].by = qu[j].by
        PROVE fast'[i].n < qu[j].n
    <3>1. i + 1 \in DOMAIN fast /\ fast'[i] = fast[i + 1] BY <1>5 DEF TakeDoes
    <3> QED BY <1>e, <2>1, <3>1 DEF RingFirst
  <2> QED BY <1>5, <2>1 DEF RingFirst, TakeDoes
<1>6. ASSUME NEW c \in Consumers, NEW m \in Nat, F!Drain(c), DrainDoes(m) PROVE RingFirst'
  <2>1. ASSUME NEW i \in DOMAIN fast, NEW j \in DOMAIN qu', fast[i].by = qu'[j].by
        PROVE fast[i].n < qu'[j].n
    <3>1. m + j \in DOMAIN qu /\ qu'[j] = qu[m + j] BY <1>6 DEF DrainDoes
    <3> QED BY <1>e, <2>1, <3>1 DEF RingFirst
  <2> QED BY <1>6, <2>1 DEF RingFirst, DrainDoes
<1> QED BY <1>0, <1>1, <1>2, <1>3, <1>4, <1>5, <1>6 DEF QueueKinds

\* All that is sent and not taken is in one of the two.
LEMMA WholeStep ==
  ASSUME FsquInv, [F!Next]_(F!vars) PROVE Whole'
<1>0. FsquInv /\ F!TypeOK /\ F!TypeOK' /\ QueueKinds BY FsquTypesStep, QueueKindsStep DEF FsquInv
<1>e. /\ \A i \in DOMAIN fast : i \in Nat /\ i >= 1 /\ fast[i].by \in Producers /\ fast[i].n \in Nat
      /\ \A i \in DOMAIN qu : i \in Nat /\ i >= 1 /\ qu[i].by \in Producers /\ qu[i].n \in Nat
      /\ \A p \in Producers : last[p] \in Nat /\ sent[p] \in Nat
     /\ Whole /\ Within(fast) /\ Within(qu) /\ Rising(qu) BY <1>0, Elements DEF FsquInv
<1>1. CASE UNCHANGED <<fast, qu, sent, last>>
  BY <1>e, <1>1 DEF Whole, Queued
<1>2. ASSUME NEW p \in Producers, F!FastClaim(p), ClaimDoes(p) PROVE Whole'
  <2>1. ASSUME NEW x \in Producers PROVE last'[x] <= sent'[x]
    BY <1>e, <1>2 DEF Whole, ClaimDoes
  <2>2. ASSUME NEW x \in Producers, NEW n \in last'[x] + 1 .. sent'[x] PROVE Queued(x, n)'
    <3>0. last'[x] = last[x] /\ last[x] \in Nat /\ sent[x] \in Nat /\ sent'[x] \in Nat /\ n \in Nat
      BY <1>e, <1>2, <2>2 DEF ClaimDoes
    <3>1. CASE n <= sent[x]
      <4>1. n \in last[x] + 1 .. sent[x] BY <2>2, <3>0, <3>1
      <4>2. Queued(x, n) BY <1>e, <4>1 DEF Whole
      <4>3. CASE \E i \in DOMAIN fast : fast[i].by = x /\ fast[i].n = n
        BY <1>2, <4>3 DEF ClaimDoes, Queued
      <4>4. CASE \E i \in DOMAIN qu : qu[i].by = x /\ qu[i].n = n
        BY <1>2, <4>4 DEF ClaimDoes, Queued
      <4> QED BY <4>2, <4>3, <4>4 DEF Queued
    <3>2. CASE ~ (n <= sent[x])
      <4>1. n > sent[x] /\ n <= sent'[x] BY <2>2, <3>0, <3>2
      <4>2. x = p BY <3>0, <4>1, <1>2 DEF ClaimDoes
      <4>3. n = sent[p] + 1 BY <3>0, <4>1, <4>2, <1>2 DEF ClaimDoes
      <4> QED BY <4>2, <4>3, <1>2 DEF ClaimDoes, Queued
    <3> QED BY <3>1, <3>2
  <2> QED BY <2>1, <2>2 DEF Whole
<1>3. CASE PublishDoes
  <2>1. ASSUME NEW x, NEW n, Queued(x, n) PROVE Queued(x, n)'
    <3>1. CASE \E i \in DOMAIN fast : fast[i].by = x /\ fast[i].n = n
      BY <1>3, <3>1 DEF PublishDoes, Queued
    <3>2. CASE \E i \in DOMAIN qu : qu[i].by = x /\ qu[i].n = n
      BY <1>3, <3>2 DEF PublishDoes, Queued
    <3> QED BY <2>1, <3>1, <3>2 DEF Queued
  <2>2. last' = last /\ sent' = sent BY <1>3 DEF PublishDoes
  <2> QED BY <1>e, <2>1, <2>2 DEF Whole
<1>4. ASSUME NEW p \in Producers, F!PushSpill(p), SpillDoes(p) PROVE Whole'
  <2>1. ASSUME NEW x \in Producers PROVE last'[x] <= sent'[x]
    <3>1. sent[x] <= sent'[x] /\ sent'[x] \in Nat BY <1>0, <1>4, SpillGrows
    <3>2. last'[x] = last[x] /\ last[x] <= sent[x] BY <1>e, <1>4 DEF Whole, SpillDoes
    <3>3. last[x] \in Nat /\ sent[x] \in Nat BY <1>e
    <3> QED BY <3>1, <3>2, <3>3
  <2>2. ASSUME NEW x \in Producers, NEW n \in last'[x] + 1 .. sent'[x] PROVE Queued(x, n)'
    <3>0. last'[x] = last[x] /\ last[x] \in Nat /\ sent[x] \in Nat /\ sent'[x] \in Nat /\ n \in Nat
      <4>1. sent'[x] \in Nat BY <1>0, <1>4, SpillGrows
      <4>2. last'[x] = last[x] /\ last[x] \in Nat /\ sent[x] \in Nat BY <1>e, <1>4 DEF SpillDoes
      <4> QED BY <2>2, <4>1, <4>2
    <3>1. CASE n <= sent[x]
      <4>1. n \in last[x] + 1 .. sent[x] BY <2>2, <3>0, <3>1
      <4>2. Queued(x, n) BY <1>e, <4>1 DEF Whole
      <4>3. CASE \E i \in DOMAIN fast : fast[i].by = x /\ fast[i].n = n
        BY <1>4, <4>3 DEF SpillDoes, Queued
      <4>4. CASE \E i \in DOMAIN qu : qu[i].by = x /\ qu[i].n = n
        BY <1>4, <4>4 DEF SpillDoes, Queued
      <4> QED BY <4>2, <4>3, <4>4 DEF Queued
    <3>2. CASE ~ (n <= sent[x])
      <4>1. n > sent[x] /\ n <= sent'[x] BY <2>2, <3>0, <3>2
      <4>2. x = p BY <3>0, <4>1, <1>4 DEF SpillDoes
      <4>3. PICK k : k = n - sent[p] OBVIOUS
      <4>4. todo[p] \in Nat /\ sent'[p] = sent[p] + todo[p] BY <1>4 DEF SpillDoes
      <4>5. k \in 1 .. todo[p] /\ n = sent[p] + k BY <3>0, <4>1, <4>2, <4>3, <4>4
      <4>6. k + Len(qu) \in DOMAIN qu' /\ qu'[k + Len(qu)].by = p /\ qu'[k + Len(qu)].n = n
        BY <1>4, <4>5 DEF SpillDoes
      <4> QED BY <4>2, <4>6 DEF Queued
    <3> QED BY <3>1, <3>2
  <2> QED BY <2>1, <2>2 DEF Whole
<1>5. CASE TakeDoes
  <2>1. ASSUME NEW x \in Producers PROVE last'[x] <= sent'[x]
    <3>1. CASE x = fast[1].by
      <4>1. fast[1].n <= sent[x] BY <1>e, <1>5, <3>1 DEF Within, TakeDoes
      <4> QED BY <1>5, <3>1, <4>1 DEF TakeDoes
    <3>2. CASE x # fast[1].by BY <1>e, <1>5, <3>2 DEF Whole, TakeDoes
    <3> QED BY <3>1, <3>2
  <2>2. ASSUME NEW x \in Producers, NEW n \in last'[x] + 1 .. sent'[x] PROVE Queued(x, n)'
    <3>0. sent'[x] = sent[x] /\ 1 \in DOMAIN fast /\ last[x] \in Nat /\ sent[x] \in Nat
      BY <1>e, <1>5 DEF TakeDoes
    <3>1. last[x] <= last'[x] /\ last'[x] \in Nat /\ (x = fast[1].by => last'[x] = fast[1].n)
      <4>1. CASE x = fast[1].by
        <5>1. last'[x] = fast[1].n /\ last[x] < fast[1].n /\ fast[1].n \in Nat
          BY <1>e, <1>5, <4>1 DEF Within, TakeDoes
        <5> QED BY <3>0, <5>1
      <4>2. CASE x # fast[1].by
        <5>1. last'[x] = last[x] BY <1>5, <4>2 DEF TakeDoes
        <5> QED BY <3>0, <4>2, <5>1
      <4> QED BY <4>1, <4>2
    <3>2. n \in last[x] + 1 .. sent[x] /\ n > last'[x] BY <2>2, <3>0, <3>1
    <3>3. Queued(x, n) BY <1>e, <3>2 DEF Whole
    <3>4. ASSUME NEW i \in DOMAIN fast, fast[i].by = x, fast[i].n = n PROVE Queued(x, n)'
      <4>1. i # 1
        <5>1. SUFFICES ASSUME i = 1 PROVE FALSE OBVIOUS
        <5>2. last'[x] = n BY <3>1, <3>4, <5>1
        <5>3. n \in Nat BY <1>e, <3>4
        <5> QED BY <3>2, <5>2, <5>3
      <4>2. i - 1 \in DOMAIN fast' /\ fast'[i - 1] = fast[i] BY <1>5, <4>1 DEF TakeDoes
      <4> QED BY <3>4, <4>2 DEF Queued
    <3>5. CASE \E i \in DOMAIN qu : qu[i].by = x /\ qu[i].n = n BY <1>5, <3>5 DEF TakeDoes, Queued
    <3> QED BY <3>3, <3>4, <3>5 DEF Queued
  <2> QED BY <2>1, <2>2 DEF Whole
<1>6. ASSUME NEW c \in Consumers, NEW m \in Nat, F!Drain(c), DrainDoes(m) PROVE Whole'
  <2>1. ASSUME NEW x \in Producers PROVE last'[x] <= sent'[x]
    <3>1. CASE last'[x] = last[x] BY <1>e, <1>6, <3>1 DEF Whole, DrainDoes
    <3>2. ASSUME NEW k \in DOMAIN qu, qu[k].by = x, last'[x] = qu[k].n PROVE last'[x] <= sent'[x]
      BY <1>e, <1>6, <3>2 DEF Within, DrainDoes
    <3> QED BY <1>6, <3>1, <3>2 DEF DrainDoes
  <2>2. ASSUME NEW x \in Producers, NEW n \in last'[x] + 1 .. sent'[x] PROVE Queued(x, n)'
    <3>0. sent'[x] = sent[x] /\ last[x] \in Nat /\ sent[x] \in Nat BY <1>e, <1>6 DEF DrainDoes
    <3>1. last[x] <= last'[x] /\ last'[x] \in Nat
      <4>1. CASE last'[x] = last[x] BY <3>0, <4>1
      <4>2. ASSUME NEW k \in DOMAIN qu, qu[k].by = x, last'[x] = qu[k].n
        PROVE last[x] <= last'[x] /\ last'[x] \in Nat
        <5>1. last[x] < qu[k].n /\ qu[k].n \in Nat BY <1>e, <4>2 DEF Within
        <5> QED BY <3>0, <4>2, <5>1
      <4> QED BY <1>6, <4>1, <4>2 DEF DrainDoes
    <3>2. n \in last[x] + 1 .. sent[x] /\ n > last'[x] /\ n \in Nat BY <2>2, <3>0, <3>1
    <3>3. Queued(x, n) BY <1>e, <3>2 DEF Whole
    <3>4. CASE \E i \in DOMAIN fast : fast[i].by = x /\ fast[i].n = n
      BY <1>6, <3>4 DEF DrainDoes, Queued
    <3>5. ASSUME NEW i \in DOMAIN qu, qu[i].by = x, qu[i].n = n PROVE Queued(x, n)'
      <4>1. i > m
        <5>1. SUFFICES ASSUME i <= m PROVE FALSE BY <1>e
        <5>2. PICK k \in DOMAIN qu : /\ k <= m /\ qu[k].by = x /\ last'[x] = qu[k].n
                                     /\ \A j \in DOMAIN qu : j <= m /\ qu[j].by = x => j <= k
          <6>1. ~ (i > m) BY <1>e, <5>1
          <6> QED BY <1>6, <3>5, <6>1 DEF DrainDoes
        <5>3. i <= k /\ i \in Nat /\ k \in Nat BY <1>e, <3>5, <5>1, <5>2
        <5>4. CASE i = k BY <3>2, <3>5, <5>2, <5>4
        <5>5. CASE i < k
          <6>1. qu[i].n < qu[k].n /\ qu[k].n \in Nat BY <1>e, <3>5, <5>2, <5>5 DEF Rising
          <6> QED BY <3>1, <3>2, <3>5, <5>2, <6>1
        <5> QED BY <5>3, <5>4, <5>5
      <4>2. i - m \in DOMAIN qu' /\ qu'[i - m] = qu[i] BY <1>6, <4>1 DEF DrainDoes
      <4> QED BY <3>5, <4>2 DEF Queued
    <3> QED BY <3>3, <3>4, <3>5 DEF Queued
  <2> QED BY <2>1, <2>2 DEF Whole
<1> QED BY <1>0, <1>1, <1>2, <1>3, <1>4, <1>5, <1>6 DEF QueueKinds


-----------------------------------------------------------------------------
(* The steps: places, the lock, and what an observer may say *)

\* Where a step goes, and who holds the lock after it.
\* What is to do after any step.
LEMMA AtWorkStep ==
  ASSUME FsquInv, [F!Next]_(F!vars)
  PROVE  AtWork'
<1> USE DEF F!spill, F!takers
<1>0. FsquInv /\ F!TypeOK /\ F!TypeOK' BY FsquTypesStep DEF FsquInv
<1>e. AtWork BY DEF FsquInv
<1>1. ASSUME NEW p \in Producers, F!Push(p) PROVE AtWork'
  <2>1. ASSUME NEW n \in 1 .. MaxBatch, F!PushStart(p, n) PROVE AtWork'
    <3>1. /\ pc'[p] = (IF novf = 0 THEN "fast" ELSE "lock")
          /\ \A x \in F!Threads : x # p => pc'[x] = pc[x]
      BY <1>0, <2>1, FsquSetting, Goes DEF F!PushStart
    <3>2. todo'[p] = n /\ n \in Nat \ {0} /\ sent' = sent /\ sent[p] + n <= MaxPush
      BY <1>0, <2>1, Bounded, FsquSetting DEF F!PushStart, F!TypeOK
    <3>3. \A x \in Producers : x # p => todo'[x] = todo[x] /\ sent'[x] = sent[x]
      BY <1>0, <2>1 DEF F!PushStart, F!TypeOK
    <3>4. todo[p] \in Nat /\ sent[p] \in Nat BY <2>1, Bounded DEF F!PushStart
    <3>5. /\ pc'[p] \in {"idle", "fast", "try", "publish", "lock", "spill"}
          /\ pc'[p] # "idle" => todo'[p] # 0
          /\ pc'[p] # "idle" =>
                 sent'[p] + todo'[p] <= MaxPush + (IF pc'[p] = "publish" THEN 1 ELSE 0)
      BY <3>1, <3>2, <3>4, Bounded, FsquSetting
    <3> QED BY <1>e, <3>1, <3>3, <3>5, FsquSetting DEF AtWork
  <2>2. CASE F!TryStart(p)
    <3>1. pc'[p] = "try" /\ \A x \in F!Threads : x # p => pc'[x] = pc[x]
      BY <1>0, <2>2, FsquSetting, Goes DEF F!TryStart
    <3>2. todo'[p] = 1 /\ sent' = sent /\ sent[p] + 1 <= MaxPush
      BY <1>0, <2>2, Bounded, FsquSetting DEF F!TryStart, F!TypeOK
    <3>3. \A x \in Producers : x # p => todo'[x] = todo[x] /\ sent'[x] = sent[x]
      BY <1>0, <2>2 DEF F!TryStart, F!TypeOK
    <3>4. todo[p] \in Nat /\ sent[p] \in Nat BY <2>2, Bounded DEF F!TryStart
    <3>5. /\ pc'[p] \in {"idle", "fast", "try", "publish", "lock", "spill"}
          /\ pc'[p] # "idle" => todo'[p] # 0
          /\ pc'[p] # "idle" =>
                 sent'[p] + todo'[p] <= MaxPush + (IF pc'[p] = "publish" THEN 1 ELSE 0)
      BY <3>1, <3>2, <3>4, Bounded, FsquSetting
    <3> QED BY <1>e, <3>1, <3>3, <3>5, FsquSetting DEF AtWork
  <2>3. CASE F!FastClaim(p)
    <3>1. pc'[p] = "publish" /\ \A x \in F!Threads : x # p => pc'[x] = pc[x]
      BY <1>0, <2>3, FsquSetting, Goes DEF F!FastClaim
    <3>2. todo' = todo /\ sent'[p] = sent[p] + 1
      BY <1>0, <2>3, Bounded, FsquSetting DEF F!FastClaim, F!TypeOK
    <3>3. \A x \in Producers : x # p => todo'[x] = todo[x] /\ sent'[x] = sent[x]
      BY <1>0, <2>3 DEF F!FastClaim, F!TypeOK
    <3>4. todo[p] \in Nat /\ sent[p] \in Nat /\ pc[p] \in {"fast", "try"}
      BY <2>3, Bounded DEF F!FastClaim
    <3>5. /\ pc'[p] \in {"idle", "fast", "try", "publish", "lock", "spill"}
          /\ pc'[p] # "idle" => todo'[p] # 0
          /\ pc'[p] # "idle" =>
                 sent'[p] + todo'[p] <= MaxPush + (IF pc'[p] = "publish" THEN 1 ELSE 0)
      BY <3>1, <3>2, <3>4, Bounded, FsquSetting
    <3> QED BY <1>e, <3>1, <3>3, <3>5, FsquSetting DEF AtWork
  <2>4. CASE F!FastPublish(p)
    <3>1. /\ pc'[p] = (IF todo[p] = 1 THEN "idle" ELSE "fast")
          /\ \A x \in F!Threads : x # p => pc'[x] = pc[x]
      BY <1>0, <2>4, FsquSetting, Goes DEF F!FastPublish
    <3>2. todo'[p] = todo[p] - 1 /\ sent' = sent
      BY <1>0, <2>4, Bounded, FsquSetting DEF F!FastPublish, F!TypeOK
    <3>3. \A x \in Producers : x # p => todo'[x] = todo[x] /\ sent'[x] = sent[x]
      BY <1>0, <2>4 DEF F!FastPublish, F!TypeOK
    <3>4. todo[p] \in Nat /\ sent[p] \in Nat /\ pc[p] = "publish" BY <2>4, Bounded DEF F!FastPublish
    <3>5. /\ pc'[p] \in {"idle", "fast", "try", "publish", "lock", "spill"}
          /\ pc'[p] # "idle" => todo'[p] # 0
          /\ pc'[p] # "idle" =>
                 sent'[p] + todo'[p] <= MaxPush + (IF pc'[p] = "publish" THEN 1 ELSE 0)
      BY <3>1, <3>2, <3>4, Bounded, FsquSetting
    <3> QED BY <1>e, <3>1, <3>3, <3>5, FsquSetting DEF AtWork
  <2>5. CASE F!FastFull(p)
    <3>1. pc'[p] = "lock" /\ \A x \in F!Threads : x # p => pc'[x] = pc[x]
      BY <1>0, <2>5, FsquSetting, Goes DEF F!FastFull
    <3>2. todo' = todo /\ sent' = sent BY <1>0, <2>5, Bounded, FsquSetting DEF F!FastFull, F!TypeOK
    <3>3. \A x \in Producers : x # p => todo'[x] = todo[x] /\ sent'[x] = sent[x]
      BY <1>0, <2>5 DEF F!FastFull, F!TypeOK
    <3>4. todo[p] \in Nat /\ sent[p] \in Nat /\ pc[p] = "fast" BY <2>5, Bounded DEF F!FastFull
    <3>5. /\ pc'[p] \in {"idle", "fast", "try", "publish", "lock", "spill"}
          /\ pc'[p] # "idle" => todo'[p] # 0
          /\ pc'[p] # "idle" =>
                 sent'[p] + todo'[p] <= MaxPush + (IF pc'[p] = "publish" THEN 1 ELSE 0)
      BY <3>1, <3>2, <3>4, Bounded, FsquSetting
    <3> QED BY <1>e, <3>1, <3>3, <3>5, FsquSetting DEF AtWork
  <2>6. CASE F!TryFails(p)
    <3>1. pc'[p] = "idle" /\ \A x \in F!Threads : x # p => pc'[x] = pc[x]
      BY <1>0, <2>6, FsquSetting, Goes DEF F!TryFails
    <3>2. sent' = sent BY <1>0, <2>6, Bounded, FsquSetting DEF F!TryFails, F!TypeOK
    <3>3. \A x \in Producers : x # p => todo'[x] = todo[x] /\ sent'[x] = sent[x]
      BY <1>0, <2>6 DEF F!TryFails, F!TypeOK
    <3>4. todo[p] \in Nat /\ sent[p] \in Nat BY <2>6, Bounded DEF F!TryFails
    <3>5. /\ pc'[p] \in {"idle", "fast", "try", "publish", "lock", "spill"}
          /\ pc'[p] # "idle" => todo'[p] # 0
          /\ pc'[p] # "idle" =>
                 sent'[p] + todo'[p] <= MaxPush + (IF pc'[p] = "publish" THEN 1 ELSE 0)
      BY <3>1, <3>2, <3>4, Bounded, FsquSetting
    <3> QED BY <1>e, <3>1, <3>3, <3>5, FsquSetting DEF AtWork
  <2>7. CASE F!PushLock(p)
    <3>1. pc'[p] = "spill" /\ \A x \in F!Threads : x # p => pc'[x] = pc[x]
      BY <1>0, <2>7, FsquSetting, Goes DEF F!PushLock
    <3>2. todo' = todo /\ sent' = sent BY <1>0, <2>7, Bounded, FsquSetting DEF F!PushLock, F!TypeOK
    <3>3. \A x \in Producers : x # p => todo'[x] = todo[x] /\ sent'[x] = sent[x]
      BY <1>0, <2>7 DEF F!PushLock, F!TypeOK
    <3>4. todo[p] \in Nat /\ sent[p] \in Nat /\ pc[p] = "lock" BY <2>7, Bounded DEF F!PushLock
    <3>5. /\ pc'[p] \in {"idle", "fast", "try", "publish", "lock", "spill"}
          /\ pc'[p] # "idle" => todo'[p] # 0
          /\ pc'[p] # "idle" =>
                 sent'[p] + todo'[p] <= MaxPush + (IF pc'[p] = "publish" THEN 1 ELSE 0)
      BY <3>1, <3>2, <3>4, Bounded, FsquSetting
    <3> QED BY <1>e, <3>1, <3>3, <3>5, FsquSetting DEF AtWork
  <2>8. CASE F!PushSpill(p)
    <3>1. pc'[p] = "idle" /\ \A x \in F!Threads : x # p => pc'[x] = pc[x]
      BY <1>0, <2>8, FsquSetting, Goes DEF F!PushSpill
    <3>2. TRUE BY <1>0, <2>8, Bounded, FsquSetting DEF F!PushSpill, F!TypeOK
    <3>3. \A x \in Producers : x # p => todo'[x] = todo[x] /\ sent'[x] = sent[x]
      BY <1>0, <2>8 DEF F!PushSpill, F!TypeOK
    <3>4. todo[p] \in Nat /\ sent[p] \in Nat BY <2>8, Bounded DEF F!PushSpill
    <3>5. /\ pc'[p] \in {"idle", "fast", "try", "publish", "lock", "spill"}
          /\ pc'[p] # "idle" => todo'[p] # 0
          /\ pc'[p] # "idle" =>
                 sent'[p] + todo'[p] <= MaxPush + (IF pc'[p] = "publish" THEN 1 ELSE 0)
      BY <3>1, <3>2, <3>4, Bounded, FsquSetting
    <3> QED BY <1>e, <3>1, <3>3, <3>5, FsquSetting DEF AtWork
  <2> QED BY <1>1, <2>1, <2>2, <2>3, <2>4, <2>5, <2>6, <2>7, <2>8 DEF F!Push
<1>2. ASSUME NEW c \in Consumers, F!Pop(c) PROVE AtWork'
  <2>1. ASSUME NEW n \in 1 .. MaxWant, F!PopStart(c, n) PROVE AtWork'
    <3>1. pc'[c] = "fast" /\ \A x \in F!Threads : x # c => pc'[x] = pc[x]
      BY <1>0, <2>1, FsquSetting, Goes DEF F!PopStart
    <3>2. UNCHANGED <<todo, sent>> BY <2>1 DEF F!PopStart
    <3> QED BY <1>e, <3>1, <3>2, FsquSetting DEF AtWork
  <2>2. CASE F!FastTake(c)
    <3>1. UNCHANGED <<pc, todo, sent>> BY <2>2 DEF F!FastTake
    <3> QED BY <1>e, <3>1 DEF AtWork
  <2>3. CASE F!FastStop(c)
    <3>1. /\ pc'[c] = (IF pc[c] = "fast" THEN "decide" ELSE "drain")
          /\ \A x \in F!Threads : x # c => pc'[x] = pc[x]
      BY <1>0, <2>3, FsquSetting, Goes DEF F!FastStop
    <3>2. UNCHANGED <<todo, sent>> BY <2>3 DEF F!FastStop
    <3> QED BY <1>e, <3>1, <3>2, FsquSetting DEF AtWork
  <2>4. CASE F!Decide(c)
    <3>1. /\ pc'[c] = (IF want[c] = 0 \/ fastrtn[c] = "inflight" \/ novf = 0
                          THEN "idle" ELSE "lock")
          /\ \A x \in F!Threads : x # c => pc'[x] = pc[x]
      BY <1>0, <2>4, FsquSetting, Goes DEF F!Decide
    <3>2. UNCHANGED <<todo, sent>> BY <2>4 DEF F!Decide
    <3> QED BY <1>e, <3>1, <3>2, FsquSetting DEF AtWork
  <2>5. CASE F!PopLock(c)
    <3>1. pc'[c] = "refast" /\ \A x \in F!Threads : x # c => pc'[x] = pc[x]
      BY <1>0, <2>5, FsquSetting, Goes DEF F!PopLock
    <3>2. UNCHANGED <<todo, sent>> BY <2>5 DEF F!PopLock
    <3> QED BY <1>e, <3>1, <3>2, FsquSetting DEF AtWork
  <2>6. CASE F!Drain(c)
    <3>1. pc'[c] = "count" /\ \A x \in F!Threads : x # c => pc'[x] = pc[x]
      BY <1>0, <2>6, FsquSetting, Goes DEF F!Drain
    <3>2. UNCHANGED <<todo, sent>> BY <2>6 DEF F!Drain
    <3> QED BY <1>e, <3>1, <3>2, FsquSetting DEF AtWork
  <2>7. CASE F!DrainCount(c)
    <3>1. pc'[c] = "idle" /\ \A x \in F!Threads : x # c => pc'[x] = pc[x]
      BY <1>0, <2>7, FsquSetting, Goes DEF F!DrainCount
    <3>2. UNCHANGED <<todo, sent>> BY <2>7 DEF F!DrainCount
    <3> QED BY <1>e, <3>1, <3>2, FsquSetting DEF AtWork
  <2>8. CASE F!DrainNot(c)
    <3>1. pc'[c] = "idle" /\ \A x \in F!Threads : x # c => pc'[x] = pc[x]
      BY <1>0, <2>8, FsquSetting, Goes DEF F!DrainNot
    <3>2. UNCHANGED <<todo, sent>> BY <2>8 DEF F!DrainNot
    <3> QED BY <1>e, <3>1, <3>2, FsquSetting DEF AtWork
  <2> QED BY <1>2, <2>1, <2>2, <2>3, <2>4, <2>5, <2>6, <2>7, <2>8 DEF F!Pop
<1>3. ASSUME NEW o \in Observers, F!LookFast(o) \/ F!LookNovf(o) PROVE AtWork'
  <2>1. CASE F!LookFast(o)
    <3>1. /\ pc'[o] = (IF fast = <<>> THEN "look" ELSE "idle")
          /\ \A x \in F!Threads : x # o => pc'[x] = pc[x]
      BY <1>0, <2>1, FsquSetting, Goes DEF F!LookFast
    <3>2. UNCHANGED <<todo, sent>> BY <2>1 DEF F!LookFast
    <3> QED BY <1>e, <3>1, <3>2, FsquSetting DEF AtWork
  <2>2. CASE F!LookNovf(o)
    <3>1. /\ pc'[o] = (IF novf = 0 THEN "empty" ELSE "idle")
          /\ \A x \in F!Threads : x # o => pc'[x] = pc[x]
      BY <1>0, <2>2, FsquSetting, Goes DEF F!LookNovf
    <3>2. UNCHANGED <<todo, sent>> BY <2>2 DEF F!LookNovf
    <3> QED BY <1>e, <3>1, <3>2, FsquSetting DEF AtWork
  <2> QED BY <1>3, <2>1, <2>2
<1>4. CASE UNCHANGED F!vars BY <1>0, <1>e, <1>4 DEF F!vars, AtWork
<1> QED BY <1>1, <1>2, <1>3, <1>4 DEF F!Next

\* The lock has one holder after any step.
LEMMA OneInsideStep ==
  ASSUME FsquInv, [F!Next]_(F!vars)
  PROVE  OneInside'
<1> USE DEF F!spill, F!takers
<1>0. FsquInv /\ F!TypeOK /\ F!TypeOK' BY FsquTypesStep DEF FsquInv
<1>e. OneInside BY DEF FsquInv
<1>1. ASSUME NEW p \in Producers, F!Push(p) PROVE OneInside'
  <2>1. ASSUME NEW n \in 1 .. MaxBatch, F!PushStart(p, n) PROVE OneInside'
    <3>1. /\ pc'[p] = (IF novf = 0 THEN "fast" ELSE "lock")
          /\ \A x \in F!Threads : x # p => pc'[x] = pc[x]
      BY <1>0, <2>1, FsquSetting, Goes DEF F!PushStart
    <3>2. pc[p] = "idle" /\ lck' = lck BY <2>1 DEF F!PushStart
    <3> QED BY <1>e, <3>1, <3>2, FsquSetting DEF OneInside
  <2>2. CASE F!TryStart(p)
    <3>1. pc'[p] = "try" /\ \A x \in F!Threads : x # p => pc'[x] = pc[x]
      BY <1>0, <2>2, FsquSetting, Goes DEF F!TryStart
    <3>2. pc[p] = "idle" /\ lck' = lck BY <2>2 DEF F!TryStart
    <3> QED BY <1>e, <3>1, <3>2, FsquSetting DEF OneInside
  <2>3. CASE F!FastClaim(p)
    <3>1. pc'[p] = "publish" /\ \A x \in F!Threads : x # p => pc'[x] = pc[x]
      BY <1>0, <2>3, FsquSetting, Goes DEF F!FastClaim
    <3>2. pc[p] \in {"fast", "try"} /\ lck' = lck BY <2>3 DEF F!FastClaim
    <3> QED BY <1>e, <3>1, <3>2, FsquSetting DEF OneInside
  <2>4. CASE F!FastPublish(p)
    <3>1. /\ pc'[p] = (IF todo[p] = 1 THEN "idle" ELSE "fast")
          /\ \A x \in F!Threads : x # p => pc'[x] = pc[x]
      BY <1>0, <2>4, FsquSetting, Goes DEF F!FastPublish
    <3>2. pc[p] = "publish" /\ lck' = lck BY <2>4 DEF F!FastPublish
    <3> QED BY <1>e, <3>1, <3>2, FsquSetting DEF OneInside
  <2>5. CASE F!FastFull(p)
    <3>1. pc'[p] = "lock" /\ \A x \in F!Threads : x # p => pc'[x] = pc[x]
      BY <1>0, <2>5, FsquSetting, Goes DEF F!FastFull
    <3>2. pc[p] = "fast" /\ lck' = lck BY <2>5 DEF F!FastFull
    <3> QED BY <1>e, <3>1, <3>2, FsquSetting DEF OneInside
  <2>6. CASE F!TryFails(p)
    <3>1. pc'[p] = "idle" /\ \A x \in F!Threads : x # p => pc'[x] = pc[x]
      BY <1>0, <2>6, FsquSetting, Goes DEF F!TryFails
    <3>2. pc[p] = "try" /\ lck' = lck BY <2>6 DEF F!TryFails
    <3> QED BY <1>e, <3>1, <3>2, FsquSetting DEF OneInside
  <2>7. CASE F!PushLock(p)
    <3>1. pc'[p] = "spill" /\ \A x \in F!Threads : x # p => pc'[x] = pc[x]
      BY <1>0, <2>7, FsquSetting, Goes DEF F!PushLock
    <3>2. lck = Free /\ lck' = p BY <2>7 DEF F!PushLock
    <3> QED BY <1>e, <3>1, <3>2, FsquSetting DEF OneInside
  <2>8. CASE F!PushSpill(p)
    <3>1. pc'[p] = "idle" /\ \A x \in F!Threads : x # p => pc'[x] = pc[x]
      BY <1>0, <2>8, FsquSetting, Goes DEF F!PushSpill
    <3>2. pc[p] = "spill" /\ lck' = Free BY <2>8 DEF F!PushSpill
    <3> QED BY <1>e, <3>1, <3>2, FsquSetting DEF OneInside
  <2> QED BY <1>1, <2>1, <2>2, <2>3, <2>4, <2>5, <2>6, <2>7, <2>8 DEF F!Push
<1>2. ASSUME NEW c \in Consumers, F!Pop(c) PROVE OneInside'
  <2>1. ASSUME NEW n \in 1 .. MaxWant, F!PopStart(c, n) PROVE OneInside'
    <3>1. pc'[c] = "fast" /\ \A x \in F!Threads : x # c => pc'[x] = pc[x]
      BY <1>0, <2>1, FsquSetting, Goes DEF F!PopStart
    <3>2. pc[c] = "idle" /\ lck' = lck BY <2>1 DEF F!PopStart
    <3> QED BY <1>e, <3>1, <3>2, FsquSetting DEF OneInside
  <2>2. CASE F!FastTake(c)
    <3>1. UNCHANGED <<pc, lck>> BY <2>2 DEF F!FastTake
    <3> QED BY <1>e, <3>1 DEF OneInside
  <2>3. CASE F!FastStop(c)
    <3>1. /\ pc'[c] = (IF pc[c] = "fast" THEN "decide" ELSE "drain")
          /\ \A x \in F!Threads : x # c => pc'[x] = pc[x]
      BY <1>0, <2>3, FsquSetting, Goes DEF F!FastStop
    <3>2. pc[c] \in {"fast", "refast"} /\ lck' = lck BY <2>3 DEF F!FastStop
    <3> QED BY <1>e, <3>1, <3>2, FsquSetting DEF OneInside
  <2>4. CASE F!Decide(c)
    <3>1. /\ pc'[c] = (IF want[c] = 0 \/ fastrtn[c] = "inflight" \/ novf = 0
                          THEN "idle" ELSE "lock")
          /\ \A x \in F!Threads : x # c => pc'[x] = pc[x]
      BY <1>0, <2>4, FsquSetting, Goes DEF F!Decide
    <3>2. pc[c] = "decide" /\ lck' = lck BY <2>4 DEF F!Decide
    <3> QED BY <1>e, <3>1, <3>2, FsquSetting DEF OneInside
  <2>5. CASE F!PopLock(c)
    <3>1. pc'[c] = "refast" /\ \A x \in F!Threads : x # c => pc'[x] = pc[x]
      BY <1>0, <2>5, FsquSetting, Goes DEF F!PopLock
    <3>2. lck = Free /\ lck' = c BY <2>5 DEF F!PopLock
    <3> QED BY <1>e, <3>1, <3>2, FsquSetting DEF OneInside
  <2>6. CASE F!Drain(c)
    <3>1. pc'[c] = "count" /\ \A x \in F!Threads : x # c => pc'[x] = pc[x]
      BY <1>0, <2>6, FsquSetting, Goes DEF F!Drain
    <3>2. pc[c] = "drain" /\ lck' = lck BY <2>6 DEF F!Drain
    <3> QED BY <1>e, <3>1, <3>2, FsquSetting DEF OneInside
  <2>7. CASE F!DrainCount(c)
    <3>1. pc'[c] = "idle" /\ \A x \in F!Threads : x # c => pc'[x] = pc[x]
      BY <1>0, <2>7, FsquSetting, Goes DEF F!DrainCount
    <3>2. pc[c] = "count" /\ lck' = Free BY <2>7 DEF F!DrainCount
    <3> QED BY <1>e, <3>1, <3>2, FsquSetting DEF OneInside
  <2>8. CASE F!DrainNot(c)
    <3>1. pc'[c] = "idle" /\ \A x \in F!Threads : x # c => pc'[x] = pc[x]
      BY <1>0, <2>8, FsquSetting, Goes DEF F!DrainNot
    <3>2. pc[c] = "drain" /\ lck' = Free BY <2>8 DEF F!DrainNot
    <3> QED BY <1>e, <3>1, <3>2, FsquSetting DEF OneInside
  <2> QED BY <1>2, <2>1, <2>2, <2>3, <2>4, <2>5, <2>6, <2>7, <2>8 DEF F!Pop
<1>3. ASSUME NEW o \in Observers, F!LookFast(o) \/ F!LookNovf(o) PROVE OneInside'
  <2>1. CASE F!LookFast(o)
    <3>1. /\ pc'[o] = (IF fast = <<>> THEN "look" ELSE "idle")
          /\ \A x \in F!Threads : x # o => pc'[x] = pc[x]
      BY <1>0, <2>1, FsquSetting, Goes DEF F!LookFast
    <3>2. pc[o] \in {"idle", "empty"} /\ lck' = lck BY <2>1 DEF F!LookFast
    <3> QED BY <1>e, <3>1, <3>2, FsquSetting DEF OneInside
  <2>2. CASE F!LookNovf(o)
    <3>1. /\ pc'[o] = (IF novf = 0 THEN "empty" ELSE "idle")
          /\ \A x \in F!Threads : x # o => pc'[x] = pc[x]
      BY <1>0, <2>2, FsquSetting, Goes DEF F!LookNovf
    <3>2. pc[o] = "look" /\ lck' = lck BY <2>2 DEF F!LookNovf
    <3> QED BY <1>e, <3>1, <3>2, FsquSetting DEF OneInside
  <2> QED BY <1>3, <2>1, <2>2
<1>4. CASE UNCHANGED F!vars BY <1>0, <1>e, <1>4 DEF F!vars, OneInside
<1> QED BY <1>1, <1>2, <1>3, <1>4 DEF F!Next

\* The counter after any step.
LEMMA SpillCountedStep ==
  ASSUME FsquInv, [F!Next]_(F!vars)
  PROVE  SpillCounted'
<1> USE DEF F!spill, F!takers
<1>0. FsquInv /\ F!TypeOK /\ F!TypeOK' BY FsquTypesStep DEF FsquInv
<1>e. SpillCounted /\ OneInside BY DEF FsquInv
<1>1. ASSUME NEW p \in Producers, F!Push(p) PROVE SpillCounted'
  <2>1. ASSUME NEW n \in 1 .. MaxBatch, F!PushStart(p, n) PROVE SpillCounted'
    <3>1. /\ pc'[p] = (IF novf = 0 THEN "fast" ELSE "lock")
          /\ \A x \in F!Threads : x # p => pc'[x] = pc[x]
      BY <1>0, <2>1, FsquSetting, Goes DEF F!PushStart
    <3>2. /\ UNCHANGED <<qu, novf, lck, want>> /\ pc[p] \in {"idle", "publish", "try"}
          /\ \A x \in Producers : x # p => todo'[x] = todo[x]
      BY <1>0, <2>1 DEF F!PushStart, F!TypeOK
    <3>3. lck # p BY <1>e, <3>2, FsquSetting DEF OneInside
    <3> QED BY <1>e, <3>1, <3>2, <3>3, FsquSetting DEF SpillCounted
  <2>2. CASE F!TryStart(p)
    <3>1. pc'[p] = "try" /\ \A x \in F!Threads : x # p => pc'[x] = pc[x]
      BY <1>0, <2>2, FsquSetting, Goes DEF F!TryStart
    <3>2. /\ UNCHANGED <<qu, novf, lck, want>> /\ pc[p] \in {"idle", "publish", "try"}
          /\ \A x \in Producers : x # p => todo'[x] = todo[x]
      BY <1>0, <2>2 DEF F!TryStart, F!TypeOK
    <3>3. lck # p BY <1>e, <3>2, FsquSetting DEF OneInside
    <3> QED BY <1>e, <3>1, <3>2, <3>3, FsquSetting DEF SpillCounted
  <2>3. CASE F!FastClaim(p)
    <3>1. pc'[p] = "publish" /\ \A x \in F!Threads : x # p => pc'[x] = pc[x]
      BY <1>0, <2>3, FsquSetting, Goes DEF F!FastClaim
    <3>2. UNCHANGED <<qu, novf, lck, want, todo>> BY <2>3 DEF F!FastClaim
    <3> QED BY <1>e, <3>1, <3>2, FsquSetting DEF SpillCounted
  <2>4. CASE F!FastPublish(p)
    <3>1. /\ pc'[p] = (IF todo[p] = 1 THEN "idle" ELSE "fast")
          /\ \A x \in F!Threads : x # p => pc'[x] = pc[x]
      BY <1>0, <2>4, FsquSetting, Goes DEF F!FastPublish
    <3>2. /\ UNCHANGED <<qu, novf, lck, want>> /\ pc[p] \in {"idle", "publish", "try"}
          /\ \A x \in Producers : x # p => todo'[x] = todo[x]
      BY <1>0, <2>4 DEF F!FastPublish, F!TypeOK
    <3>3. lck # p BY <1>e, <3>2, FsquSetting DEF OneInside
    <3> QED BY <1>e, <3>1, <3>2, <3>3, FsquSetting DEF SpillCounted
  <2>5. CASE F!FastFull(p)
    <3>1. pc'[p] = "lock" /\ \A x \in F!Threads : x # p => pc'[x] = pc[x]
      BY <1>0, <2>5, FsquSetting, Goes DEF F!FastFull
    <3>2. UNCHANGED <<qu, novf, lck, want, todo>> BY <2>5 DEF F!FastFull
    <3> QED BY <1>e, <3>1, <3>2, FsquSetting DEF SpillCounted
  <2>6. CASE F!TryFails(p)
    <3>1. pc'[p] = "idle" /\ \A x \in F!Threads : x # p => pc'[x] = pc[x]
      BY <1>0, <2>6, FsquSetting, Goes DEF F!TryFails
    <3>2. /\ UNCHANGED <<qu, novf, lck, want>> /\ pc[p] \in {"idle", "publish", "try"}
          /\ \A x \in Producers : x # p => todo'[x] = todo[x]
      BY <1>0, <2>6 DEF F!TryFails, F!TypeOK
    <3>3. lck # p BY <1>e, <3>2, FsquSetting DEF OneInside
    <3> QED BY <1>e, <3>1, <3>2, <3>3, FsquSetting DEF SpillCounted
  <2>7. CASE F!PushLock(p)
    <3>1. pc'[p] = "spill" /\ \A x \in F!Threads : x # p => pc'[x] = pc[x]
      BY <1>0, <2>7, FsquSetting, Goes DEF F!PushLock
    <3>2. lck = Free /\ lck' = p /\ novf' = novf + todo[p] /\ UNCHANGED <<qu, todo, want>>
      BY <2>7 DEF F!PushLock
    <3>3. novf = Len(qu) BY <1>e, <3>2 DEF SpillCounted
    <3> QED BY <3>2, <3>3, FsquSetting DEF SpillCounted
  <2>8. CASE F!PushSpill(p)
    <3>1. pc'[p] = "idle" /\ \A x \in F!Threads : x # p => pc'[x] = pc[x]
      BY <1>0, <2>8, FsquSetting, Goes DEF F!PushSpill
    <3>2. lck' = Free /\ novf' = novf /\ qu' = qu \o Batch(p) /\ pc[p] = "spill"
      BY <2>8 DEF F!PushSpill, Batch
    <3>3. novf = Len(qu) + todo[p]
      <4>1. lck = p BY <1>e, <3>2, FsquSetting DEF OneInside
      <4> QED BY <1>e, <4>1 DEF SpillCounted
    <3>4. Len(qu') = Len(qu) + todo[p]
      <4>1. PICK b : b = Batch(p) OBVIOUS
      <4>2. b \in Seq(Items) /\ Len(b) = todo[p] BY <3>2, <4>1, BatchSeq
      <4>3. qu \in Seq(Items) BY <1>0, Elements
      <4> QED BY <3>2, <4>1, <4>2, <4>3, TwoSeqs
    <3> QED BY <3>2, <3>3, <3>4, FsquSetting DEF SpillCounted
  <2> QED BY <1>1, <2>1, <2>2, <2>3, <2>4, <2>5, <2>6, <2>7, <2>8 DEF F!Push
<1>2. ASSUME NEW c \in Consumers, F!Pop(c) PROVE SpillCounted'
  <2>1. ASSUME NEW n \in 1 .. MaxWant, F!PopStart(c, n) PROVE SpillCounted'
    <3>1. pc'[c] = "fast" /\ \A x \in F!Threads : x # c => pc'[x] = pc[x]
      BY <1>0, <2>1, FsquSetting, Goes DEF F!PopStart
    <3>2. /\ UNCHANGED <<qu, novf, lck, todo>> /\ pc[c] \in {"idle", "decide"}
          /\ \A x \in Consumers : x # c => want'[x] = want[x]
      BY <1>0, <2>1 DEF F!PopStart, F!TypeOK
    <3>3. lck # c BY <1>e, <3>2, FsquSetting DEF OneInside
    <3> QED BY <1>e, <3>1, <3>2, <3>3, FsquSetting DEF SpillCounted
  <2>2. CASE F!FastTake(c)
    <3>2. UNCHANGED <<qu, novf, lck, todo, pc>> /\ pc[c] # "count"
          /\ \A x \in Consumers : x # c => want'[x] = want[x]
      BY <1>0, <2>2 DEF F!FastTake, F!TypeOK
    <3> QED BY <1>e, <3>2 DEF SpillCounted
  <2>3. CASE F!FastStop(c)
    <3>1. /\ pc'[c] = (IF pc[c] = "fast" THEN "decide" ELSE "drain")
          /\ \A x \in F!Threads : x # c => pc'[x] = pc[x]
      BY <1>0, <2>3, FsquSetting, Goes DEF F!FastStop
    <3>2. UNCHANGED <<qu, novf, lck, want, todo>> /\ pc[c] # "count" BY <2>3 DEF F!FastStop
    <3>3. pc'[c] # "count" BY <3>1
    <3> QED BY <1>e, <3>1, <3>2, <3>3, FsquSetting DEF SpillCounted
  <2>4. CASE F!Decide(c)
    <3>1. /\ pc'[c] = (IF want[c] = 0 \/ fastrtn[c] = "inflight" \/ novf = 0
                          THEN "idle" ELSE "lock")
          /\ \A x \in F!Threads : x # c => pc'[x] = pc[x]
      BY <1>0, <2>4, FsquSetting, Goes DEF F!Decide
    <3>2. /\ UNCHANGED <<qu, novf, lck, todo>> /\ pc[c] \in {"idle", "decide"}
          /\ \A x \in Consumers : x # c => want'[x] = want[x]
      BY <1>0, <2>4 DEF F!Decide, F!TypeOK
    <3>3. lck # c BY <1>e, <3>2, FsquSetting DEF OneInside
    <3> QED BY <1>e, <3>1, <3>2, <3>3, FsquSetting DEF SpillCounted
  <2>5. CASE F!PopLock(c)
    <3>1. pc'[c] = "refast" /\ \A x \in F!Threads : x # c => pc'[x] = pc[x]
      BY <1>0, <2>5, FsquSetting, Goes DEF F!PopLock
    <3>2. lck = Free /\ lck' = c /\ UNCHANGED <<qu, novf, todo, want>> BY <2>5 DEF F!PopLock
    <3>3. novf = Len(qu) BY <1>e, <3>2 DEF SpillCounted
    <3> QED BY <3>1, <3>2, <3>3, FsquSetting DEF SpillCounted
  <2>6. CASE F!Drain(c)
    <3>1. pc'[c] = "count" /\ \A x \in F!Threads : x # c => pc'[x] = pc[x]
      BY <1>0, <2>6, FsquSetting, Goes DEF F!Drain
    <3>2. PICK m \in Nat : /\ m \in 0 .. Len(qu) /\ qu' = SubSeq(qu, m + 1, Len(qu))
                         /\ want' = [want EXCEPT ![c] = m]
      BY <1>0, <2>6, DrainSome
    <3>3. qu \in Seq(Items) BY <1>0, Elements
    <3>4. Len(qu') = Len(qu) - m /\ Len(qu) \in Nat BY <3>2, <3>3, Without
    <3>5. lck' = lck /\ novf' = novf /\ pc[c] = "drain" BY <2>6 DEF F!Drain
    <3>6. lck = c BY <1>e, <3>5, FsquSetting DEF OneInside
    <3>7. novf = Len(qu) BY <1>e, <3>5, <3>6 DEF SpillCounted
    <3>8. want'[c] = m BY <1>0, <3>2 DEF F!TypeOK
    <3>9. novf' = Len(qu') + want'[c] BY <3>2, <3>4, <3>5, <3>7, <3>8
    <3> QED BY <3>1, <3>5, <3>6, <3>9, FsquSetting DEF SpillCounted
  <2>7. CASE F!DrainCount(c)
    <3>1. pc'[c] = "idle" /\ \A x \in F!Threads : x # c => pc'[x] = pc[x]
      BY <1>0, <2>7, FsquSetting, Goes DEF F!DrainCount
    <3>2. lck' = Free /\ qu' = qu /\ novf' = novf - want[c] /\ pc[c] = "count"
      BY <2>7 DEF F!DrainCount
    <3>3. lck = c BY <1>e, <3>2, FsquSetting DEF OneInside
    <3>4. novf = Len(qu) + want[c] BY <1>e, <3>2, <3>3 DEF SpillCounted
    <3>5. want[c] \in Nat /\ Len(qu) \in Nat BY <1>0, FsquSetting DEF F!TypeOK
    <3>6. novf' = Len(qu') BY <3>2, <3>4, <3>5
    <3> QED BY <3>2, <3>6, FsquSetting DEF SpillCounted
  <2>8. CASE F!DrainNot(c)
    <3>1. pc'[c] = "idle" /\ \A x \in F!Threads : x # c => pc'[x] = pc[x]
      BY <1>0, <2>8, FsquSetting, Goes DEF F!DrainNot
    <3>2. lck' = Free /\ qu' = qu /\ novf' = novf /\ pc[c] = "drain" BY <2>8 DEF F!DrainNot
    <3>3. lck = c BY <1>e, <3>2, FsquSetting DEF OneInside
    <3>4. novf = Len(qu) BY <1>e, <3>2, <3>3 DEF SpillCounted
    <3> QED BY <3>2, <3>4, FsquSetting DEF SpillCounted
  <2> QED BY <1>2, <2>1, <2>2, <2>3, <2>4, <2>5, <2>6, <2>7, <2>8 DEF F!Pop
<1>3. ASSUME NEW o \in Observers, F!LookFast(o) \/ F!LookNovf(o) PROVE SpillCounted'
  <2>1. CASE F!LookFast(o)
    <3>1. /\ pc'[o] = (IF fast = <<>> THEN "look" ELSE "idle")
          /\ \A x \in F!Threads : x # o => pc'[x] = pc[x]
      BY <1>0, <2>1, FsquSetting, Goes DEF F!LookFast
    <3>2. UNCHANGED <<qu, novf, lck, want, todo>> BY <2>1 DEF F!LookFast
    <3> QED BY <1>e, <3>1, <3>2, FsquSetting DEF SpillCounted
  <2>2. CASE F!LookNovf(o)
    <3>1. /\ pc'[o] = (IF novf = 0 THEN "empty" ELSE "idle")
          /\ \A x \in F!Threads : x # o => pc'[x] = pc[x]
      BY <1>0, <2>2, FsquSetting, Goes DEF F!LookNovf
    <3>2. UNCHANGED <<qu, novf, lck, want, todo>> BY <2>2 DEF F!LookNovf
    <3> QED BY <1>e, <3>1, <3>2, FsquSetting DEF SpillCounted
  <2> QED BY <1>3, <2>1, <2>2
<1>4. CASE UNCHANGED F!vars BY <1>0, <1>e, <1>4 DEF F!vars, SpillCounted
<1> QED BY <1>1, <1>2, <1>3, <1>4 DEF F!Next

\* Who goes to the ring has nothing in the spill queue, after any step.
LEMMA StraightStep ==
  ASSUME FsquInv, [F!Next]_(F!vars)
  PROVE  Straight'
<1> USE DEF F!spill, F!takers
<1>0. FsquInv /\ F!TypeOK /\ F!TypeOK' BY FsquTypesStep DEF FsquInv
<1>e. Straight BY DEF FsquInv
<1>1. ASSUME NEW p \in Producers, F!Push(p) PROVE Straight'
  <2>1. ASSUME NEW n \in 1 .. MaxBatch, F!PushStart(p, n) PROVE Straight'
    <3>1. /\ pc'[p] = (IF novf = 0 THEN "fast" ELSE "lock")
          /\ \A x \in F!Threads : x # p => pc'[x] = pc[x]
      BY <1>0, <2>1, FsquSetting, Goes DEF F!PushStart
    <3>2. qu' = qu /\ (pc'[p] \in {"fast", "try", "publish"} => novf = 0)
      BY <3>1, <2>1 DEF F!PushStart
    <3>3. novf = 0 => \A x : ~ Spilled(x) BY <1>0, Elements DEF F!TypeOK, Spilled
    <3> QED BY <1>e, <3>1, <3>2, <3>3, FsquSetting DEF Straight, Spilled
  <2>2. CASE F!TryStart(p)
    <3>1. pc'[p] = "try" /\ \A x \in F!Threads : x # p => pc'[x] = pc[x]
      BY <1>0, <2>2, FsquSetting, Goes DEF F!TryStart
    <3>2. qu' = qu /\ (pc'[p] \in {"fast", "try", "publish"} => novf = 0)
      BY <3>1, <2>2 DEF F!TryStart
    <3>3. novf = 0 => \A x : ~ Spilled(x) BY <1>0, Elements DEF F!TypeOK, Spilled
    <3> QED BY <1>e, <3>1, <3>2, <3>3, FsquSetting DEF Straight, Spilled
  <2>3. CASE F!FastClaim(p)
    <3>1. pc'[p] = "publish" /\ \A x \in F!Threads : x # p => pc'[x] = pc[x]
      BY <1>0, <2>3, FsquSetting, Goes DEF F!FastClaim
    <3>2. qu' = qu /\ pc[p] \in {"fast", "try", "publish"} BY <2>3 DEF F!FastClaim
    <3> QED BY <1>e, <3>1, <3>2, FsquSetting DEF Straight, Spilled
  <2>4. CASE F!FastPublish(p)
    <3>1. /\ pc'[p] = (IF todo[p] = 1 THEN "idle" ELSE "fast")
          /\ \A x \in F!Threads : x # p => pc'[x] = pc[x]
      BY <1>0, <2>4, FsquSetting, Goes DEF F!FastPublish
    <3>2. qu' = qu /\ pc[p] \in {"fast", "try", "publish"} BY <2>4 DEF F!FastPublish
    <3> QED BY <1>e, <3>1, <3>2, FsquSetting DEF Straight, Spilled
  <2>5. CASE F!FastFull(p)
    <3>1. pc'[p] = "lock" /\ \A x \in F!Threads : x # p => pc'[x] = pc[x]
      BY <1>0, <2>5, FsquSetting, Goes DEF F!FastFull
    <3>2. qu' = qu BY <2>5 DEF F!FastFull
    <3> QED BY <1>e, <3>1, <3>2, FsquSetting DEF Straight, Spilled
  <2>6. CASE F!TryFails(p)
    <3>1. pc'[p] = "idle" /\ \A x \in F!Threads : x # p => pc'[x] = pc[x]
      BY <1>0, <2>6, FsquSetting, Goes DEF F!TryFails
    <3>2. qu' = qu BY <2>6 DEF F!TryFails
    <3> QED BY <1>e, <3>1, <3>2, FsquSetting DEF Straight, Spilled
  <2>7. CASE F!PushLock(p)
    <3>1. pc'[p] = "spill" /\ \A x \in F!Threads : x # p => pc'[x] = pc[x]
      BY <1>0, <2>7, FsquSetting, Goes DEF F!PushLock
    <3>2. qu' = qu BY <2>7 DEF F!PushLock
    <3> QED BY <1>e, <3>1, <3>2, FsquSetting DEF Straight, Spilled
  <2>8. CASE F!PushSpill(p)
    <3>1. pc'[p] = "idle" /\ \A x \in F!Threads : x # p => pc'[x] = pc[x]
      BY <1>0, <2>8, FsquSetting, Goes DEF F!PushSpill
    <3>2. SpillDoes(p) BY <1>0, <2>8, SpillEffect
    <3>3. \A x \in Producers : x # p /\ ~ Spilled(x) => ~ Spilled(x)' BY <3>2 DEF SpillDoes, Spilled
    <3> QED BY <1>e, <3>1, <3>3, FsquSetting DEF Straight
  <2> QED BY <1>1, <2>1, <2>2, <2>3, <2>4, <2>5, <2>6, <2>7, <2>8 DEF F!Push
<1>2. ASSUME NEW c \in Consumers, F!Pop(c) PROVE Straight'
  <2>1. ASSUME NEW n \in 1 .. MaxWant, F!PopStart(c, n) PROVE Straight'
    <3>1. pc'[c] = "fast" /\ \A x \in F!Threads : x # c => pc'[x] = pc[x]
      BY <1>0, <2>1, FsquSetting, Goes DEF F!PopStart
    <3>2. qu' = qu BY <2>1 DEF F!PopStart
    <3> QED BY <1>e, <3>1, <3>2, FsquSetting DEF Straight, Spilled
  <2>2. CASE F!FastTake(c)
    <3>2. qu' = qu /\ pc' = pc BY <2>2 DEF F!FastTake
    <3> QED BY <1>e, <3>2 DEF Straight, Spilled
  <2>3. CASE F!FastStop(c)
    <3>1. /\ pc'[c] = (IF pc[c] = "fast" THEN "decide" ELSE "drain")
          /\ \A x \in F!Threads : x # c => pc'[x] = pc[x]
      BY <1>0, <2>3, FsquSetting, Goes DEF F!FastStop
    <3>2. qu' = qu BY <2>3 DEF F!FastStop
    <3> QED BY <1>e, <3>1, <3>2, FsquSetting DEF Straight, Spilled
  <2>4. CASE F!Decide(c)
    <3>1. /\ pc'[c] = (IF want[c] = 0 \/ fastrtn[c] = "inflight" \/ novf = 0
                          THEN "idle" ELSE "lock")
          /\ \A x \in F!Threads : x # c => pc'[x] = pc[x]
      BY <1>0, <2>4, FsquSetting, Goes DEF F!Decide
    <3>2. qu' = qu BY <2>4 DEF F!Decide
    <3> QED BY <1>e, <3>1, <3>2, FsquSetting DEF Straight, Spilled
  <2>5. CASE F!PopLock(c)
    <3>1. pc'[c] = "refast" /\ \A x \in F!Threads : x # c => pc'[x] = pc[x]
      BY <1>0, <2>5, FsquSetting, Goes DEF F!PopLock
    <3>2. qu' = qu BY <2>5 DEF F!PopLock
    <3> QED BY <1>e, <3>1, <3>2, FsquSetting DEF Straight, Spilled
  <2>6. CASE F!Drain(c)
    <3>1. pc'[c] = "count" /\ \A x \in F!Threads : x # c => pc'[x] = pc[x]
      BY <1>0, <2>6, FsquSetting, Goes DEF F!Drain
    <3>2. PICK m : DrainDoes(m) BY <1>0, <2>6, DrainEffect
    <3>3. \A x \in Producers : ~ Spilled(x) => ~ Spilled(x)' BY <3>2 DEF DrainDoes, Spilled
    <3> QED BY <1>e, <3>1, <3>3, FsquSetting DEF Straight
  <2>7. CASE F!DrainCount(c)
    <3>1. pc'[c] = "idle" /\ \A x \in F!Threads : x # c => pc'[x] = pc[x]
      BY <1>0, <2>7, FsquSetting, Goes DEF F!DrainCount
    <3>2. qu' = qu BY <2>7 DEF F!DrainCount
    <3> QED BY <1>e, <3>1, <3>2, FsquSetting DEF Straight, Spilled
  <2>8. CASE F!DrainNot(c)
    <3>1. pc'[c] = "idle" /\ \A x \in F!Threads : x # c => pc'[x] = pc[x]
      BY <1>0, <2>8, FsquSetting, Goes DEF F!DrainNot
    <3>2. qu' = qu BY <2>8 DEF F!DrainNot
    <3> QED BY <1>e, <3>1, <3>2, FsquSetting DEF Straight, Spilled
  <2> QED BY <1>2, <2>1, <2>2, <2>3, <2>4, <2>5, <2>6, <2>7, <2>8 DEF F!Pop
<1>3. ASSUME NEW o \in Observers, F!LookFast(o) \/ F!LookNovf(o) PROVE Straight'
  <2>1. CASE F!LookFast(o)
    <3>1. /\ pc'[o] = (IF fast = <<>> THEN "look" ELSE "idle")
          /\ \A x \in F!Threads : x # o => pc'[x] = pc[x]
      BY <1>0, <2>1, FsquSetting, Goes DEF F!LookFast
    <3>2. qu' = qu BY <2>1 DEF F!LookFast
    <3> QED BY <1>e, <3>1, <3>2, FsquSetting DEF Straight, Spilled
  <2>2. CASE F!LookNovf(o)
    <3>1. /\ pc'[o] = (IF novf = 0 THEN "empty" ELSE "idle")
          /\ \A x \in F!Threads : x # o => pc'[x] = pc[x]
      BY <1>0, <2>2, FsquSetting, Goes DEF F!LookNovf
    <3>2. qu' = qu BY <2>2 DEF F!LookNovf
    <3> QED BY <1>e, <3>1, <3>2, FsquSetting DEF Straight, Spilled
  <2> QED BY <1>3, <2>1, <2>2
<1>4. CASE UNCHANGED F!vars BY <1>0, <1>e, <1>4 DEF F!vars, Straight, Spilled
<1> QED BY <1>1, <1>2, <1>3, <1>4 DEF F!Next

\* Who is in the ring when a consumer is about to drain has nothing there, after any step.
LEMMA BareStep ==
  ASSUME FsquInv, [F!Next]_(F!vars)
  PROVE  Bare'
<1> USE DEF F!spill, F!takers
<1>0. FsquInv /\ F!TypeOK /\ F!TypeOK' BY FsquTypesStep DEF FsquInv
<1>e. Bare /\ OneInside /\ Straight BY DEF FsquInv
<1>1. ASSUME NEW p \in Producers, F!Push(p) PROVE Bare'
  <2>1. ASSUME NEW n \in 1 .. MaxBatch, F!PushStart(p, n) PROVE Bare'
    <3>1. /\ pc'[p] = (IF novf = 0 THEN "fast" ELSE "lock")
          /\ \A x \in F!Threads : x # p => pc'[x] = pc[x]
      BY <1>0, <2>1, FsquSetting, Goes DEF F!PushStart
    <3>2. UNCHANGED <<fast, qu, want, fastrtn>> BY <2>1 DEF F!PushStart
    <3> QED BY <1>e, <3>1, <3>2, FsquSetting DEF Bare, Spilled
  <2>2. CASE F!TryStart(p)
    <3>1. pc'[p] = "try" /\ \A x \in F!Threads : x # p => pc'[x] = pc[x]
      BY <1>0, <2>2, FsquSetting, Goes DEF F!TryStart
    <3>2. UNCHANGED <<fast, qu, want, fastrtn>> BY <2>2 DEF F!TryStart
    <3> QED BY <1>e, <3>1, <3>2, FsquSetting DEF Bare, Spilled
  <2>3. CASE F!FastClaim(p)
    <3>1. pc'[p] = "publish" /\ \A x \in F!Threads : x # p => pc'[x] = pc[x]
      BY <1>0, <2>3, FsquSetting, Goes DEF F!FastClaim
    <3>2. ClaimDoes(p) BY <1>0, <2>3, ClaimEffect
    <3>3. ~ Spilled(p) BY <1>e, <2>3 DEF Straight, F!FastClaim
    <3>4. UNCHANGED <<qu, want, fastrtn>> BY <2>3 DEF F!FastClaim
    <3>5. ASSUME NEW c \in Consumers, (pc[c] = "drain" /\ want[c] # 0 /\ fastrtn[c] # "inflight")'
          PROVE  (\A i \in DOMAIN fast : ~ Spilled(fast[i].by))'
      <4>1. pc[c] = "drain" /\ want[c] # 0 /\ fastrtn[c] # "inflight"
        BY <3>1, <3>4, <3>5, FsquSetting
      <4>2. \A i \in DOMAIN fast : ~ Spilled(fast[i].by) BY <1>e, <4>1 DEF Bare
      <4>3. ASSUME NEW i \in DOMAIN fast' PROVE (~ Spilled(fast[i].by))'
        <5>1. fast'[i].by = p \/ (i \in DOMAIN fast /\ fast'[i].by = fast[i].by)
          BY <3>2 DEF ClaimDoes
        <5>2. ~ Spilled(fast'[i].by) BY <3>3, <4>2, <5>1
        <5> QED BY <3>4, <5>2 DEF Spilled
      <4> QED BY <4>3
    <3> QED BY <3>5 DEF Bare
  <2>4. CASE F!FastPublish(p)
    <3>1. /\ pc'[p] = (IF todo[p] = 1 THEN "idle" ELSE "fast")
          /\ \A x \in F!Threads : x # p => pc'[x] = pc[x]
      BY <1>0, <2>4, FsquSetting, Goes DEF F!FastPublish
    <3>2. PublishDoes BY <1>0, <2>4, PublishEffect
    <3>4. UNCHANGED <<qu, want, fastrtn>> BY <2>4 DEF F!FastPublish
    <3> QED BY <1>e, <3>1, <3>2, <3>4, FsquSetting DEF Bare, Spilled, PublishDoes
  <2>5. CASE F!FastFull(p)
    <3>1. pc'[p] = "lock" /\ \A x \in F!Threads : x # p => pc'[x] = pc[x]
      BY <1>0, <2>5, FsquSetting, Goes DEF F!FastFull
    <3>2. UNCHANGED <<fast, qu, want, fastrtn>> BY <2>5 DEF F!FastFull
    <3> QED BY <1>e, <3>1, <3>2, FsquSetting DEF Bare, Spilled
  <2>6. CASE F!TryFails(p)
    <3>1. pc'[p] = "idle" /\ \A x \in F!Threads : x # p => pc'[x] = pc[x]
      BY <1>0, <2>6, FsquSetting, Goes DEF F!TryFails
    <3>2. UNCHANGED <<fast, qu, want, fastrtn>> BY <2>6 DEF F!TryFails
    <3> QED BY <1>e, <3>1, <3>2, FsquSetting DEF Bare, Spilled
  <2>7. CASE F!PushLock(p)
    <3>1. pc'[p] = "spill" /\ \A x \in F!Threads : x # p => pc'[x] = pc[x]
      BY <1>0, <2>7, FsquSetting, Goes DEF F!PushLock
    <3>2. lck = Free BY <1>e, <2>7, FsquSetting DEF OneInside, F!PushLock
    <3>3. \A c \in Consumers : pc[c] # "drain" BY <1>e, <3>2, FsquSetting DEF OneInside
    <3> QED BY <3>1, <3>3, FsquSetting DEF Bare
  <2>8. CASE F!PushSpill(p)
    <3>1. pc'[p] = "idle" /\ \A x \in F!Threads : x # p => pc'[x] = pc[x]
      BY <1>0, <2>8, FsquSetting, Goes DEF F!PushSpill
    <3>2. lck = p BY <1>e, <2>8, FsquSetting DEF OneInside, F!PushSpill
    <3>3. \A c \in Consumers : pc[c] # "drain" BY <1>e, <3>2, FsquSetting DEF OneInside
    <3> QED BY <3>1, <3>3, FsquSetting DEF Bare
  <2> QED BY <1>1, <2>1, <2>2, <2>3, <2>4, <2>5, <2>6, <2>7, <2>8 DEF F!Push
<1>2. ASSUME NEW c \in Consumers, F!Pop(c) PROVE Bare'
  <2>1. ASSUME NEW n \in 1 .. MaxWant, F!PopStart(c, n) PROVE Bare'
    <3>1. pc'[c] = "fast" /\ \A x \in F!Threads : x # c => pc'[x] = pc[x]
      BY <1>0, <2>1, FsquSetting, Goes DEF F!PopStart
    <3>2. UNCHANGED <<fast, qu>> BY <2>1 DEF F!PopStart
    <3>3. \A x \in Consumers : x # c => want'[x] = want[x] /\ fastrtn'[x] = fastrtn[x]
      BY <1>0, <2>1 DEF F!PopStart, F!TypeOK
    <3> QED BY <1>e, <3>1, <3>2, <3>3, FsquSetting DEF Bare, Spilled
  <2>2. CASE F!FastTake(c)
    <3>1. TakeDoes BY <1>0, <2>2, TakeEffect
    <3>2. pc' = pc /\ fastrtn' = fastrtn /\ qu' = qu /\ pc[c] # "drain" BY <2>2 DEF F!FastTake
    <3>3. \A x \in Consumers : x # c => want'[x] = want[x] BY <1>0, <2>2 DEF F!FastTake, F!TypeOK
    <3> QED BY <1>e, <3>1, <3>2, <3>3 DEF Bare, Spilled, TakeDoes
  <2>3. CASE F!FastStop(c)
    <3>1. /\ pc'[c] = (IF pc[c] = "fast" THEN "decide" ELSE "drain")
          /\ \A x \in F!Threads : x # c => pc'[x] = pc[x]
      BY <1>0, <2>3, FsquSetting, Goes DEF F!FastStop
    <3>2. UNCHANGED <<fast, qu, want>> /\ \A x \in Consumers : x # c => fastrtn'[x] = fastrtn[x]
      BY <1>0, <2>3 DEF F!FastStop, F!TypeOK
    <3>3. ASSUME pc'[c] = "drain", want[c] # 0, fastrtn'[c] # "inflight" PROVE fast = <<>>
      <4>1. pc[c] = "refast" BY <3>1, <3>3, <2>3 DEF F!FastStop
      <4>2. PICK r \in F!Answers(c) : fastrtn' = [fastrtn EXCEPT ![c] = r]
        BY <3>3, <2>3 DEF F!FastStop
      <4>3. fastrtn'[c] = r BY <1>0, <4>2 DEF F!TypeOK
      <4> QED BY <3>3, <4>1, <4>2, <4>3 DEF F!Answers
    <3>4. fast = <<>> => \A i \in DOMAIN fast : FALSE OBVIOUS
    <3> QED BY <1>e, <3>1, <3>2, <3>3, <3>4, FsquSetting DEF Bare, Spilled
  <2>4. CASE F!Decide(c)
    <3>1. /\ pc'[c] = (IF want[c] = 0 \/ fastrtn[c] = "inflight" \/ novf = 0
                          THEN "idle" ELSE "lock")
          /\ \A x \in F!Threads : x # c => pc'[x] = pc[x]
      BY <1>0, <2>4, FsquSetting, Goes DEF F!Decide
    <3>2. UNCHANGED <<fast, qu, want, fastrtn>> BY <2>4 DEF F!Decide
    <3> QED BY <1>e, <3>1, <3>2, FsquSetting DEF Bare, Spilled
  <2>5. CASE F!PopLock(c)
    <3>1. pc'[c] = "refast" /\ \A x \in F!Threads : x # c => pc'[x] = pc[x]
      BY <1>0, <2>5, FsquSetting, Goes DEF F!PopLock
    <3>2. lck = Free BY <1>e, <2>5, FsquSetting DEF OneInside, F!PopLock
    <3>3. \A x \in Consumers : x # c => pc[x] # "drain" BY <1>e, <3>2, FsquSetting DEF OneInside
    <3> QED BY <3>1, <3>3, FsquSetting DEF Bare
  <2>6. CASE F!Drain(c)
    <3>1. pc'[c] = "count" /\ \A x \in F!Threads : x # c => pc'[x] = pc[x]
      BY <1>0, <2>6, FsquSetting, Goes DEF F!Drain
    <3>2. lck = c BY <1>e, <2>6, FsquSetting DEF OneInside, F!Drain
    <3>3. \A x \in Consumers : x # c => pc[x] # "drain" BY <1>e, <3>2, FsquSetting DEF OneInside
    <3> QED BY <3>1, <3>3, FsquSetting DEF Bare
  <2>7. CASE F!DrainCount(c)
    <3>1. pc'[c] = "idle" /\ \A x \in F!Threads : x # c => pc'[x] = pc[x]
      BY <1>0, <2>7, FsquSetting, Goes DEF F!DrainCount
    <3>2. lck = c BY <1>e, <2>7, FsquSetting DEF OneInside, F!DrainCount
    <3>3. \A x \in Consumers : x # c => pc[x] # "drain" BY <1>e, <3>2, FsquSetting DEF OneInside
    <3> QED BY <3>1, <3>3, FsquSetting DEF Bare
  <2>8. CASE F!DrainNot(c)
    <3>1. pc'[c] = "idle" /\ \A x \in F!Threads : x # c => pc'[x] = pc[x]
      BY <1>0, <2>8, FsquSetting, Goes DEF F!DrainNot
    <3>2. lck = c BY <1>e, <2>8, FsquSetting DEF OneInside, F!DrainNot
    <3>3. \A x \in Consumers : x # c => pc[x] # "drain" BY <1>e, <3>2, FsquSetting DEF OneInside
    <3> QED BY <3>1, <3>3, FsquSetting DEF Bare
  <2> QED BY <1>2, <2>1, <2>2, <2>3, <2>4, <2>5, <2>6, <2>7, <2>8 DEF F!Pop
<1>3. ASSUME NEW o \in Observers, F!LookFast(o) \/ F!LookNovf(o) PROVE Bare'
  <2>1. CASE F!LookFast(o)
    <3>1. /\ pc'[o] = (IF fast = <<>> THEN "look" ELSE "idle")
          /\ \A x \in F!Threads : x # o => pc'[x] = pc[x]
      BY <1>0, <2>1, FsquSetting, Goes DEF F!LookFast
    <3>2. UNCHANGED <<fast, qu, want, fastrtn>> BY <2>1 DEF F!LookFast
    <3> QED BY <1>e, <3>1, <3>2, FsquSetting DEF Bare, Spilled
  <2>2. CASE F!LookNovf(o)
    <3>1. /\ pc'[o] = (IF novf = 0 THEN "empty" ELSE "idle")
          /\ \A x \in F!Threads : x # o => pc'[x] = pc[x]
      BY <1>0, <2>2, FsquSetting, Goes DEF F!LookNovf
    <3>2. UNCHANGED <<fast, qu, want, fastrtn>> BY <2>2 DEF F!LookNovf
    <3> QED BY <1>e, <3>1, <3>2, FsquSetting DEF Bare, Spilled
  <2> QED BY <1>3, <2>1, <2>2
<1>4. CASE UNCHANGED F!vars BY <1>0, <1>e, <1>4 DEF F!vars, Bare, Spilled
<1> QED BY <1>1, <1>2, <1>3, <1>4 DEF F!Next


-----------------------------------------------------------------------------
(* The steps: what has been marked, and what an observer may say *)

\* The last number taken out never falls.
LEMMA LastRises ==
  ASSUME FsquInv, [F!Next]_(F!vars)
  PROVE  \A p \in Producers : last[p] <= last'[p] /\ last[p] \in Nat /\ last'[p] \in Nat
<1>0. FsquInv /\ F!TypeOK /\ F!TypeOK' /\ QueueKinds BY FsquTypesStep, QueueKindsStep DEF FsquInv
<1>e. /\ \A i \in DOMAIN fast : fast[i].by \in Producers /\ fast[i].n \in Nat
      /\ \A i \in DOMAIN qu : qu[i].by \in Producers /\ qu[i].n \in Nat
      /\ \A p \in Producers : last[p] \in Nat
      /\ Within(fast) /\ Within(qu) BY <1>0, Elements DEF FsquInv
<1>1. CASE last' = last BY <1>e, <1>1
<1>2. CASE TakeDoes
  <2>1. ASSUME NEW p \in Producers PROVE last[p] <= last'[p] /\ last[p] \in Nat /\ last'[p] \in Nat
    <3>1. CASE p = fast[1].by
      <4>1. last'[p] = fast[1].n /\ fast[1].n \in Nat /\ last[p] < fast[1].n
        BY <1>e, <1>2, <3>1 DEF TakeDoes, Within
      <4> QED BY <1>e, <4>1
    <3>2. CASE p # fast[1].by
      <4>1. last'[p] = last[p] BY <1>2, <3>2 DEF TakeDoes
      <4> QED BY <1>e, <4>1
    <3> QED BY <3>1, <3>2
  <2> QED BY <2>1
<1>3. ASSUME NEW m, DrainDoes(m)
      PROVE \A p \in Producers : last[p] <= last'[p] /\ last[p] \in Nat /\ last'[p] \in Nat
  <2>1. ASSUME NEW p \in Producers PROVE last[p] <= last'[p] /\ last[p] \in Nat /\ last'[p] \in Nat
    <3>1. CASE last'[p] = last[p] BY <1>e, <3>1
    <3>2. ASSUME NEW k \in DOMAIN qu, qu[k].by = p, last'[p] = qu[k].n
          PROVE last[p] <= last'[p] /\ last[p] \in Nat /\ last'[p] \in Nat
      <4>1. last[p] < qu[k].n /\ qu[k].n \in Nat BY <1>e, <3>2 DEF Within
      <4> QED BY <1>e, <3>2, <4>1
    <3> QED BY <1>3, <3>1, <3>2 DEF DrainDoes
  <2> QED BY <2>1
<1> QED BY <1>0, <1>1, <1>2, <1>3 DEF QueueKinds, ClaimDoes, PublishDoes, SpillDoes

\* What was pushed was sent, and what is marked was pushed.
Ended ==
  \A p \in Producers : done[p] <= sent[p] /\ \A o \in Observers : mark[o][p] <= done[p]
Seen ==
  \A o \in Observers : pc[o] = "look" => \A i \in DOMAIN fast : mark[o][fast[i].by] < fast[i].n

\* What was pushed was sent, and what is marked was pushed, after any step.
LEMMA EndedStep ==
  ASSUME FsquInv, [F!Next]_(F!vars)
  PROVE  Ended'
<1> USE DEF F!spill, F!takers
<1>0. FsquInv /\ F!TypeOK /\ F!TypeOK' BY FsquTypesStep DEF FsquInv
<1>e. /\ \A p \in Producers : sent[p] \in Nat /\ done[p] \in Nat
      /\ \A ob \in Observers, p \in Producers : mark[ob][p] \in Nat
      /\ Ended BY <1>0, Elements DEF FsquInv, Marked, Ended
<1>1. ASSUME NEW p \in Producers, F!Push(p) PROVE Ended'
  <2>1. ASSUME NEW n \in 1 .. MaxBatch, F!PushStart(p, n) PROVE Ended'
    <3>1. UNCHANGED <<sent, done, mark>> BY <2>1 DEF F!PushStart
    <3> QED BY <1>e, <3>1 DEF Ended
  <2>2. CASE F!TryStart(p)
    <3>1. UNCHANGED <<sent, done, mark>> BY <2>2 DEF F!TryStart
    <3> QED BY <1>e, <3>1 DEF Ended
  <2>3. CASE F!FastClaim(p)
    <3>1. sent'[p] = sent[p] + 1 /\ (\A x \in Producers : x # p => sent'[x] = sent[x])
          /\ done' = done /\ mark' = mark BY <1>0, <2>3 DEF F!FastClaim, F!TypeOK
    <3>2. \A x \in Producers : sent[x] <= sent'[x] /\ sent'[x] \in Nat BY <1>e, <3>1
    <3>3. ASSUME NEW x \in Producers PROVE done'[x] <= sent'[x]
      <4>1. done[x] <= sent[x] /\ sent[x] <= sent'[x] /\ sent'[x] \in Nat BY <1>e, <3>2 DEF Ended
      <4> QED BY <1>e, <3>1, <4>1
    <3> QED BY <1>e, <3>1, <3>3 DEF Ended
  <2>4. CASE F!FastPublish(p)
    <3>1. (done'[p] = sent[p] \/ done'[p] = done[p])
              /\ (\A x \in Producers : x # p => done'[x] = done[x])
          /\ sent' = sent /\ mark' = mark BY <1>0, <2>4 DEF F!FastPublish, F!TypeOK
    <3>2. \A x \in Producers : done[x] <= done'[x] /\ done'[x] <= sent[x] /\ done'[x] \in Nat
      BY <1>e, <3>1 DEF Ended
    <3>3. ASSUME NEW x \in Producers, NEW ob \in Observers PROVE mark[ob][x] <= done'[x]
      <4>1. mark[ob][x] <= done[x] /\ done[x] <= done'[x] /\ done'[x] \in Nat
        BY <1>e, <3>2 DEF Ended
      <4> QED BY <1>e, <4>1
    <3> QED BY <3>1, <3>2, <3>3 DEF Ended
  <2>5. CASE F!FastFull(p)
    <3>1. UNCHANGED <<sent, done, mark>> BY <2>5 DEF F!FastFull
    <3> QED BY <1>e, <3>1 DEF Ended
  <2>6. CASE F!TryFails(p)
    <3>1. UNCHANGED <<sent, done, mark>> BY <2>6 DEF F!TryFails
    <3> QED BY <1>e, <3>1 DEF Ended
  <2>7. CASE F!PushLock(p)
    <3>1. UNCHANGED <<sent, done, mark>> BY <2>7 DEF F!PushLock
    <3> QED BY <1>e, <3>1 DEF Ended
  <2>8. CASE F!PushSpill(p)
    <3>1. /\ sent'[p] = sent[p] + todo[p] /\ done'[p] = sent[p] + todo[p] /\ mark' = mark
          /\ \A x \in Producers : x # p => sent'[x] = sent[x] /\ done'[x] = done[x]
      BY <1>0, <2>8 DEF F!PushSpill, F!TypeOK
    <3>2. todo[p] \in Nat BY Bounded
    <3>3. done[p] <= done'[p] /\ done'[p] = sent'[p] /\ done'[p] \in Nat
      BY <1>e, <3>1, <3>2 DEF Ended
    <3>4. ASSUME NEW x \in Producers
      PROVE done'[x] <= sent'[x] /\ done[x] <= done'[x] /\ done'[x] \in Nat
      <4>1. CASE x = p BY <3>3, <4>1
      <4>2. CASE x # p BY <1>e, <3>1, <4>2 DEF Ended
      <4> QED BY <4>1, <4>2
    <3>5. ASSUME NEW x \in Producers, NEW ob \in Observers PROVE mark[ob][x] <= done'[x]
      <4>1. mark[ob][x] <= done[x] /\ done[x] <= done'[x] /\ done'[x] \in Nat
        BY <1>e, <3>4 DEF Ended
      <4> QED BY <1>e, <4>1
    <3> QED BY <3>1, <3>4, <3>5 DEF Ended
  <2> QED BY <1>1, <2>1, <2>2, <2>3, <2>4, <2>5, <2>6, <2>7, <2>8 DEF F!Push
<1>2. ASSUME NEW c \in Consumers, F!Pop(c) PROVE Ended'
  <2>1. ASSUME NEW n \in 1 .. MaxWant, F!PopStart(c, n) PROVE Ended'
    <3>1. UNCHANGED <<sent, done, mark>> BY <2>1 DEF F!PopStart
    <3> QED BY <1>e, <3>1 DEF Ended
  <2>2. CASE F!FastTake(c)
    <3>1. UNCHANGED <<sent, done, mark>> BY <2>2 DEF F!FastTake
    <3> QED BY <1>e, <3>1 DEF Ended
  <2>3. CASE F!FastStop(c)
    <3>1. UNCHANGED <<sent, done, mark>> BY <2>3 DEF F!FastStop
    <3> QED BY <1>e, <3>1 DEF Ended
  <2>4. CASE F!Decide(c)
    <3>1. UNCHANGED <<sent, done, mark>> BY <2>4 DEF F!Decide
    <3> QED BY <1>e, <3>1 DEF Ended
  <2>5. CASE F!PopLock(c)
    <3>1. UNCHANGED <<sent, done, mark>> BY <2>5 DEF F!PopLock
    <3> QED BY <1>e, <3>1 DEF Ended
  <2>6. CASE F!Drain(c)
    <3>1. UNCHANGED <<sent, done, mark>> BY <2>6 DEF F!Drain
    <3> QED BY <1>e, <3>1 DEF Ended
  <2>7. CASE F!DrainCount(c)
    <3>1. UNCHANGED <<sent, done, mark>> BY <2>7 DEF F!DrainCount
    <3> QED BY <1>e, <3>1 DEF Ended
  <2>8. CASE F!DrainNot(c)
    <3>1. UNCHANGED <<sent, done, mark>> BY <2>8 DEF F!DrainNot
    <3> QED BY <1>e, <3>1 DEF Ended
  <2> QED BY <1>2, <2>1, <2>2, <2>3, <2>4, <2>5, <2>6, <2>7, <2>8 DEF F!Pop
<1>3. ASSUME NEW o \in Observers, F!LookFast(o) \/ F!LookNovf(o) PROVE Ended'
  <2>1. CASE F!LookFast(o)
    <3>1. /\ mark'[o] = done
          /\ \A x \in Observers : x # o => mark'[x] = mark[x]
          /\ sent' = sent /\ done' = done BY <1>0, <2>1 DEF F!LookFast, F!TypeOK
    <3> QED BY <1>e, <3>1 DEF Ended
  <2>2. CASE F!LookNovf(o)
    <3>1. UNCHANGED <<sent, done, mark>> BY <2>2 DEF F!LookNovf
    <3> QED BY <1>e, <3>1 DEF Ended
  <2> QED BY <1>3, <2>1, <2>2
<1>4. CASE UNCHANGED F!vars BY <1>0, <1>e, <1>4 DEF F!vars, Ended
<1> QED BY <1>1, <1>2, <1>3, <1>4 DEF F!Next

\* What an observer has marked is not in the ring after its first look, after any step.
LEMMA SeenStep ==
  ASSUME FsquInv, [F!Next]_(F!vars)
  PROVE  Seen'
<1> USE DEF F!spill, F!takers
<1>0. FsquInv /\ F!TypeOK /\ F!TypeOK' BY FsquTypesStep DEF FsquInv
<1>e. /\ \A i \in DOMAIN fast : fast[i].by \in Producers /\ fast[i].n \in Nat
      /\ \A p \in Producers : sent[p] \in Nat /\ done[p] \in Nat
      /\ \A ob \in Observers, p \in Producers : mark[ob][p] \in Nat
      /\ Ended /\ Seen BY <1>0, Elements DEF FsquInv, Marked, Ended, Seen
<1>1. ASSUME NEW p \in Producers, F!Push(p) PROVE Seen'
  <2>1. ASSUME NEW n \in 1 .. MaxBatch, F!PushStart(p, n) PROVE Seen'
    <3>1. /\ pc'[p] = (IF novf = 0 THEN "fast" ELSE "lock")
          /\ \A x \in F!Threads : x # p => pc'[x] = pc[x]
      BY <1>0, <2>1, FsquSetting, Goes DEF F!PushStart
    <3>2. UNCHANGED <<fast, mark>> BY <2>1 DEF F!PushStart
    <3> QED BY <1>e, <3>1, <3>2, FsquSetting DEF Seen
  <2>2. CASE F!TryStart(p)
    <3>1. pc'[p] = "try" /\ \A x \in F!Threads : x # p => pc'[x] = pc[x]
      BY <1>0, <2>2, FsquSetting, Goes DEF F!TryStart
    <3>2. UNCHANGED <<fast, mark>> BY <2>2 DEF F!TryStart
    <3> QED BY <1>e, <3>1, <3>2, FsquSetting DEF Seen
  <2>3. CASE F!FastClaim(p)
    <3>1. pc'[p] = "publish" /\ \A x \in F!Threads : x # p => pc'[x] = pc[x]
      BY <1>0, <2>3, FsquSetting, Goes DEF F!FastClaim
    <3>2. ClaimDoes(p) BY <1>0, <2>3, ClaimEffect
    <3>3. mark' = mark BY <2>3 DEF F!FastClaim
    <3>4. ASSUME NEW ob \in Observers, pc[ob] = "look", NEW i \in DOMAIN fast'
          PROVE mark[ob][fast'[i].by] < fast'[i].n
      <4>1. CASE i \in DOMAIN fast BY <1>e, <3>2, <3>4, <4>1 DEF Seen, ClaimDoes
      <4>2. CASE i = Len(fast) + 1
        <5>1. fast'[i].by = p /\ fast'[i].n = sent[p] + 1 BY <3>2, <4>2 DEF ClaimDoes
        <5>2. mark[ob][p] <= done[p] /\ done[p] <= sent[p] BY <1>e DEF Ended
        <5>3. mark[ob][p] \in Nat /\ done[p] \in Nat /\ sent[p] \in Nat BY <1>e
        <5> QED BY <5>1, <5>2, <5>3
      <4> QED BY <3>2, <4>1, <4>2 DEF ClaimDoes
    <3> QED BY <3>1, <3>3, <3>4, FsquSetting DEF Seen
  <2>4. CASE F!FastPublish(p)
    <3>1. /\ pc'[p] = (IF todo[p] = 1 THEN "idle" ELSE "fast")
          /\ \A x \in F!Threads : x # p => pc'[x] = pc[x]
      BY <1>0, <2>4, FsquSetting, Goes DEF F!FastPublish
    <3>2. PublishDoes BY <1>0, <2>4, PublishEffect
    <3>3. mark' = mark BY <2>4 DEF F!FastPublish
    <3> QED BY <1>e, <3>1, <3>2, <3>3, FsquSetting DEF Seen, PublishDoes
  <2>5. CASE F!FastFull(p)
    <3>1. pc'[p] = "lock" /\ \A x \in F!Threads : x # p => pc'[x] = pc[x]
      BY <1>0, <2>5, FsquSetting, Goes DEF F!FastFull
    <3>2. UNCHANGED <<fast, mark>> BY <2>5 DEF F!FastFull
    <3> QED BY <1>e, <3>1, <3>2, FsquSetting DEF Seen
  <2>6. CASE F!TryFails(p)
    <3>1. pc'[p] = "idle" /\ \A x \in F!Threads : x # p => pc'[x] = pc[x]
      BY <1>0, <2>6, FsquSetting, Goes DEF F!TryFails
    <3>2. UNCHANGED <<fast, mark>> BY <2>6 DEF F!TryFails
    <3> QED BY <1>e, <3>1, <3>2, FsquSetting DEF Seen
  <2>7. CASE F!PushLock(p)
    <3>1. pc'[p] = "spill" /\ \A x \in F!Threads : x # p => pc'[x] = pc[x]
      BY <1>0, <2>7, FsquSetting, Goes DEF F!PushLock
    <3>2. UNCHANGED <<fast, mark>> BY <2>7 DEF F!PushLock
    <3> QED BY <1>e, <3>1, <3>2, FsquSetting DEF Seen
  <2>8. CASE F!PushSpill(p)
    <3>1. pc'[p] = "idle" /\ \A x \in F!Threads : x # p => pc'[x] = pc[x]
      BY <1>0, <2>8, FsquSetting, Goes DEF F!PushSpill
    <3>2. UNCHANGED <<fast, mark>> BY <2>8 DEF F!PushSpill
    <3> QED BY <1>e, <3>1, <3>2, FsquSetting DEF Seen
  <2> QED BY <1>1, <2>1, <2>2, <2>3, <2>4, <2>5, <2>6, <2>7, <2>8 DEF F!Push
<1>2. ASSUME NEW c \in Consumers, F!Pop(c) PROVE Seen'
  <2>1. ASSUME NEW n \in 1 .. MaxWant, F!PopStart(c, n) PROVE Seen'
    <3>1. pc'[c] = "fast" /\ \A x \in F!Threads : x # c => pc'[x] = pc[x]
      BY <1>0, <2>1, FsquSetting, Goes DEF F!PopStart
    <3>2. UNCHANGED <<fast, mark>> BY <2>1 DEF F!PopStart
    <3> QED BY <1>e, <3>1, <3>2, FsquSetting DEF Seen
  <2>2. CASE F!FastTake(c)
    <3>1. TakeDoes BY <1>0, <2>2, TakeEffect
    <3>2. pc' = pc /\ mark' = mark BY <2>2 DEF F!FastTake
    <3> QED BY <1>e, <3>1, <3>2 DEF Seen, TakeDoes
  <2>3. CASE F!FastStop(c)
    <3>1. /\ pc'[c] = (IF pc[c] = "fast" THEN "decide" ELSE "drain")
          /\ \A x \in F!Threads : x # c => pc'[x] = pc[x]
      BY <1>0, <2>3, FsquSetting, Goes DEF F!FastStop
    <3>2. UNCHANGED <<fast, mark>> BY <2>3 DEF F!FastStop
    <3> QED BY <1>e, <3>1, <3>2, FsquSetting DEF Seen
  <2>4. CASE F!Decide(c)
    <3>1. /\ pc'[c] = (IF want[c] = 0 \/ fastrtn[c] = "inflight" \/ novf = 0
                          THEN "idle" ELSE "lock")
          /\ \A x \in F!Threads : x # c => pc'[x] = pc[x]
      BY <1>0, <2>4, FsquSetting, Goes DEF F!Decide
    <3>2. UNCHANGED <<fast, mark>> BY <2>4 DEF F!Decide
    <3> QED BY <1>e, <3>1, <3>2, FsquSetting DEF Seen
  <2>5. CASE F!PopLock(c)
    <3>1. pc'[c] = "refast" /\ \A x \in F!Threads : x # c => pc'[x] = pc[x]
      BY <1>0, <2>5, FsquSetting, Goes DEF F!PopLock
    <3>2. UNCHANGED <<fast, mark>> BY <2>5 DEF F!PopLock
    <3> QED BY <1>e, <3>1, <3>2, FsquSetting DEF Seen
  <2>6. CASE F!Drain(c)
    <3>1. pc'[c] = "count" /\ \A x \in F!Threads : x # c => pc'[x] = pc[x]
      BY <1>0, <2>6, FsquSetting, Goes DEF F!Drain
    <3>2. UNCHANGED <<fast, mark>> BY <2>6 DEF F!Drain
    <3> QED BY <1>e, <3>1, <3>2, FsquSetting DEF Seen
  <2>7. CASE F!DrainCount(c)
    <3>1. pc'[c] = "idle" /\ \A x \in F!Threads : x # c => pc'[x] = pc[x]
      BY <1>0, <2>7, FsquSetting, Goes DEF F!DrainCount
    <3>2. UNCHANGED <<fast, mark>> BY <2>7 DEF F!DrainCount
    <3> QED BY <1>e, <3>1, <3>2, FsquSetting DEF Seen
  <2>8. CASE F!DrainNot(c)
    <3>1. pc'[c] = "idle" /\ \A x \in F!Threads : x # c => pc'[x] = pc[x]
      BY <1>0, <2>8, FsquSetting, Goes DEF F!DrainNot
    <3>2. UNCHANGED <<fast, mark>> BY <2>8 DEF F!DrainNot
    <3> QED BY <1>e, <3>1, <3>2, FsquSetting DEF Seen
  <2> QED BY <1>2, <2>1, <2>2, <2>3, <2>4, <2>5, <2>6, <2>7, <2>8 DEF F!Pop
<1>3. ASSUME NEW o \in Observers, F!LookFast(o) \/ F!LookNovf(o) PROVE Seen'
  <2>1. CASE F!LookFast(o)
    <3>1. /\ pc'[o] = (IF fast = <<>> THEN "look" ELSE "idle")
          /\ \A x \in F!Threads : x # o => pc'[x] = pc[x]
      BY <1>0, <2>1, FsquSetting, Goes DEF F!LookFast
    <3>2. fast' = fast /\ \A x \in Observers : x # o => mark'[x] = mark[x]
      BY <1>0, <2>1 DEF F!LookFast, F!TypeOK
    <3>3. fast = <<>> => \A i \in DOMAIN fast : FALSE OBVIOUS
    <3> QED BY <1>e, <3>1, <3>2, <3>3, FsquSetting DEF Seen
  <2>2. CASE F!LookNovf(o)
    <3>1. /\ pc'[o] = (IF novf = 0 THEN "empty" ELSE "idle")
          /\ \A x \in F!Threads : x # o => pc'[x] = pc[x]
      BY <1>0, <2>2, FsquSetting, Goes DEF F!LookNovf
    <3>2. UNCHANGED <<fast, mark>> BY <2>2 DEF F!LookNovf
    <3> QED BY <1>e, <3>1, <3>2, FsquSetting DEF Seen
  <2> QED BY <1>3, <2>1, <2>2
<1>4. CASE UNCHANGED F!vars BY <1>0, <1>e, <1>4 DEF F!vars, Seen
<1> QED BY <1>1, <1>2, <1>3, <1>4 DEF F!Next

\* Who finds the queue empty is right, after any step.
LEMMA EmptySoundStep ==
  ASSUME FsquInv, [F!Next]_(F!vars)
  PROVE  F!EmptySound'
<1> USE DEF F!spill, F!takers
<1>0. FsquInv /\ F!TypeOK /\ F!TypeOK' BY FsquTypesStep DEF FsquInv
<1>e. /\ \A p \in Producers : last[p] <= last'[p] /\ last[p] \in Nat /\ last'[p] \in Nat
      /\ \A ob \in Observers, p \in Producers : mark[ob][p] \in Nat
      /\ F!EmptySound BY <1>0, Elements, LastRises DEF FsquInv
<1>f. /\ \A p \in Producers : sent[p] \in Nat /\ done[p] \in Nat
      /\ Ended /\ Seen /\ Whole BY <1>0, Elements DEF FsquInv, Marked, Ended, Seen
<1>g. ASSUME mark' = mark, \A ob \in Observers : pc'[ob] = pc[ob] PROVE F!EmptySound'
  <2>1. ASSUME NEW ob \in Observers, pc[ob] = "empty", NEW p \in Producers
        PROVE mark[ob][p] <= last'[p]
    <3>1. mark[ob][p] <= last[p] BY <1>e, <2>1 DEF F!EmptySound
    <3> QED BY <1>e, <3>1
  <2> QED BY <1>g, <2>1 DEF F!EmptySound
<1>1. ASSUME NEW p \in Producers, F!Push(p) PROVE F!EmptySound'
  <2>1. ASSUME NEW n \in 1 .. MaxBatch, F!PushStart(p, n) PROVE F!EmptySound'
    <3>1. /\ pc'[p] = (IF novf = 0 THEN "fast" ELSE "lock")
          /\ \A x \in F!Threads : x # p => pc'[x] = pc[x]
      BY <1>0, <2>1, FsquSetting, Goes DEF F!PushStart
    <3>2. mark' = mark BY <2>1 DEF F!PushStart
    <3>3. \A ob \in Observers : pc'[ob] = pc[ob] BY <3>1, FsquSetting
    <3> QED BY <1>e, <1>g, <3>2, <3>3
  <2>2. CASE F!TryStart(p)
    <3>1. pc'[p] = "try" /\ \A x \in F!Threads : x # p => pc'[x] = pc[x]
      BY <1>0, <2>2, FsquSetting, Goes DEF F!TryStart
    <3>2. mark' = mark BY <2>2 DEF F!TryStart
    <3>3. \A ob \in Observers : pc'[ob] = pc[ob] BY <3>1, FsquSetting
    <3> QED BY <1>e, <1>g, <3>2, <3>3
  <2>3. CASE F!FastClaim(p)
    <3>1. pc'[p] = "publish" /\ \A x \in F!Threads : x # p => pc'[x] = pc[x]
      BY <1>0, <2>3, FsquSetting, Goes DEF F!FastClaim
    <3>2. mark' = mark BY <2>3 DEF F!FastClaim
    <3>3. \A ob \in Observers : pc'[ob] = pc[ob] BY <3>1, FsquSetting
    <3> QED BY <1>e, <1>g, <3>2, <3>3
  <2>4. CASE F!FastPublish(p)
    <3>1. /\ pc'[p] = (IF todo[p] = 1 THEN "idle" ELSE "fast")
          /\ \A x \in F!Threads : x # p => pc'[x] = pc[x]
      BY <1>0, <2>4, FsquSetting, Goes DEF F!FastPublish
    <3>2. mark' = mark BY <2>4 DEF F!FastPublish
    <3>3. \A ob \in Observers : pc'[ob] = pc[ob] BY <3>1, FsquSetting
    <3> QED BY <1>e, <1>g, <3>2, <3>3
  <2>5. CASE F!FastFull(p)
    <3>1. pc'[p] = "lock" /\ \A x \in F!Threads : x # p => pc'[x] = pc[x]
      BY <1>0, <2>5, FsquSetting, Goes DEF F!FastFull
    <3>2. mark' = mark BY <2>5 DEF F!FastFull
    <3>3. \A ob \in Observers : pc'[ob] = pc[ob] BY <3>1, FsquSetting
    <3> QED BY <1>e, <1>g, <3>2, <3>3
  <2>6. CASE F!TryFails(p)
    <3>1. pc'[p] = "idle" /\ \A x \in F!Threads : x # p => pc'[x] = pc[x]
      BY <1>0, <2>6, FsquSetting, Goes DEF F!TryFails
    <3>2. mark' = mark BY <2>6 DEF F!TryFails
    <3>3. \A ob \in Observers : pc'[ob] = pc[ob] BY <3>1, FsquSetting
    <3> QED BY <1>e, <1>g, <3>2, <3>3
  <2>7. CASE F!PushLock(p)
    <3>1. pc'[p] = "spill" /\ \A x \in F!Threads : x # p => pc'[x] = pc[x]
      BY <1>0, <2>7, FsquSetting, Goes DEF F!PushLock
    <3>2. mark' = mark BY <2>7 DEF F!PushLock
    <3>3. \A ob \in Observers : pc'[ob] = pc[ob] BY <3>1, FsquSetting
    <3> QED BY <1>e, <1>g, <3>2, <3>3
  <2>8. CASE F!PushSpill(p)
    <3>1. pc'[p] = "idle" /\ \A x \in F!Threads : x # p => pc'[x] = pc[x]
      BY <1>0, <2>8, FsquSetting, Goes DEF F!PushSpill
    <3>2. mark' = mark BY <2>8 DEF F!PushSpill
    <3>3. \A ob \in Observers : pc'[ob] = pc[ob] BY <3>1, FsquSetting
    <3> QED BY <1>e, <1>g, <3>2, <3>3
  <2> QED BY <1>1, <2>1, <2>2, <2>3, <2>4, <2>5, <2>6, <2>7, <2>8 DEF F!Push
<1>2. ASSUME NEW c \in Consumers, F!Pop(c) PROVE F!EmptySound'
  <2>1. ASSUME NEW n \in 1 .. MaxWant, F!PopStart(c, n) PROVE F!EmptySound'
    <3>1. pc'[c] = "fast" /\ \A x \in F!Threads : x # c => pc'[x] = pc[x]
      BY <1>0, <2>1, FsquSetting, Goes DEF F!PopStart
    <3>2. mark' = mark BY <2>1 DEF F!PopStart
    <3>3. \A ob \in Observers : pc'[ob] = pc[ob] BY <3>1, FsquSetting
    <3> QED BY <1>e, <1>g, <3>2, <3>3
  <2>2. CASE F!FastTake(c)
    <3>2. mark' = mark /\ pc' = pc BY <2>2 DEF F!FastTake
    <3> QED BY <1>g, <3>2
  <2>3. CASE F!FastStop(c)
    <3>1. /\ pc'[c] = (IF pc[c] = "fast" THEN "decide" ELSE "drain")
          /\ \A x \in F!Threads : x # c => pc'[x] = pc[x]
      BY <1>0, <2>3, FsquSetting, Goes DEF F!FastStop
    <3>2. mark' = mark BY <2>3 DEF F!FastStop
    <3>3. \A ob \in Observers : pc'[ob] = pc[ob] BY <3>1, FsquSetting
    <3> QED BY <1>e, <1>g, <3>2, <3>3
  <2>4. CASE F!Decide(c)
    <3>1. /\ pc'[c] = (IF want[c] = 0 \/ fastrtn[c] = "inflight" \/ novf = 0
                          THEN "idle" ELSE "lock")
          /\ \A x \in F!Threads : x # c => pc'[x] = pc[x]
      BY <1>0, <2>4, FsquSetting, Goes DEF F!Decide
    <3>2. mark' = mark BY <2>4 DEF F!Decide
    <3>3. \A ob \in Observers : pc'[ob] = pc[ob] BY <3>1, FsquSetting
    <3> QED BY <1>e, <1>g, <3>2, <3>3
  <2>5. CASE F!PopLock(c)
    <3>1. pc'[c] = "refast" /\ \A x \in F!Threads : x # c => pc'[x] = pc[x]
      BY <1>0, <2>5, FsquSetting, Goes DEF F!PopLock
    <3>2. mark' = mark BY <2>5 DEF F!PopLock
    <3>3. \A ob \in Observers : pc'[ob] = pc[ob] BY <3>1, FsquSetting
    <3> QED BY <1>e, <1>g, <3>2, <3>3
  <2>6. CASE F!Drain(c)
    <3>1. pc'[c] = "count" /\ \A x \in F!Threads : x # c => pc'[x] = pc[x]
      BY <1>0, <2>6, FsquSetting, Goes DEF F!Drain
    <3>2. mark' = mark BY <2>6 DEF F!Drain
    <3>3. \A ob \in Observers : pc'[ob] = pc[ob] BY <3>1, FsquSetting
    <3> QED BY <1>e, <1>g, <3>2, <3>3
  <2>7. CASE F!DrainCount(c)
    <3>1. pc'[c] = "idle" /\ \A x \in F!Threads : x # c => pc'[x] = pc[x]
      BY <1>0, <2>7, FsquSetting, Goes DEF F!DrainCount
    <3>2. mark' = mark BY <2>7 DEF F!DrainCount
    <3>3. \A ob \in Observers : pc'[ob] = pc[ob] BY <3>1, FsquSetting
    <3> QED BY <1>e, <1>g, <3>2, <3>3
  <2>8. CASE F!DrainNot(c)
    <3>1. pc'[c] = "idle" /\ \A x \in F!Threads : x # c => pc'[x] = pc[x]
      BY <1>0, <2>8, FsquSetting, Goes DEF F!DrainNot
    <3>2. mark' = mark BY <2>8 DEF F!DrainNot
    <3>3. \A ob \in Observers : pc'[ob] = pc[ob] BY <3>1, FsquSetting
    <3> QED BY <1>e, <1>g, <3>2, <3>3
  <2> QED BY <1>2, <2>1, <2>2, <2>3, <2>4, <2>5, <2>6, <2>7, <2>8 DEF F!Pop
<1>3. ASSUME NEW o \in Observers, F!LookFast(o) \/ F!LookNovf(o) PROVE F!EmptySound'
  <2>1. CASE F!LookFast(o)
    <3>1. /\ pc'[o] = (IF fast = <<>> THEN "look" ELSE "idle")
          /\ \A x \in F!Threads : x # o => pc'[x] = pc[x]
      BY <1>0, <2>1, FsquSetting, Goes DEF F!LookFast
    <3>2. last' = last /\ \A x \in Observers : x # o => mark'[x] = mark[x]
      BY <1>0, <2>1 DEF F!LookFast, F!TypeOK
    <3>3. pc'[o] # "empty" BY <3>1
    <3> QED BY <1>e, <3>1, <3>2, <3>3, FsquSetting DEF F!EmptySound
  <2>2. CASE F!LookNovf(o)
    <3>1. /\ pc'[o] = (IF novf = 0 THEN "empty" ELSE "idle")
          /\ \A x \in F!Threads : x # o => pc'[x] = pc[x]
      BY <1>0, <2>2, FsquSetting, Goes DEF F!LookNovf
    <3>2. mark' = mark /\ last' = last BY <2>2 DEF F!LookNovf
    <3>3. ASSUME pc'[o] = "empty", NEW x \in Producers PROVE mark[o][x] <= last[x]
      <4>1. SUFFICES ASSUME ~ (mark[o][x] <= last[x]) PROVE FALSE OBVIOUS
      <4>2. pc[o] = "look" /\ novf = 0 BY <3>1, <3>3, <2>2 DEF F!LookNovf
      <4>3. mark[o][x] <= sent[x]
        <5>1. mark[o][x] <= done[x] /\ done[x] <= sent[x] BY <1>f DEF Ended
        <5> QED BY <1>e, <1>f, <5>1
      <4>4. mark[o][x] \in last[x] + 1 .. sent[x] BY <1>e, <1>f, <4>1, <4>3
      <4>5. Queued(x, mark[o][x]) BY <1>f, <4>4 DEF Whole
      <4>6. ASSUME NEW i \in DOMAIN fast, fast[i].by = x, fast[i].n = mark[o][x] PROVE FALSE
        <5>1. mark[o][x] < fast[i].n BY <1>f, <4>2, <4>6 DEF Seen
        <5>2. mark[o][x] \in Nat BY <1>e
        <5> QED BY <4>6, <5>1, <5>2
      <4>7. \A i \in DOMAIN qu : FALSE BY <1>0, <4>2, Elements DEF F!TypeOK
      <4> QED BY <4>5, <4>6, <4>7 DEF Queued
    <3>4. ASSUME NEW ob \in Observers, ob # o, pc'[ob] = "empty", NEW x \in Producers
          PROVE mark[ob][x] <= last[x]
      <4>1. pc[ob] = "empty" BY <3>1, <3>4, FsquSetting
      <4> QED BY <1>e, <4>1 DEF F!EmptySound
    <3> QED BY <3>2, <3>3, <3>4 DEF F!EmptySound
  <2> QED BY <1>3, <2>1, <2>2
<1>4. CASE UNCHANGED F!vars BY <1>e, <1>4 DEF F!vars, F!EmptySound
<1> QED BY <1>1, <1>2, <1>3, <1>4 DEF F!Next

-----------------------------------------------------------------------------
(* The theorems *)

\* The invariant holds at first.
LEMMA FsquInit == ASSUME F!Init PROVE FsquInv
<1> USE DEF F!Init
<1>1. fast = <<>> /\ qu = <<>> /\ novf = 0 /\ lck = Free BY DEF F!Init
<1>2. PICK U : pc = [th \in F!Threads |-> IF th \in Consumers \ U THEN "off" ELSE "idle"]
  BY DEF F!Init
<1>3. /\ Len(fast) = 0 /\ Len(qu) = 0 /\ 0 \in F!Numbers /\ 0 \in 0 .. MaxBatch
          /\ 0 \in 0 .. MaxWant
      /\ \A i \in DOMAIN fast : FALSE
      /\ \A i \in DOMAIN qu : FALSE
  BY <1>1, FsquSetting DEF F!Numbers
<1>4. /\ todo = [p \in Producers |-> 0] /\ want = [c \in Consumers |-> 0]
      /\ fastrtn = [c \in Consumers |-> "ok"]
                /\ mark = [o \in Observers |-> [p \in Producers |-> 0]]
      /\ sent = [p \in Producers |-> 0] /\ done = [p \in Producers |-> 0]
      /\ last = [p \in Producers |-> 0]
  BY DEF F!Init
<1>5. F!TypeOK
  <2>1. fast \in Seq(RingCells) /\ Len(fast) <= FastCap /\ qu \in Seq(Items)
    BY <1>1, <1>3, FsquSetting
  <2>2. pc \in [F!Threads -> {"off", "idle"}] BY <1>2
  <2>3. /\ todo \in [Producers -> 0 .. MaxBatch] /\ want \in [Consumers -> 0 .. MaxWant]
        /\ fastrtn \in [Consumers -> {"ok", "empty", "inflight"}]
        /\ mark \in [Observers -> [Producers -> F!Numbers]]
        /\ sent \in [Producers -> F!Numbers] /\ done \in [Producers -> F!Numbers]
        /\ last \in [Producers -> F!Numbers]
    BY <1>3, <1>4
  <2>4. novf \in Nat /\ novf >= Len(qu) /\ lck \in F!Threads \cup {Free} BY <1>1, <1>3
  <2>5. pc \in [F!Threads -> {"off", "idle", "fast", "try", "publish", "lock", "spill", "decide",
                             "refast", "drain", "count", "look", "empty"}] BY <2>2
  <2> QED BY <2>1, <2>3, <2>4, <2>5 DEF F!TypeOK, RingCells, Items
<1>6. \A th \in F!Threads : pc[th] \in {"off", "idle"} BY <1>2
<1>7. \A th \in Producers \cup Observers : pc[th] = "idle" BY <1>2, FsquSetting
<1>8. AtWork BY <1>6, <1>7, FsquSetting DEF AtWork
<1>9. OneInside /\ SpillCounted BY <1>1, <1>3, <1>6, FsquSetting DEF OneInside, SpillCounted
<1>10. Straight /\ Bare BY <1>3 DEF Straight, Bare, Spilled
<1>11. Within(fast) /\ Within(qu) /\ Rising(fast) /\ Rising(qu) /\ RingFirst
  BY <1>3 DEF Within, Rising, RingFirst
<1>12. Whole /\ Marked /\ F!EmptySound
  <2>1. \A p \in Producers : sent[p] = 0 /\ last[p] = 0 /\ done[p] = 0
        /\ \A o \in Observers : mark[o][p] = 0 BY <1>4
  <2>2. \A n \in 0 + 1 .. 0 : FALSE OBVIOUS
  <2>3. Whole BY <2>1, <2>2 DEF Whole
  <2>4. Marked BY <1>3, <2>1 DEF Marked
  <2>5. F!EmptySound BY <2>1 DEF F!EmptySound
  <2> QED BY <2>3, <2>4, <2>5
<1> QED BY <1>5, <1>8, <1>9, <1>10, <1>11, <1>12 DEF FsquInv

\* It holds after any step.
LEMMA FsquStep == ASSUME FsquInv, [F!Next]_(F!vars) PROVE FsquInv'
<1>1. F!TypeOK' /\ AtWork' /\ OneInside' /\ SpillCounted' /\ Straight' /\ Bare'
  BY FsquTypesStep, AtWorkStep, OneInsideStep, SpillCountedStep, StraightStep, BareStep
<1>2. /\ Within(fast)' /\ Within(qu)' /\ Rising(fast)' /\ Rising(qu)' /\ RingFirst' /\ Whole'
  BY RingWithinStep, SpillWithinStep, RingRisingStep, SpillRisingStep, RingFirstStep, WholeStep
<1>3. Marked' /\ F!EmptySound'
  <2>1. Ended' /\ Seen' BY EndedStep, SeenStep
  <2> QED BY <2>1, EmptySoundStep DEF Marked, Ended, Seen
<1> QED BY <1>1, <1>2, <1>3 DEF FsquInv

\* The invariant of the queue, always.
LEMMA FsquAlways == F!Spec => []FsquInv
<1>1. F!Init => FsquInv BY FsquInit
<1>2. FsquInv /\ [F!Next]_(F!vars) => FsquInv' BY FsquStep
<1> QED BY <1>1, <1>2, PTL DEF F!Spec

\* What is queued is what is left, in order.
LEMMA InOrderHolds == ASSUME FsquInv PROVE InOrder
<1>0. F!TypeOK /\ Within(fast) /\ Within(qu) /\ Rising(fast) /\ Rising(qu) /\ RingFirst /\ Whole
  BY DEF FsquInv
<1>e. /\ fast \in Seq(RingCells) /\ qu \in Seq(Items)
      /\ \A i \in DOMAIN fast : i \in Nat /\ i >= 1 /\ fast[i].by \in Producers /\ fast[i].n \in Nat
      /\ \A i \in DOMAIN qu : i \in Nat /\ i >= 1 /\ qu[i].by \in Producers /\ qu[i].n \in Nat
      /\ \A p \in Producers : last[p] \in Nat /\ sent[p] \in Nat
  BY <1>0, Elements
<1> DEFINE rest == fast \o qu
<1>1. rest = fast \o qu OBVIOUS
<1> HIDE DEF rest
<1>2. /\ Len(fast) \in Nat
      /\ \A i \in DOMAIN fast : i \in DOMAIN rest /\ rest[i] = fast[i] /\ i <= Len(fast)
      /\ \A i \in DOMAIN qu : i + Len(fast) \in DOMAIN rest /\ rest[i + Len(fast)] = qu[i]
      /\ \A i \in DOMAIN rest : i \in Nat
      /\ \A i \in DOMAIN rest : i \notin DOMAIN fast =>
           i > Len(fast) /\ i - Len(fast) \in DOMAIN qu /\ rest[i] = qu[i - Len(fast)]
  <2>1. fast \in Seq(RingCells \cup Items) /\ qu \in Seq(RingCells \cup Items) BY <1>e
  <2> QED BY <1>1, <2>1, TwoSeqs
<1>3. ASSUME NEW p \in Producers, NEW mine, mine = {i \in DOMAIN rest : rest[i].by = p}
      PROVE  /\ {rest[i].n : i \in mine} = last[p] + 1 .. sent[p]
             /\ \A i, j \in mine : i < j => rest[i].n < rest[j].n
  <2>1. ASSUME NEW i \in mine PROVE rest[i].n \in last[p] + 1 .. sent[p]
    <3>1. CASE i \in DOMAIN fast
      <4>1. rest[i] = fast[i] /\ fast[i].by = p BY <1>2, <1>3, <2>1, <3>1
      <4>2. last[p] < fast[i].n /\ fast[i].n <= sent[p] BY <1>0, <3>1, <4>1 DEF Within
      <4> QED BY <1>e, <3>1, <4>1, <4>2
    <3>2. CASE i \notin DOMAIN fast
      <4>1. PICK k : k = i - Len(fast) OBVIOUS
      <4>2. k \in DOMAIN qu /\ rest[i] = qu[k] /\ qu[k].by = p BY <1>2, <1>3, <2>1, <3>2, <4>1
      <4>3. last[p] < qu[k].n /\ qu[k].n <= sent[p] BY <1>0, <4>2 DEF Within
      <4> QED BY <1>e, <4>2, <4>3
    <3> QED BY <3>1, <3>2
  <2>2. ASSUME NEW n \in last[p] + 1 .. sent[p] PROVE \E i \in mine : rest[i].n = n
    <3>1. Queued(p, n) BY <1>0 DEF Whole
    <3>2. ASSUME NEW i \in DOMAIN fast, fast[i].by = p, fast[i].n = n
          PROVE \E j \in mine : rest[j].n = n
      BY <1>2, <1>3, <3>2
    <3>3. ASSUME NEW i \in DOMAIN qu, qu[i].by = p, qu[i].n = n
          PROVE \E j \in mine : rest[j].n = n
      BY <1>2, <1>3, <3>3
    <3> QED BY <3>1, <3>2, <3>3 DEF Queued
  <2>3. ASSUME NEW i \in mine, NEW j \in mine, i < j PROVE rest[i].n < rest[j].n
    <3>0. i \in DOMAIN rest /\ j \in DOMAIN rest /\ rest[i].by = p /\ rest[j].by = p BY <1>3
    <3>1. CASE i \in DOMAIN fast /\ j \in DOMAIN fast BY <1>0, <1>2, <2>3, <3>0, <3>1 DEF Rising
    <3>2. CASE i \in DOMAIN fast /\ j \notin DOMAIN fast BY <1>0, <1>2, <3>0, <3>2 DEF RingFirst
    <3>3. CASE i \notin DOMAIN fast /\ j \notin DOMAIN fast
      <4>1. PICK k, l : k = i - Len(fast) /\ l = j - Len(fast) OBVIOUS
      <4>2. k \in DOMAIN qu /\ rest[i] = qu[k] /\ l \in DOMAIN qu /\ rest[j] = qu[l]
        BY <1>2, <3>0, <3>3, <4>1
      <4>3. i \in Nat /\ j \in Nat BY <1>2, <3>0
      <4>4. k < l BY <1>2, <2>3, <4>1, <4>3
      <4> QED BY <1>0, <3>0, <4>2, <4>4 DEF Rising
    <3>4. CASE i \notin DOMAIN fast /\ j \in DOMAIN fast
      <4>1. i > Len(fast) /\ j <= Len(fast) /\ i \in Nat /\ j \in Nat BY <1>2, <3>0, <3>4
      <4> QED BY <1>2, <2>3, <4>1
    <3> QED BY <3>1, <3>2, <3>3, <3>4
  <2> QED BY <2>1, <2>2, <2>3
<1>4. ASSUME NEW p \in Producers
      PROVE  /\ {rest[i].n : i \in {i \in DOMAIN rest : rest[i].by = p}} = last[p] + 1 .. sent[p]
             /\ \A i, j \in {i \in DOMAIN rest : rest[i].by = p} : i < j => rest[i].n < rest[j].n
  <2>1. PICK mine : mine = {i \in DOMAIN rest : rest[i].by = p} OBVIOUS
  <2> QED BY <1>3, <2>1
<1> QED BY <1>4, Zenon DEF rest, InOrder, F!InOrder

\* Every variable of the queue keeps its type.
THEOREM FsquTypesCorrect == F!Spec => []F!TypeOK
<1>1. FsquInv => F!TypeOK BY DEF FsquInv
<1> QED BY <1>1, FsquAlways, PTL

\* Each producer's elements are taken in its order, none lost and none twice, by whichever
\* of the two queues they went.
THEOREM InOrderCorrect == F!Spec => []InOrder
<1>1. FsquInv => InOrder BY InOrderHolds
<1> QED BY <1>1, FsquAlways, PTL

\* A queue said to be empty has given out all that was pushed when the look began.
THEOREM EmptySoundCorrect == F!Spec => []EmptySound
<1>1. FsquInv => EmptySound BY DEF FsquInv, EmptySound
<1> QED BY <1>1, FsquAlways, PTL
===============================================================================
