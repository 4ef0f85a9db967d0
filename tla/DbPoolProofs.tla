------------------------------ MODULE DbPoolProofs ------------------------------
(***************************************************************************)
(* Proof that the connection pool gives a connection to one borrower at a  *)
(* time, is destroyed once, by the last that leaves it and with every      *)
(* connection down, and strands no waiter: for any number of coroutines    *)
(* and connections.                                                        *)
(***************************************************************************)
EXTENDS DbPool, SequenceTheorems, FiniteSetTheorems, TLAPS

\* Who is on the stack of contexts, who waits in the queue, and who is still to be
\* woken by a wake_all.
On == ToSet(run)
Queued == ToSet(queue)
Listed(y) == ToSet(waking[y])

\* Where a borrower can be, and where the maintenance.
Roles ==
  /\ \A x \in Users : at[x] \in {"out", "hold", "get", "wait", "woke", "renew", "connect", "ping",
                                 "failquit", "reset", "putquit", "wakeall", "free", "freeidle",
                                 "freequit"}
  /\ at[Tick] \in {"none", "off", "forked", "top", "tick", "round", "fill", "gone", "hold",
                   "renew", "connect", "ping", "failquit", "reset", "putquit", "reapquit",
                   "wakeall"}

\* The dispatcher is at the bottom of the stack, and nobody stands there twice.
Stack == run # <<>> /\ run[1] = Main /\ IsInjective(run)

\* Who sleeps is not on the stack, so that it can be resumed; who was woken, or
\* looks for a connection, runs.
Where ==
  \A x \in Coros :
    /\ at[x] \in {"wait", "none", "off", "forked", "tick", "gone"} => x \notin On
    /\ at[x] \in {"wakeall", "free"} => x \in On
    /\ at[x] \in {"get", "woke"} => Top = x

\* Nobody stands in a queue or a list twice.
Standing == IsInjective(queue) /\ \A y \in Coros : IsInjective(waking[y])

\* A waiter stands in the queue or in one list of those to be woken.
Queues ==
  /\ \A x \in Users : at[x] = "wait" <=> x \in Queued \/ \E y \in Coros : x \in Listed(y)
  /\ \A y \in Coros : Queued \cap Listed(y) = {}
  /\ \A y, z \in Coros : y # z => Listed(y) \cap Listed(z) = {}
  /\ \A y \in Coros : Listed(y) # {} => at[y] \in {"wakeall", "free"}
  /\ closed => Queued = {}

\* Who has a connection in hand, alone.
InHand == {"hold", "renew", "connect", "ping", "failquit", "reset", "putquit", "reapquit",
           "freequit"}
Hands ==
  /\ \A x \in Coros : /\ at[x] \in InHand => con[x] # Nil
                      /\ con[x] # Nil => at[x] \in InHand \cup {"woke"}
                      /\ con[x] # Nil /\ at[x] = "woke" => ~closed
                      /\ con[x] # Nil => con[x] \in added \ idle
  /\ \A x, y \in Coros : con[x] # Nil /\ con[x] = con[y] => x = y

\* The pool is closed by one free, which ends with free_pending and no idle
\* connection; nobody looks for a connection in a closed pool.
Freeing == {"free", "freeidle", "freequit"}
Closing ==
  /\ \A x \in Coros : /\ at[x] \in Freeing => closed /\ ~free_pending
                      /\ at[x] = "get" => ~closed
                      /\ at[x] = "failquit" => closed
  /\ \A x, y \in Coros : at[x] \in Freeing /\ at[y] \in Freeing => x = y
  /\ free_pending => closed /\ idle = {}
  /\ closed => free_pending \/ \E x \in Coros : at[x] \in Freeing
  /\ ticking <=> at[Tick] \notin {"none", "off", "gone"}
  /\ at[Tick] = "gone" => closed

\* The memory goes exactly when free is over and nobody is counted any more.
Freed == mem = "freed" <=> free_pending /\ busy = 0 /\ waiters = 0 /\ ~ticking

Busy == {x \in Coros : con[x] # Nil /\ at[x] # "freequit"}
Waiting == {x \in Users : at[x] \in {"wait", "woke"}}
Counted == busy = Cardinality(Busy) /\ waiters = Cardinality(Waiting)

\* An open connection is idle or in somebody's hands.
Linked == \A k \in Conns : link[k] # "down" => k \in idle \/ \E x \in Coros : con[x] = k

\* While somebody is in the queue a connection is borrowed, or a waiter that was just
\* woken is about to borrow one.
Looks ==
  Queued # {} => \/ busy > 0
                  \/ \E w \in Users : /\ at[w] \in {"woke", "get"} /\ con[w] = Nil
                                      /\ ~closed /\ Usable # {}

IInv ==
  /\ TypeOK /\ Roles /\ Stack /\ Where /\ Standing /\ Queues /\ Hands /\ Closing /\ Freed
  /\ Counted /\ Linked /\ Looks

\* TypeOK in parts.
MemTyped == mem \in {"live", "freed"} /\ busy \in Nat /\ waiters \in Nat
FlagsTyped == closed \in BOOLEAN /\ free_pending \in BOOLEAN /\ ticking \in BOOLEAN
ConnsTyped ==
  /\ added \subseteq Conns /\ idle \subseteq added /\ cool \subseteq Conns
  /\ link \in [Conns -> {"down", "ready", "half"}]
WaitsTyped ==
  /\ queue \in Seq(Users) /\ waking \in [Coros -> Seq(Users)]
  /\ deadline \in [Coros -> BOOLEAN] /\ timed \in [Coros -> BOOLEAN]

USE PoolAssumption DEF Coros, Calls, flags, wait, At, Goto, MaySuspend

-----------------------------------------------------------------------------
(* Sequences *)

LEMMA EmptyQueue ==
  ASSUME NEW S, NEW q \in Seq(S)
  PROVE  /\ ToSet(<<>>) = {} /\ IsInjective(<<>>)
         /\ q = <<>> <=> ToSet(q) = {}
         /\ ToSet(q) \subseteq S
<1>1. ToSet(<<>>) = {} /\ IsInjective(<<>>) BY DEF ToSet, IsInjective
<1>2. q # <<>> => q[1] \in ToSet(q) BY DEF ToSet
<1>3. ToSet(q) \subseteq S BY DEF ToSet
<1> QED BY <1>1, <1>2, <1>3

\* The head leaves, the others stay.
LEMMA HeadTail ==
  ASSUME NEW S, NEW q \in Seq(S), q # <<>>, IsInjective(q)
  PROVE  /\ Head(q) \in S /\ Tail(q) \in Seq(S)
         /\ Head(q) \in ToSet(q)
         /\ ToSet(Tail(q)) = ToSet(q) \ {Head(q)} /\ IsInjective(Tail(q))
<1>1. /\ 1 \in DOMAIN q /\ Head(q) = q[1] /\ Head(q) \in S /\ Tail(q) \in Seq(S)
      /\ \A i \in DOMAIN Tail(q) : i + 1 \in DOMAIN q /\ Tail(q)[i] = q[i + 1]
      /\ \A i \in DOMAIN q : i # 1 => i - 1 \in DOMAIN Tail(q) /\ Tail(q)[i - 1] = q[i]
  OBVIOUS
<1>2. DOMAIN q \subseteq Nat /\ DOMAIN Tail(q) \subseteq Nat \ {0} OBVIOUS
<1>3. ToSet(q) = ToSet(Tail(q)) \cup {Head(q)}
  <2>1. ToSet(q) \subseteq ToSet(Tail(q)) \cup {Head(q)} BY <1>1 DEF ToSet
  <2>2. ToSet(Tail(q)) \cup {Head(q)} \subseteq ToSet(q) BY <1>1 DEF ToSet
  <2> QED BY <2>1, <2>2
<1>4. Head(q) \notin ToSet(Tail(q)) BY <1>1, <1>2 DEF ToSet, IsInjective
<1>5. IsInjective(Tail(q)) BY <1>1, <1>2 DEF IsInjective
<1> QED BY <1>1, <1>3, <1>4, <1>5

\* One more at the end.
LEMMA AtTheEnd ==
  ASSUME NEW S, NEW q \in Seq(S), NEW e \in S, IsInjective(q), e \notin ToSet(q)
  PROVE  /\ Append(q, e) \in Seq(S) /\ Append(q, e) # <<>> /\ Last(Append(q, e)) = e
         /\ q # <<>> => Append(q, e)[1] = q[1]
         /\ ToSet(Append(q, e)) = ToSet(q) \cup {e} /\ IsInjective(Append(q, e))
<1>1. /\ Append(q, e) \in Seq(S) /\ Append(q, e) # <<>> /\ Len(Append(q, e)) = Len(q) + 1
      /\ DOMAIN Append(q, e) = 1 .. Len(q) + 1 /\ DOMAIN q = 1 .. Len(q) /\ Len(q) \in Nat
      /\ \A i \in DOMAIN q : Append(q, e)[i] = q[i]
      /\ Append(q, e)[Len(q) + 1] = e
      /\ q # <<>> => 1 \in DOMAIN q
  OBVIOUS
<1>2. ToSet(Append(q, e)) = ToSet(q) \cup {e} BY <1>1 DEF ToSet
<1>3. IsInjective(Append(q, e)) BY <1>1 DEF ToSet, IsInjective
<1> QED BY <1>1, <1>2, <1>3 DEF Last

\* The last one leaves.
LEMMA LastFront ==
  ASSUME NEW S, NEW q \in Seq(S), q # <<>>, IsInjective(q)
  PROVE  /\ Last(q) \in S /\ Last(q) \in ToSet(q) /\ Front(q) \in Seq(S)
         /\ ToSet(Front(q)) = ToSet(q) \ {Last(q)} /\ IsInjective(Front(q))
         /\ Last(q) # q[1] => Front(q) # <<>> /\ Front(q)[1] = q[1]
         /\ Last(q) = q[1] => ToSet(q) = {q[1]}
<1>1. /\ DOMAIN q = 1 .. Len(q) /\ Len(q) \in Nat \ {0} /\ Last(q) = q[Len(q)]
      /\ Front(q) \in Seq(S) /\ DOMAIN Front(q) = 1 .. Len(q) - 1 /\ Len(Front(q)) = Len(q) - 1
      /\ \A i \in 1 .. Len(q) - 1 : Front(q)[i] = q[i]
  <2>1. DOMAIN q = 1 .. Len(q) /\ Len(q) \in Nat \ {0} /\ Last(q) = q[Len(q)]
    BY LenProperties DEF Last
  <2>2. /\ SubSeq(q, 1, Len(q) - 1) \in Seq(S)
        /\ Len(SubSeq(q, 1, Len(q) - 1)) = Len(q) - 1
        /\ \A i \in 1 .. Len(q) - 1 : SubSeq(q, 1, Len(q) - 1)[i] = q[i]
    BY <2>1, SubSeqProperties
  <2>3. DOMAIN SubSeq(q, 1, Len(q) - 1) = 1 .. Len(q) - 1
    BY <2>2, LenProperties
  <2> QED BY <2>1, <2>2, <2>3 DEF Front
<1>2. \A i \in 1 .. Len(q) : q[i] \in S OBVIOUS
<1>3. ToSet(Front(q)) = ToSet(q) \ {Last(q)} BY <1>1 DEF ToSet, IsInjective
<1>4. IsInjective(Front(q)) BY <1>1 DEF IsInjective
<1>5. Last(q) \in S /\ Last(q) \in ToSet(q) BY <1>1, <1>2 DEF ToSet
<1>6. Last(q) # q[1] => Front(q) # <<>> /\ Front(q)[1] = q[1]
  <2> SUFFICES ASSUME Last(q) # q[1] PROVE Front(q) # <<>> /\ Front(q)[1] = q[1]
    OBVIOUS
  <2>1. Len(q) # 1 BY <1>1
  <2>2. 1 \in 1 .. Len(q) - 1 BY <1>1, <2>1
  <2>3. Len(Front(q)) # 0 BY <1>1, <2>1
  <2> QED BY <1>1, <2>2, <2>3
<1>7. Last(q) = q[1] => ToSet(q) = {q[1]}
  <2> SUFFICES ASSUME Last(q) = q[1] PROVE ToSet(q) = {q[1]}
    OBVIOUS
  <2>1. Len(q) = 1
    <3>1. 1 \in DOMAIN q /\ Len(q) \in DOMAIN q /\ q[1] = q[Len(q)] BY <1>1
    <3> QED BY <3>1 DEF IsInjective
  <2> QED BY <1>1, <2>1 DEF ToSet
<1> QED BY <1>1, <1>3, <1>4, <1>5, <1>6, <1>7

\* One leaves from the middle.
LEMMA Taken ==
  ASSUME NEW S, NEW q \in Seq(S), NEW i \in DOMAIN q, IsInjective(q)
  PROVE  /\ RemoveAt(q, i) \in Seq(S) /\ IsInjective(RemoveAt(q, i))
         /\ ToSet(RemoveAt(q, i)) = ToSet(q) \ {q[i]}
<1> DEFINE p == SubSeq(q, 1, i - 1)
           r == SubSeq(q, i + 1, Len(q))
           n == Len(q)
<1>1. DOMAIN q = 1 .. n /\ n \in Nat /\ i \in 1 .. n BY LenProperties
<1>2. /\ p \in Seq(S) /\ Len(p) = i - 1 /\ r \in Seq(S) /\ Len(r) = n - i
      /\ \A j \in 1 .. i - 1 : p[j] = q[j]
      /\ \A j \in 1 .. n - i : r[j] = q[i + j]
  <2>1. p \in Seq(S) /\ Len(p) = i - 1 /\ \A j \in 1 .. i - 1 : p[j] = q[j]
    BY <1>1, SubSeqProperties
  <2>2. r \in Seq(S) /\ Len(r) = n - i /\ \A j \in 1 .. n - i : r[j] = q[i + j]
    BY <1>1, SubSeqProperties
  <2> QED BY <2>1, <2>2
<1> HIDE DEF p, r
<1>3. /\ RemoveAt(q, i) = p \o r /\ p \o r \in Seq(S) /\ Len(p \o r) = n - 1
      /\ \A j \in 1 .. n - 1 : (p \o r)[j] = IF j < i THEN q[j] ELSE q[j + 1]
  <2>1. RemoveAt(q, i) = p \o r BY DEF RemoveAt, p, r
  <2>2. p \o r \in Seq(S) /\ Len(p \o r) = n - 1 
    <3>1. p \o r \in Seq(S) /\ Len(p \o r) = Len(p) + Len(r) BY <1>2, ConcatProperties
    <3> QED BY <1>1, <1>2, <3>1
  <2>3. ASSUME NEW j \in 1 .. n - 1 PROVE (p \o r)[j] = IF j < i THEN q[j] ELSE q[j + 1]
    <3>1. CASE j < i BY <1>1, <1>2, <3>1, ConcatProperties
    <3>2. CASE ~(j < i)
      <4>1. (p \o r)[j] = r[j - (i - 1)] BY <1>1, <1>2, <3>2, ConcatProperties
      <4>2. j - (i - 1) \in 1 .. n - i /\ i + (j - (i - 1)) = j + 1 BY <1>1, <3>2
      <4> QED BY <1>2, <3>2, <4>1, <4>2
    <3> QED BY <3>1, <3>2
  <2> QED BY <2>1, <2>2, <2>3
<1> DEFINE z == p \o r
<1>4. z \in Seq(S) /\ DOMAIN z = 1 .. n - 1 /\ \A j \in 1 .. n - 1 : z[j] = IF j < i THEN q[j] ELSE q[j + 1]
  BY <1>3, LenProperties
<1> HIDE DEF z
<1>5. IsInjective(z)
  <2> SUFFICES ASSUME NEW a \in 1 .. n - 1, NEW b \in 1 .. n - 1, z[a] = z[b] PROVE a = b
    BY <1>4 DEF IsInjective
  <2> DEFINE Old(j) == IF j < i THEN j ELSE j + 1
  <2>1. Old(a) \in 1 .. n /\ Old(b) \in 1 .. n BY <1>1
  <2>2. q[Old(a)] = q[Old(b)] BY <1>4
  <2>3. Old(a) = Old(b) BY <1>1, <2>1, <2>2 DEF IsInjective
  <2> QED BY <1>1, <2>3
<1>6. \A j \in 1 .. n : j < i => j \in 1 .. n - 1 /\ z[j] = q[j]
  BY <1>1, <1>4
<1>7. \A j \in 1 .. n : j > i => j - 1 \in 1 .. n - 1 /\ z[j - 1] = q[j]
  BY <1>1, <1>4
<1>8. \A j \in 1 .. n - 1 : \E m \in 1 .. n : m # i /\ z[j] = q[m]
  BY <1>1, <1>4
<1>9. ToSet(z) \subseteq ToSet(q) \ {q[i]}
  <2> SUFFICES ASSUME NEW j \in 1 .. n - 1 PROVE z[j] \in ToSet(q) \ {q[i]}
    BY <1>4 DEF ToSet
  <2>1. PICK m \in 1 .. n : m # i /\ z[j] = q[m] BY <1>8
  <2>2. q[m] # q[i] BY <1>1, <2>1 DEF IsInjective
  <2> QED BY <1>1, <2>1, <2>2 DEF ToSet
<1>10. ASSUME NEW e \in ToSet(q), e # q[i] PROVE e \in ToSet(z)
  <2>1. PICK j \in 1 .. n : e = q[j] BY <1>1 DEF ToSet
  <2>2. j < i \/ j > i BY <1>1, <1>10, <2>1
  <2> QED BY <1>4, <1>6, <1>7, <2>1, <2>2 DEF ToSet
<1> QED BY <1>3, <1>4, <1>5, <1>9, <1>10 DEF z

-----------------------------------------------------------------------------
(* What the steps do to the stack and the queues *)

\* A context is resumed, or the one that runs yields.
LEMMA RunMoves ==
  ASSUME TypeOK, Stack
  PROVE  /\ run' = run => Stack' /\ On' = On /\ Top' = Top
         /\ Top = Main => On = {Main}
         /\ Top \in Coros \cup {Main} /\ Top \in On
         /\ Yield /\ Top # Main => /\ run' \in Seq(Coros \cup {Main}) /\ Stack'
                                   /\ On' = On \ {Top}
         /\ \A w \in Coros : Resume(w) /\ w \notin On =>
              run' \in Seq(Coros \cup {Main}) /\ Stack' /\ On' = On \cup {w} /\ Top' = w
<1>1. run \in Seq(Coros \cup {Main}) /\ run # <<>> /\ IsInjective(run) /\ run[1] = Main
  BY DEF TypeOK, Stack
<1>2. run' = run => Stack' /\ On' = On /\ Top' = Top
  BY <1>1 DEF Stack, On, Top
<1>3. (Top = Main => On = {Main}) /\ Top \in Coros \cup {Main} /\ Top \in On
  BY <1>1, LastFront DEF On, Top
<1>4. ASSUME Yield, Top # Main
      PROVE  run' \in Seq(Coros \cup {Main}) /\ Stack' /\ On' = On \ {Top}
  BY <1>1, <1>4, LastFront DEF Stack, On, Top, Yield
<1>5. ASSUME NEW w \in Coros, Resume(w), w \notin On
      PROVE  run' \in Seq(Coros \cup {Main}) /\ Stack' /\ On' = On \cup {w} /\ Top' = w
  <2>1. w \in Coros \cup {Main} OBVIOUS
  <2> QED BY <1>1, <1>5, <2>1, AtTheEnd DEF Stack, On, Top, Resume
<1> QED BY <1>2, <1>3, <1>4, <1>5

\* Who is next in the queue, or in a list, waits and is not on the stack.
LEMMA Heads ==
  ASSUME TypeOK, Where, Standing, Queues
  PROVE  /\ queue # <<>> => /\ Head(queue) \in Users /\ at[Head(queue)] = "wait"
                            /\ Head(queue) \notin On /\ Tail(queue) \in Seq(Users)
         /\ \A y \in Coros : waking[y] # <<>> =>
              /\ Head(waking[y]) \in Users /\ at[Head(waking[y])] = "wait"
              /\ Head(waking[y]) \notin On /\ Tail(waking[y]) \in Seq(Users)
         /\ \A i \in DOMAIN queue : /\ queue[i] \in Users /\ at[queue[i]] = "wait"
                                    /\ queue[i] \notin On /\ RemoveAt(queue, i) \in Seq(Users)
<1>1. queue \in Seq(Users) /\ \A y \in Coros : waking[y] \in Seq(Users)
  BY DEF TypeOK
<1>2. ASSUME queue # <<>>
      PROVE  /\ Head(queue) \in Users /\ at[Head(queue)] = "wait"
             /\ Head(queue) \notin On /\ Tail(queue) \in Seq(Users)
  <2>1. /\ Head(queue) \in Users /\ Tail(queue) \in Seq(Users)
        /\ Head(queue) \in Queued
    BY <1>1, <1>2, HeadTail DEF Standing, Queued
  <2>2. at[Head(queue)] = "wait" BY <2>1 DEF Queues
  <2> QED BY <2>1, <2>2 DEF Where
<1>3. ASSUME NEW y \in Coros, waking[y] # <<>>
      PROVE  /\ Head(waking[y]) \in Users /\ at[Head(waking[y])] = "wait"
             /\ Head(waking[y]) \notin On /\ Tail(waking[y]) \in Seq(Users)
  <2>1. /\ Head(waking[y]) \in Users /\ Tail(waking[y]) \in Seq(Users)
        /\ Head(waking[y]) \in Listed(y)
    BY <1>1, <1>3, HeadTail DEF Standing, Listed
  <2>2. at[Head(waking[y])] = "wait" BY <2>1 DEF Queues
  <2> QED BY <2>1, <2>2 DEF Where
<1>4. ASSUME NEW i \in DOMAIN queue
      PROVE  /\ queue[i] \in Users /\ at[queue[i]] = "wait"
             /\ queue[i] \notin On /\ RemoveAt(queue, i) \in Seq(Users)
  <2>1. queue[i] \in Users /\ queue[i] \in Queued BY <1>1 DEF Queued, ToSet
  <2>2. at[queue[i]] = "wait" BY <2>1 DEF Queues
  <2>3. RemoveAt(queue, i) \in Seq(Users) BY <1>1, Taken DEF Standing
  <2> QED BY <2>1, <2>2, <2>3 DEF Where
<1> QED BY <1>2, <1>3, <1>4

\* Who has a connection in hand, or was just woken, is counted.
LEMMA Counts ==
  ASSUME TypeOK, Counted
  PROVE  /\ IsFiniteSet(Busy) /\ IsFiniteSet(Waiting)
         /\ busy \in Nat /\ waiters \in Nat
         /\ \A x \in Coros : con[x] # Nil /\ at[x] # "freequit" => busy > 0
         /\ \A x \in Users : at[x] \in {"wait", "woke"} => waiters > 0
         /\ busy = 0 <=> Busy = {}
         /\ waiters = 0 <=> Waiting = {}
<1>1. IsFiniteSet(Coros)
  BY FS_AddElement, FS_Union, FS_Singleton
<1>2. IsFiniteSet(Busy) /\ IsFiniteSet(Waiting)
  BY <1>1, FS_Subset DEF Busy, Waiting
<1>3. busy = 0 <=> Busy = {}
  BY <1>2, FS_EmptySet DEF Counted
<1>4. waiters = 0 <=> Waiting = {}
  BY <1>2, FS_EmptySet DEF Counted
<1>5. busy \in Nat /\ waiters \in Nat
  BY DEF TypeOK
<1>6. \A x \in Coros : con[x] # Nil /\ at[x] # "freequit" => busy > 0
  BY <1>3, <1>5 DEF Busy
<1>7. \A x \in Users : at[x] \in {"wait", "woke"} => waiters > 0
  BY <1>4, <1>5 DEF Waiting
<1> QED BY <1>2, <1>3, <1>4, <1>5, <1>6, <1>7

\* The stack keeps its form: who is resumed was not on it.
LEMMA RunStep ==
  ASSUME IInv, [Next]_vars
  PROVE  run' \in Seq(Coros \cup {Main}) /\ Stack'
<1>0. run \in Seq(Coros \cup {Main}) /\ Roles /\ Where
  BY DEF IInv, TypeOK
<1>r. /\ run' = run => Stack'
      /\ Top \in Coros \cup {Main}
      /\ Yield /\ Top # Main => run' \in Seq(Coros \cup {Main}) /\ Stack'
      /\ \A w \in Coros : Resume(w) /\ w \notin On => run' \in Seq(Coros \cup {Main}) /\ Stack'
  BY RunMoves DEF IInv
<1>h. /\ queue # <<>> => Head(queue) \in Users /\ Head(queue) \notin On
      /\ \A y \in Coros : waking[y] # <<>> => Head(waking[y]) \in Users /\ Head(waking[y]) \notin On
      /\ \A i \in DOMAIN queue : queue[i] \in Users /\ queue[i] \notin On
  BY Heads DEF IInv
<1>1. CASE UNCHANGED vars
  BY <1>1, <1>0, <1>r, <1>h DEF vars, Where
<1>2. ASSUME NEW x \in Coros, Start(x) PROVE run' \in Seq(Coros \cup {Main}) /\ Stack'
  <2>1. x \notin On
    BY <1>2, LenProperties, <1>0 DEF Start, Contains, On, ToSet
  <2> QED BY <1>2, <2>1, <1>r DEF Start
<1>3. ASSUME NEW x \in Coros, Finish(x) PROVE run' \in Seq(Coros \cup {Main}) /\ Stack'
  BY <1>3, <1>0, <1>r, <1>h DEF Finish, Where
<1>4. ASSUME NEW x \in Coros, Half(x) PROVE run' \in Seq(Coros \cup {Main}) /\ Stack'
  BY <1>4, <1>0, <1>r, <1>h DEF Half, Where
<1>5. ASSUME NEW x \in Coros, FailQuitEnd(x) PROVE run' \in Seq(Coros \cup {Main}) /\ Stack'
  BY <1>5, <1>0, <1>r, <1>h DEF FailQuitEnd, FailClosed, Down, Release, Gone, Where
<1>6. ASSUME NEW x \in Coros, RenewEnd(x) PROVE run' \in Seq(Coros \cup {Main}) /\ Stack'
  BY <1>6, <1>0, <1>r, <1>h DEF RenewEnd, FailClosed, Down, Release, Gone, Where
<1>7. ASSUME NEW x \in Coros, OpenOk(x) PROVE run' \in Seq(Coros \cup {Main}) /\ Stack'
  BY <1>7, <1>0, <1>r, <1>h DEF OpenOk, QuitClosed, Where
<1>8. ASSUME NEW x \in Coros, OpenFailed(x) PROVE run' \in Seq(Coros \cup {Main}) /\ Stack'
  BY <1>8, <1>0, <1>r, <1>h DEF OpenFailed, QuitClosed, PutIdle, Down, Where
<1>9. ASSUME NEW x \in Coros, WakeAllNext(x) PROVE run' \in Seq(Coros \cup {Main}) /\ Stack'
  BY <1>9, <1>0, <1>r, <1>h DEF WakeAllNext, Where
<1>10. ASSUME NEW x \in Coros, WakeAllEnd(x) PROVE run' \in Seq(Coros \cup {Main}) /\ Stack'
  BY <1>10, <1>0, <1>r, <1>h DEF WakeAllEnd, Gone, Where
<1>11. ASSUME NEW x \in Coros, Put(x) PROVE run' \in Seq(Coros \cup {Main}) /\ Stack'
  BY <1>11, <1>0, <1>r, <1>h DEF Put, Where
<1>12. ASSUME NEW x \in Coros, ResetFailed(x) PROVE run' \in Seq(Coros \cup {Main}) /\ Stack'
  BY <1>12, <1>0, <1>r, <1>h DEF ResetFailed, Where
<1>13. ASSUME NEW x \in Coros, ResetOk(x) PROVE run' \in Seq(Coros \cup {Main}) /\ Stack'
  BY <1>13, <1>0, <1>r, <1>h DEF ResetOk, QuitClosed, PutIdle, Done, Where
<1>14. ASSUME NEW x \in Coros, PutQuitEnd(x) PROVE run' \in Seq(Coros \cup {Main}) /\ Stack'
  BY <1>14, <1>0, <1>r, <1>h DEF PutQuitEnd, FailClosed, PutIdle, WakeHead, Down, Release,
    Gone, Done, Where
<1>15. ASSUME NEW x \in Users, Get(x) PROVE run' \in Seq(Coros \cup {Main}) /\ Stack'
  BY <1>15, <1>0, <1>r, <1>h DEF Get, Where
<1>16. ASSUME NEW x \in Users, GetFails(x) PROVE run' \in Seq(Coros \cup {Main}) /\ Stack'
  BY <1>16, <1>0, <1>r, <1>h DEF GetFails, Where
<1>17. ASSUME NEW x \in Users, GetWait(x) PROVE run' \in Seq(Coros \cup {Main}) /\ Stack'
  BY <1>17, <1>0, <1>r, <1>h DEF GetWait, Where
<1>18. ASSUME NEW x \in Users, Expire(x) PROVE run' \in Seq(Coros \cup {Main}) /\ Stack'
  BY <1>18, <1>0, <1>r, <1>h DEF Expire, Where
<1>19. ASSUME NEW x \in Users, Woke(x) PROVE run' \in Seq(Coros \cup {Main}) /\ Stack'
  BY <1>19, <1>0, <1>r, <1>h DEF Woke, Release, Where
<1>20. ASSUME NEW x \in Users, NEW k \in Conns, GetTake(x, k) PROVE run' \in Seq(Coros \cup {Main}) /\ Stack'
  BY <1>20, <1>0, <1>r, <1>h DEF GetTake, Checkout, Where
<1>21. ASSUME NEW x \in Users, Free(x) PROVE run' \in Seq(Coros \cup {Main}) /\ Stack'
  BY <1>21, <1>0, <1>r, <1>h DEF Free, Where
<1>22. ASSUME NEW x \in Users, FreeTick(x) PROVE run' \in Seq(Coros \cup {Main}) /\ Stack'
  BY <1>22, <1>0, <1>r, <1>h DEF FreeTick, Where
<1>23. ASSUME NEW x \in Users, FreeQuitEnd(x) PROVE run' \in Seq(Coros \cup {Main}) /\ Stack'
  BY <1>23, <1>0, <1>r, <1>h DEF FreeQuitEnd, Down, Where
<1>24. ASSUME NEW x \in Users, FreeEnd(x) PROVE run' \in Seq(Coros \cup {Main}) /\ Stack'
  BY <1>24, <1>0, <1>r, <1>h DEF FreeEnd, Release, Where
<1>25. ASSUME NEW x \in Users, NEW k \in Conns, FreeIdle(x, k) PROVE run' \in Seq(Coros \cup {Main}) /\ Stack'
  BY <1>25, <1>0, <1>r, <1>h DEF FreeIdle, Where
<1>26. ASSUME NEW x \in Users, NEW k \in Conns, Add(x, k) PROVE run' \in Seq(Coros \cup {Main}) /\ Stack'
  BY <1>26, <1>0, <1>r, <1>h DEF Add, Where
<1>27. ASSUME NEW k \in Conns, Break(k) PROVE run' \in Seq(Coros \cup {Main}) /\ Stack'
  BY <1>27, <1>0, <1>r, <1>h DEF Break, Where
<1>28. ASSUME NEW k \in Conns, CoolDown(k) PROVE run' \in Seq(Coros \cup {Main}) /\ Stack'
  BY <1>28, <1>0, <1>r, <1>h DEF CoolDown, Where
<1>29. CASE TickStart
  BY <1>29, <1>0, <1>r, <1>h DEF TickStart, Where
<1>30. CASE TickWait
  BY <1>30, <1>0, <1>r, <1>h DEF TickWait, Where
<1>31. CASE TickTimer
  BY <1>31, <1>0, <1>r, <1>h DEF TickTimer, Where
<1>32. CASE ReapEnd
  BY <1>32, <1>0, <1>r, <1>h DEF ReapEnd, FailClosed, PutIdle, WakeHead, Down, Release, Gone,
    Where
<1>33. CASE TickAgain
  BY <1>33, <1>0, <1>r, <1>h DEF TickAgain, Where
<1>34. CASE TickExit
  BY <1>34, <1>0, <1>r, <1>h DEF TickExit, Release, Where
<1>35. ASSUME NEW k \in Conns, Reap(k) PROVE run' \in Seq(Coros \cup {Main}) /\ Stack'
  BY <1>35, <1>0, <1>r, <1>h DEF Reap, Where
<1>36. ASSUME NEW k \in Conns, Fill(k) PROVE run' \in Seq(Coros \cup {Main}) /\ Stack'
  BY <1>36, <1>0, <1>r, <1>h DEF Fill, Checkout, Where
<1> QED BY <1>1, <1>2, <1>3, <1>4, <1>5, <1>6, <1>7, <1>8, <1>9, <1>10, <1>11, <1>12, <1>13,
  <1>14, <1>15, <1>16, <1>17, <1>18, <1>19, <1>20, <1>21, <1>22, <1>23, <1>24, <1>25, <1>26,
  <1>27, <1>28, <1>29, <1>30, <1>31, <1>32, <1>33, <1>34, <1>35, <1>36 DEF Next, Borrow,
  Server, Return, Maintain, Destroy

\* The memory and the counts.
LEMMA CountTypes ==
  ASSUME IInv, [Next]_vars
  PROVE  MemTyped'
<1>0. MemTyped /\ Hands
  BY DEF IInv, TypeOK, MemTyped
<1>c. /\ busy \in Nat /\ waiters \in Nat
      /\ \A x \in Coros : con[x] # Nil /\ at[x] # "freequit" => busy > 0
      /\ \A x \in Users : at[x] \in {"wait", "woke"} => waiters > 0
  BY Counts DEF IInv
<1>1. CASE UNCHANGED vars
  BY <1>1, <1>0, <1>c DEF vars, MemTyped, Hands, InHand
<1>2. ASSUME NEW x \in Coros, Start(x) PROVE MemTyped'
  BY <1>2, <1>0, <1>c DEF Start, MemTyped, Hands, InHand
<1>3. ASSUME NEW x \in Coros, Finish(x) PROVE MemTyped'
  BY <1>3, <1>0, <1>c DEF Finish, MemTyped, Hands, InHand
<1>4. ASSUME NEW x \in Coros, Half(x) PROVE MemTyped'
  BY <1>4, <1>0, <1>c DEF Half, MemTyped, Hands, InHand
<1>5. ASSUME NEW x \in Coros, FailQuitEnd(x) PROVE MemTyped'
  BY <1>5, <1>0, <1>c DEF FailQuitEnd, FailClosed, Down, Release, Gone, MemTyped, Hands, InHand
<1>6. ASSUME NEW x \in Coros, RenewEnd(x) PROVE MemTyped'
  BY <1>6, <1>0, <1>c DEF RenewEnd, FailClosed, Down, Release, Gone, MemTyped, Hands, InHand
<1>7. ASSUME NEW x \in Coros, OpenOk(x) PROVE MemTyped'
  BY <1>7, <1>0, <1>c DEF OpenOk, QuitClosed, MemTyped, Hands, InHand
<1>8. ASSUME NEW x \in Coros, OpenFailed(x) PROVE MemTyped'
  BY <1>8, <1>0, <1>c DEF OpenFailed, QuitClosed, PutIdle, Down, MemTyped, Hands, InHand
<1>9. ASSUME NEW x \in Coros, WakeAllNext(x) PROVE MemTyped'
  BY <1>9, <1>0, <1>c DEF WakeAllNext, MemTyped, Hands, InHand
<1>10. ASSUME NEW x \in Coros, WakeAllEnd(x) PROVE MemTyped'
  BY <1>10, <1>0, <1>c DEF WakeAllEnd, Gone, MemTyped, Hands, InHand
<1>11. ASSUME NEW x \in Coros, Put(x) PROVE MemTyped'
  BY <1>11, <1>0, <1>c DEF Put, MemTyped, Hands, InHand
<1>12. ASSUME NEW x \in Coros, ResetFailed(x) PROVE MemTyped'
  BY <1>12, <1>0, <1>c DEF ResetFailed, MemTyped, Hands, InHand
<1>13. ASSUME NEW x \in Coros, ResetOk(x) PROVE MemTyped'
  BY <1>13, <1>0, <1>c DEF ResetOk, QuitClosed, PutIdle, Done, MemTyped, Hands, InHand
<1>14. ASSUME NEW x \in Coros, PutQuitEnd(x) PROVE MemTyped'
  BY <1>14, <1>0, <1>c DEF PutQuitEnd, FailClosed, PutIdle, WakeHead, Down, Release, Gone,
    Done, MemTyped, Hands, InHand
<1>15. ASSUME NEW x \in Users, Get(x) PROVE MemTyped'
  BY <1>15, <1>0, <1>c DEF Get, MemTyped, Hands, InHand
<1>16. ASSUME NEW x \in Users, GetFails(x) PROVE MemTyped'
  BY <1>16, <1>0, <1>c DEF GetFails, MemTyped, Hands, InHand
<1>17. ASSUME NEW x \in Users, GetWait(x) PROVE MemTyped'
  BY <1>17, <1>0, <1>c DEF GetWait, MemTyped, Hands, InHand
<1>18. ASSUME NEW x \in Users, Expire(x) PROVE MemTyped'
  BY <1>18, <1>0, <1>c DEF Expire, MemTyped, Hands, InHand
<1>19. ASSUME NEW x \in Users, Woke(x) PROVE MemTyped'
  BY <1>19, <1>0, <1>c DEF Woke, Release, MemTyped, Hands, InHand
<1>20. ASSUME NEW x \in Users, NEW k \in Conns, GetTake(x, k) PROVE MemTyped'
  BY <1>20, <1>0, <1>c DEF GetTake, Checkout, MemTyped, Hands, InHand
<1>21. ASSUME NEW x \in Users, Free(x) PROVE MemTyped'
  BY <1>21, <1>0, <1>c DEF Free, MemTyped, Hands, InHand
<1>22. ASSUME NEW x \in Users, FreeTick(x) PROVE MemTyped'
  BY <1>22, <1>0, <1>c DEF FreeTick, MemTyped, Hands, InHand
<1>23. ASSUME NEW x \in Users, FreeQuitEnd(x) PROVE MemTyped'
  BY <1>23, <1>0, <1>c DEF FreeQuitEnd, Down, MemTyped, Hands, InHand
<1>24. ASSUME NEW x \in Users, FreeEnd(x) PROVE MemTyped'
  BY <1>24, <1>0, <1>c DEF FreeEnd, Release, MemTyped, Hands, InHand
<1>25. ASSUME NEW x \in Users, NEW k \in Conns, FreeIdle(x, k) PROVE MemTyped'
  BY <1>25, <1>0, <1>c DEF FreeIdle, MemTyped, Hands, InHand
<1>26. ASSUME NEW x \in Users, NEW k \in Conns, Add(x, k) PROVE MemTyped'
  BY <1>26, <1>0, <1>c DEF Add, MemTyped, Hands, InHand
<1>27. ASSUME NEW k \in Conns, Break(k) PROVE MemTyped'
  BY <1>27, <1>0, <1>c DEF Break, MemTyped, Hands, InHand
<1>28. ASSUME NEW k \in Conns, CoolDown(k) PROVE MemTyped'
  BY <1>28, <1>0, <1>c DEF CoolDown, MemTyped, Hands, InHand
<1>29. CASE TickStart
  BY <1>29, <1>0, <1>c DEF TickStart, MemTyped, Hands, InHand
<1>30. CASE TickWait
  BY <1>30, <1>0, <1>c DEF TickWait, MemTyped, Hands, InHand
<1>31. CASE TickTimer
  BY <1>31, <1>0, <1>c DEF TickTimer, MemTyped, Hands, InHand
<1>32. CASE ReapEnd
  BY <1>32, <1>0, <1>c DEF ReapEnd, FailClosed, PutIdle, WakeHead, Down, Release, Gone,
    MemTyped, Hands, InHand
<1>33. CASE TickAgain
  BY <1>33, <1>0, <1>c DEF TickAgain, MemTyped, Hands, InHand
<1>34. CASE TickExit
  BY <1>34, <1>0, <1>c DEF TickExit, Release, MemTyped, Hands, InHand
<1>35. ASSUME NEW k \in Conns, Reap(k) PROVE MemTyped'
  BY <1>35, <1>0, <1>c DEF Reap, MemTyped, Hands, InHand
<1>36. ASSUME NEW k \in Conns, Fill(k) PROVE MemTyped'
  BY <1>36, <1>0, <1>c DEF Fill, Checkout, MemTyped, Hands, InHand
<1> QED BY <1>1, <1>2, <1>3, <1>4, <1>5, <1>6, <1>7, <1>8, <1>9, <1>10, <1>11, <1>12, <1>13,
  <1>14, <1>15, <1>16, <1>17, <1>18, <1>19, <1>20, <1>21, <1>22, <1>23, <1>24, <1>25, <1>26,
  <1>27, <1>28, <1>29, <1>30, <1>31, <1>32, <1>33, <1>34, <1>35, <1>36 DEF Next, Borrow,
  Server, Return, Maintain, Destroy

\* The flags.
LEMMA FlagTypes ==
  ASSUME IInv, [Next]_vars
  PROVE  FlagsTyped'
<1>0. FlagsTyped
  BY DEF IInv, TypeOK, FlagsTyped
<1>1. CASE UNCHANGED vars
  BY <1>1, <1>0 DEF vars, FlagsTyped
<1>2. ASSUME NEW x \in Coros, Start(x) PROVE FlagsTyped'
  BY <1>2, <1>0 DEF Start, FlagsTyped
<1>3. ASSUME NEW x \in Coros, Finish(x) PROVE FlagsTyped'
  BY <1>3, <1>0 DEF Finish, FlagsTyped
<1>4. ASSUME NEW x \in Coros, Half(x) PROVE FlagsTyped'
  BY <1>4, <1>0 DEF Half, FlagsTyped
<1>5. ASSUME NEW x \in Coros, FailQuitEnd(x) PROVE FlagsTyped'
  BY <1>5, <1>0 DEF FailQuitEnd, FailClosed, Down, Release, Gone, FlagsTyped
<1>6. ASSUME NEW x \in Coros, RenewEnd(x) PROVE FlagsTyped'
  BY <1>6, <1>0 DEF RenewEnd, FailClosed, Down, Release, Gone, FlagsTyped
<1>7. ASSUME NEW x \in Coros, OpenOk(x) PROVE FlagsTyped'
  BY <1>7, <1>0 DEF OpenOk, QuitClosed, FlagsTyped
<1>8. ASSUME NEW x \in Coros, OpenFailed(x) PROVE FlagsTyped'
  BY <1>8, <1>0 DEF OpenFailed, QuitClosed, PutIdle, Down, FlagsTyped
<1>9. ASSUME NEW x \in Coros, WakeAllNext(x) PROVE FlagsTyped'
  BY <1>9, <1>0 DEF WakeAllNext, FlagsTyped
<1>10. ASSUME NEW x \in Coros, WakeAllEnd(x) PROVE FlagsTyped'
  BY <1>10, <1>0 DEF WakeAllEnd, Gone, FlagsTyped
<1>11. ASSUME NEW x \in Coros, Put(x) PROVE FlagsTyped'
  BY <1>11, <1>0 DEF Put, FlagsTyped
<1>12. ASSUME NEW x \in Coros, ResetFailed(x) PROVE FlagsTyped'
  BY <1>12, <1>0 DEF ResetFailed, FlagsTyped
<1>13. ASSUME NEW x \in Coros, ResetOk(x) PROVE FlagsTyped'
  BY <1>13, <1>0 DEF ResetOk, QuitClosed, PutIdle, Done, FlagsTyped
<1>14. ASSUME NEW x \in Coros, PutQuitEnd(x) PROVE FlagsTyped'
  BY <1>14, <1>0 DEF PutQuitEnd, FailClosed, PutIdle, WakeHead, Down, Release, Gone, Done,
    FlagsTyped
<1>15. ASSUME NEW x \in Users, Get(x) PROVE FlagsTyped'
  BY <1>15, <1>0 DEF Get, FlagsTyped
<1>16. ASSUME NEW x \in Users, GetFails(x) PROVE FlagsTyped'
  BY <1>16, <1>0 DEF GetFails, FlagsTyped
<1>17. ASSUME NEW x \in Users, GetWait(x) PROVE FlagsTyped'
  BY <1>17, <1>0 DEF GetWait, FlagsTyped
<1>18. ASSUME NEW x \in Users, Expire(x) PROVE FlagsTyped'
  BY <1>18, <1>0 DEF Expire, FlagsTyped
<1>19. ASSUME NEW x \in Users, Woke(x) PROVE FlagsTyped'
  BY <1>19, <1>0 DEF Woke, Release, FlagsTyped
<1>20. ASSUME NEW x \in Users, NEW k \in Conns, GetTake(x, k) PROVE FlagsTyped'
  BY <1>20, <1>0 DEF GetTake, Checkout, FlagsTyped
<1>21. ASSUME NEW x \in Users, Free(x) PROVE FlagsTyped'
  BY <1>21, <1>0 DEF Free, FlagsTyped
<1>22. ASSUME NEW x \in Users, FreeTick(x) PROVE FlagsTyped'
  BY <1>22, <1>0 DEF FreeTick, FlagsTyped
<1>23. ASSUME NEW x \in Users, FreeQuitEnd(x) PROVE FlagsTyped'
  BY <1>23, <1>0 DEF FreeQuitEnd, Down, FlagsTyped
<1>24. ASSUME NEW x \in Users, FreeEnd(x) PROVE FlagsTyped'
  BY <1>24, <1>0 DEF FreeEnd, Release, FlagsTyped
<1>25. ASSUME NEW x \in Users, NEW k \in Conns, FreeIdle(x, k) PROVE FlagsTyped'
  BY <1>25, <1>0 DEF FreeIdle, FlagsTyped
<1>26. ASSUME NEW x \in Users, NEW k \in Conns, Add(x, k) PROVE FlagsTyped'
  BY <1>26, <1>0 DEF Add, FlagsTyped
<1>27. ASSUME NEW k \in Conns, Break(k) PROVE FlagsTyped'
  BY <1>27, <1>0 DEF Break, FlagsTyped
<1>28. ASSUME NEW k \in Conns, CoolDown(k) PROVE FlagsTyped'
  BY <1>28, <1>0 DEF CoolDown, FlagsTyped
<1>29. CASE TickStart
  BY <1>29, <1>0 DEF TickStart, FlagsTyped
<1>30. CASE TickWait
  BY <1>30, <1>0 DEF TickWait, FlagsTyped
<1>31. CASE TickTimer
  BY <1>31, <1>0 DEF TickTimer, FlagsTyped
<1>32. CASE ReapEnd
  BY <1>32, <1>0 DEF ReapEnd, FailClosed, PutIdle, WakeHead, Down, Release, Gone, FlagsTyped
<1>33. CASE TickAgain
  BY <1>33, <1>0 DEF TickAgain, FlagsTyped
<1>34. CASE TickExit
  BY <1>34, <1>0 DEF TickExit, Release, FlagsTyped
<1>35. ASSUME NEW k \in Conns, Reap(k) PROVE FlagsTyped'
  BY <1>35, <1>0 DEF Reap, FlagsTyped
<1>36. ASSUME NEW k \in Conns, Fill(k) PROVE FlagsTyped'
  BY <1>36, <1>0 DEF Fill, Checkout, FlagsTyped
<1> QED BY <1>1, <1>2, <1>3, <1>4, <1>5, <1>6, <1>7, <1>8, <1>9, <1>10, <1>11, <1>12, <1>13,
  <1>14, <1>15, <1>16, <1>17, <1>18, <1>19, <1>20, <1>21, <1>22, <1>23, <1>24, <1>25, <1>26,
  <1>27, <1>28, <1>29, <1>30, <1>31, <1>32, <1>33, <1>34, <1>35, <1>36 DEF Next, Borrow,
  Server, Return, Maintain, Destroy

\* The connections.
LEMMA ConnTypes ==
  ASSUME IInv, [Next]_vars
  PROVE  ConnsTyped'
<1>0. ConnsTyped /\ Hands
  BY DEF IInv, TypeOK, ConnsTyped
<1>1. CASE UNCHANGED vars
  BY <1>1, <1>0 DEF vars, ConnsTyped, Hands, InHand
<1>2. ASSUME NEW x \in Coros, Start(x) PROVE ConnsTyped'
  BY <1>2, <1>0 DEF Start, ConnsTyped, Hands, InHand
<1>3. ASSUME NEW x \in Coros, Finish(x) PROVE ConnsTyped'
  BY <1>3, <1>0 DEF Finish, ConnsTyped, Hands, InHand
<1>4. ASSUME NEW x \in Coros, Half(x) PROVE ConnsTyped'
  BY <1>4, <1>0 DEF Half, ConnsTyped, Hands, InHand
<1>5. ASSUME NEW x \in Coros, FailQuitEnd(x) PROVE ConnsTyped'
  BY <1>5, <1>0 DEF FailQuitEnd, FailClosed, Down, Release, Gone, ConnsTyped, Hands, InHand
<1>6. ASSUME NEW x \in Coros, RenewEnd(x) PROVE ConnsTyped'
  BY <1>6, <1>0 DEF RenewEnd, FailClosed, Down, Release, Gone, ConnsTyped, Hands, InHand
<1>7. ASSUME NEW x \in Coros, OpenOk(x) PROVE ConnsTyped'
  BY <1>7, <1>0 DEF OpenOk, QuitClosed, ConnsTyped, Hands, InHand
<1>8. ASSUME NEW x \in Coros, OpenFailed(x) PROVE ConnsTyped'
  BY <1>8, <1>0 DEF OpenFailed, QuitClosed, PutIdle, Down, ConnsTyped, Hands, InHand
<1>9. ASSUME NEW x \in Coros, WakeAllNext(x) PROVE ConnsTyped'
  BY <1>9, <1>0 DEF WakeAllNext, ConnsTyped, Hands, InHand
<1>10. ASSUME NEW x \in Coros, WakeAllEnd(x) PROVE ConnsTyped'
  BY <1>10, <1>0 DEF WakeAllEnd, Gone, ConnsTyped, Hands, InHand
<1>11. ASSUME NEW x \in Coros, Put(x) PROVE ConnsTyped'
  BY <1>11, <1>0 DEF Put, ConnsTyped, Hands, InHand
<1>12. ASSUME NEW x \in Coros, ResetFailed(x) PROVE ConnsTyped'
  BY <1>12, <1>0 DEF ResetFailed, ConnsTyped, Hands, InHand
<1>13. ASSUME NEW x \in Coros, ResetOk(x) PROVE ConnsTyped'
  BY <1>13, <1>0 DEF ResetOk, QuitClosed, PutIdle, Done, ConnsTyped, Hands, InHand
<1>14. ASSUME NEW x \in Coros, PutQuitEnd(x) PROVE ConnsTyped'
  BY <1>14, <1>0 DEF PutQuitEnd, FailClosed, PutIdle, WakeHead, Down, Release, Gone, Done,
    ConnsTyped, Hands, InHand
<1>15. ASSUME NEW x \in Users, Get(x) PROVE ConnsTyped'
  BY <1>15, <1>0 DEF Get, ConnsTyped, Hands, InHand
<1>16. ASSUME NEW x \in Users, GetFails(x) PROVE ConnsTyped'
  BY <1>16, <1>0 DEF GetFails, ConnsTyped, Hands, InHand
<1>17. ASSUME NEW x \in Users, GetWait(x) PROVE ConnsTyped'
  BY <1>17, <1>0 DEF GetWait, ConnsTyped, Hands, InHand
<1>18. ASSUME NEW x \in Users, Expire(x) PROVE ConnsTyped'
  BY <1>18, <1>0 DEF Expire, ConnsTyped, Hands, InHand
<1>19. ASSUME NEW x \in Users, Woke(x) PROVE ConnsTyped'
  BY <1>19, <1>0 DEF Woke, Release, ConnsTyped, Hands, InHand
<1>20. ASSUME NEW x \in Users, NEW k \in Conns, GetTake(x, k) PROVE ConnsTyped'
  BY <1>20, <1>0 DEF GetTake, Checkout, ConnsTyped, Hands, InHand
<1>21. ASSUME NEW x \in Users, Free(x) PROVE ConnsTyped'
  BY <1>21, <1>0 DEF Free, ConnsTyped, Hands, InHand
<1>22. ASSUME NEW x \in Users, FreeTick(x) PROVE ConnsTyped'
  BY <1>22, <1>0 DEF FreeTick, ConnsTyped, Hands, InHand
<1>23. ASSUME NEW x \in Users, FreeQuitEnd(x) PROVE ConnsTyped'
  BY <1>23, <1>0 DEF FreeQuitEnd, Down, ConnsTyped, Hands, InHand
<1>24. ASSUME NEW x \in Users, FreeEnd(x) PROVE ConnsTyped'
  BY <1>24, <1>0 DEF FreeEnd, Release, ConnsTyped, Hands, InHand
<1>25. ASSUME NEW x \in Users, NEW k \in Conns, FreeIdle(x, k) PROVE ConnsTyped'
  BY <1>25, <1>0 DEF FreeIdle, ConnsTyped, Hands, InHand
<1>26. ASSUME NEW x \in Users, NEW k \in Conns, Add(x, k) PROVE ConnsTyped'
  BY <1>26, <1>0 DEF Add, ConnsTyped, Hands, InHand
<1>27. ASSUME NEW k \in Conns, Break(k) PROVE ConnsTyped'
  BY <1>27, <1>0 DEF Break, ConnsTyped, Hands, InHand
<1>28. ASSUME NEW k \in Conns, CoolDown(k) PROVE ConnsTyped'
  BY <1>28, <1>0 DEF CoolDown, ConnsTyped, Hands, InHand
<1>29. CASE TickStart
  BY <1>29, <1>0 DEF TickStart, ConnsTyped, Hands, InHand
<1>30. CASE TickWait
  BY <1>30, <1>0 DEF TickWait, ConnsTyped, Hands, InHand
<1>31. CASE TickTimer
  BY <1>31, <1>0 DEF TickTimer, ConnsTyped, Hands, InHand
<1>32. CASE ReapEnd
  BY <1>32, <1>0 DEF ReapEnd, FailClosed, PutIdle, WakeHead, Down, Release, Gone, ConnsTyped,
    Hands, InHand
<1>33. CASE TickAgain
  BY <1>33, <1>0 DEF TickAgain, ConnsTyped, Hands, InHand
<1>34. CASE TickExit
  BY <1>34, <1>0 DEF TickExit, Release, ConnsTyped, Hands, InHand
<1>35. ASSUME NEW k \in Conns, Reap(k) PROVE ConnsTyped'
  BY <1>35, <1>0 DEF Reap, ConnsTyped, Hands, InHand
<1>36. ASSUME NEW k \in Conns, Fill(k) PROVE ConnsTyped'
  BY <1>36, <1>0 DEF Fill, Checkout, ConnsTyped, Hands, InHand
<1> QED BY <1>1, <1>2, <1>3, <1>4, <1>5, <1>6, <1>7, <1>8, <1>9, <1>10, <1>11, <1>12, <1>13,
  <1>14, <1>15, <1>16, <1>17, <1>18, <1>19, <1>20, <1>21, <1>22, <1>23, <1>24, <1>25, <1>26,
  <1>27, <1>28, <1>29, <1>30, <1>31, <1>32, <1>33, <1>34, <1>35, <1>36 DEF Next, Borrow,
  Server, Return, Maintain, Destroy

\* The hands.
LEMMA HandTypes ==
  ASSUME IInv, [Next]_vars
  PROVE  con' \in [Coros -> Conns \cup {Nil}]
<1>0. con \in [Coros -> Conns \cup {Nil}]
  BY DEF IInv, TypeOK
<1>1. CASE UNCHANGED vars
  BY <1>1, <1>0 DEF vars, Usable, Ready
<1>2. ASSUME NEW x \in Coros, Start(x) PROVE con' \in [Coros -> Conns \cup {Nil}]
  BY <1>2, <1>0 DEF Start, Usable, Ready
<1>3. ASSUME NEW x \in Coros, Finish(x) PROVE con' \in [Coros -> Conns \cup {Nil}]
  BY <1>3, <1>0 DEF Finish, Usable, Ready
<1>4. ASSUME NEW x \in Coros, Half(x) PROVE con' \in [Coros -> Conns \cup {Nil}]
  BY <1>4, <1>0 DEF Half, Usable, Ready
<1>5. ASSUME NEW x \in Coros, FailQuitEnd(x) PROVE con' \in [Coros -> Conns \cup {Nil}]
  BY <1>5, <1>0 DEF FailQuitEnd, FailClosed, Down, Release, Gone, Usable, Ready
<1>6. ASSUME NEW x \in Coros, RenewEnd(x) PROVE con' \in [Coros -> Conns \cup {Nil}]
  BY <1>6, <1>0 DEF RenewEnd, FailClosed, Down, Release, Gone, Usable, Ready
<1>7. ASSUME NEW x \in Coros, OpenOk(x) PROVE con' \in [Coros -> Conns \cup {Nil}]
  BY <1>7, <1>0 DEF OpenOk, QuitClosed, Usable, Ready
<1>8. ASSUME NEW x \in Coros, OpenFailed(x) PROVE con' \in [Coros -> Conns \cup {Nil}]
  BY <1>8, <1>0 DEF OpenFailed, QuitClosed, PutIdle, Down, Usable, Ready
<1>9. ASSUME NEW x \in Coros, WakeAllNext(x) PROVE con' \in [Coros -> Conns \cup {Nil}]
  BY <1>9, <1>0 DEF WakeAllNext, Usable, Ready
<1>10. ASSUME NEW x \in Coros, WakeAllEnd(x) PROVE con' \in [Coros -> Conns \cup {Nil}]
  BY <1>10, <1>0 DEF WakeAllEnd, Gone, Usable, Ready
<1>11. ASSUME NEW x \in Coros, Put(x) PROVE con' \in [Coros -> Conns \cup {Nil}]
  BY <1>11, <1>0 DEF Put, Usable, Ready
<1>12. ASSUME NEW x \in Coros, ResetFailed(x) PROVE con' \in [Coros -> Conns \cup {Nil}]
  BY <1>12, <1>0 DEF ResetFailed, Usable, Ready
<1>13. ASSUME NEW x \in Coros, ResetOk(x) PROVE con' \in [Coros -> Conns \cup {Nil}]
  BY <1>13, <1>0 DEF ResetOk, QuitClosed, PutIdle, Done, Usable, Ready
<1>14. ASSUME NEW x \in Coros, PutQuitEnd(x) PROVE con' \in [Coros -> Conns \cup {Nil}]
  BY <1>14, <1>0 DEF PutQuitEnd, FailClosed, PutIdle, WakeHead, Down, Release, Gone, Done,
    Usable, Ready
<1>15. ASSUME NEW x \in Users, Get(x) PROVE con' \in [Coros -> Conns \cup {Nil}]
  BY <1>15, <1>0 DEF Get, Usable, Ready
<1>16. ASSUME NEW x \in Users, GetFails(x) PROVE con' \in [Coros -> Conns \cup {Nil}]
  BY <1>16, <1>0 DEF GetFails, Usable, Ready
<1>17. ASSUME NEW x \in Users, GetWait(x) PROVE con' \in [Coros -> Conns \cup {Nil}]
  BY <1>17, <1>0 DEF GetWait, Usable, Ready
<1>18. ASSUME NEW x \in Users, Expire(x) PROVE con' \in [Coros -> Conns \cup {Nil}]
  BY <1>18, <1>0 DEF Expire, Usable, Ready
<1>19. ASSUME NEW x \in Users, Woke(x) PROVE con' \in [Coros -> Conns \cup {Nil}]
  BY <1>19, <1>0 DEF Woke, Release, Usable, Ready
<1>20. ASSUME NEW x \in Users, NEW k \in Conns, GetTake(x, k) PROVE con' \in [Coros -> Conns \cup {Nil}]
  BY <1>20, <1>0 DEF GetTake, Checkout, Usable, Ready
<1>21. ASSUME NEW x \in Users, Free(x) PROVE con' \in [Coros -> Conns \cup {Nil}]
  BY <1>21, <1>0 DEF Free, Usable, Ready
<1>22. ASSUME NEW x \in Users, FreeTick(x) PROVE con' \in [Coros -> Conns \cup {Nil}]
  BY <1>22, <1>0 DEF FreeTick, Usable, Ready
<1>23. ASSUME NEW x \in Users, FreeQuitEnd(x) PROVE con' \in [Coros -> Conns \cup {Nil}]
  BY <1>23, <1>0 DEF FreeQuitEnd, Down, Usable, Ready
<1>24. ASSUME NEW x \in Users, FreeEnd(x) PROVE con' \in [Coros -> Conns \cup {Nil}]
  BY <1>24, <1>0 DEF FreeEnd, Release, Usable, Ready
<1>25. ASSUME NEW x \in Users, NEW k \in Conns, FreeIdle(x, k) PROVE con' \in [Coros -> Conns \cup {Nil}]
  BY <1>25, <1>0 DEF FreeIdle, Usable, Ready
<1>26. ASSUME NEW x \in Users, NEW k \in Conns, Add(x, k) PROVE con' \in [Coros -> Conns \cup {Nil}]
  BY <1>26, <1>0 DEF Add, Usable, Ready
<1>27. ASSUME NEW k \in Conns, Break(k) PROVE con' \in [Coros -> Conns \cup {Nil}]
  BY <1>27, <1>0 DEF Break, Usable, Ready
<1>28. ASSUME NEW k \in Conns, CoolDown(k) PROVE con' \in [Coros -> Conns \cup {Nil}]
  BY <1>28, <1>0 DEF CoolDown, Usable, Ready
<1>29. CASE TickStart
  BY <1>29, <1>0 DEF TickStart, Usable, Ready
<1>30. CASE TickWait
  BY <1>30, <1>0 DEF TickWait, Usable, Ready
<1>31. CASE TickTimer
  BY <1>31, <1>0 DEF TickTimer, Usable, Ready
<1>32. CASE ReapEnd
  BY <1>32, <1>0 DEF ReapEnd, FailClosed, PutIdle, WakeHead, Down, Release, Gone, Usable, Ready
<1>33. CASE TickAgain
  BY <1>33, <1>0 DEF TickAgain, Usable, Ready
<1>34. CASE TickExit
  BY <1>34, <1>0 DEF TickExit, Release, Usable, Ready
<1>35. ASSUME NEW k \in Conns, Reap(k) PROVE con' \in [Coros -> Conns \cup {Nil}]
  BY <1>35, <1>0 DEF Reap, Usable, Ready
<1>36. ASSUME NEW k \in Conns, Fill(k) PROVE con' \in [Coros -> Conns \cup {Nil}]
  BY <1>36, <1>0 DEF Fill, Checkout, Usable, Ready
<1> QED BY <1>1, <1>2, <1>3, <1>4, <1>5, <1>6, <1>7, <1>8, <1>9, <1>10, <1>11, <1>12, <1>13,
  <1>14, <1>15, <1>16, <1>17, <1>18, <1>19, <1>20, <1>21, <1>22, <1>23, <1>24, <1>25, <1>26,
  <1>27, <1>28, <1>29, <1>30, <1>31, <1>32, <1>33, <1>34, <1>35, <1>36 DEF Next, Borrow,
  Server, Return, Maintain, Destroy

\* The places.
LEMMA PlaceTypes ==
  ASSUME IInv, [Next]_vars
  PROVE  at' \in [Coros -> Places]
<1>0. at \in [Coros -> Places]
  BY DEF IInv, TypeOK
<1>1. CASE UNCHANGED vars
  BY <1>1, <1>0 DEF vars, Places
<1>2. ASSUME NEW x \in Coros, Start(x) PROVE at' \in [Coros -> Places]
  BY <1>2, <1>0 DEF Start, Places
<1>3. ASSUME NEW x \in Coros, Finish(x) PROVE at' \in [Coros -> Places]
  BY <1>3, <1>0 DEF Finish, Places
<1>4. ASSUME NEW x \in Coros, Half(x) PROVE at' \in [Coros -> Places]
  BY <1>4, <1>0 DEF Half, Places
<1>5. ASSUME NEW x \in Coros, FailQuitEnd(x) PROVE at' \in [Coros -> Places]
  BY <1>5, <1>0 DEF FailQuitEnd, FailClosed, Down, Release, Gone, Places
<1>6. ASSUME NEW x \in Coros, RenewEnd(x) PROVE at' \in [Coros -> Places]
  BY <1>6, <1>0 DEF RenewEnd, FailClosed, Down, Release, Gone, Places
<1>7. ASSUME NEW x \in Coros, OpenOk(x) PROVE at' \in [Coros -> Places]
  BY <1>7, <1>0 DEF OpenOk, QuitClosed, Places
<1>8. ASSUME NEW x \in Coros, OpenFailed(x) PROVE at' \in [Coros -> Places]
  BY <1>8, <1>0 DEF OpenFailed, QuitClosed, PutIdle, Down, Places
<1>9. ASSUME NEW x \in Coros, WakeAllNext(x) PROVE at' \in [Coros -> Places]
  BY <1>9, <1>0 DEF WakeAllNext, Places
<1>10. ASSUME NEW x \in Coros, WakeAllEnd(x) PROVE at' \in [Coros -> Places]
  BY <1>10, <1>0 DEF WakeAllEnd, Gone, Places
<1>11. ASSUME NEW x \in Coros, Put(x) PROVE at' \in [Coros -> Places]
  BY <1>11, <1>0 DEF Put, Places
<1>12. ASSUME NEW x \in Coros, ResetFailed(x) PROVE at' \in [Coros -> Places]
  BY <1>12, <1>0 DEF ResetFailed, Places
<1>13. ASSUME NEW x \in Coros, ResetOk(x) PROVE at' \in [Coros -> Places]
  BY <1>13, <1>0 DEF ResetOk, QuitClosed, PutIdle, Done, Places
<1>14. ASSUME NEW x \in Coros, PutQuitEnd(x) PROVE at' \in [Coros -> Places]
  BY <1>14, <1>0 DEF PutQuitEnd, FailClosed, PutIdle, WakeHead, Down, Release, Gone, Done,
    Places
<1>15. ASSUME NEW x \in Users, Get(x) PROVE at' \in [Coros -> Places]
  BY <1>15, <1>0 DEF Get, Places
<1>16. ASSUME NEW x \in Users, GetFails(x) PROVE at' \in [Coros -> Places]
  BY <1>16, <1>0 DEF GetFails, Places
<1>17. ASSUME NEW x \in Users, GetWait(x) PROVE at' \in [Coros -> Places]
  BY <1>17, <1>0 DEF GetWait, Places
<1>18. ASSUME NEW x \in Users, Expire(x) PROVE at' \in [Coros -> Places]
  BY <1>18, <1>0 DEF Expire, Places
<1>19. ASSUME NEW x \in Users, Woke(x) PROVE at' \in [Coros -> Places]
  BY <1>19, <1>0 DEF Woke, Release, Places
<1>20. ASSUME NEW x \in Users, NEW k \in Conns, GetTake(x, k) PROVE at' \in [Coros -> Places]
  BY <1>20, <1>0 DEF GetTake, Checkout, Places
<1>21. ASSUME NEW x \in Users, Free(x) PROVE at' \in [Coros -> Places]
  BY <1>21, <1>0 DEF Free, Places
<1>22. ASSUME NEW x \in Users, FreeTick(x) PROVE at' \in [Coros -> Places]
  BY <1>22, <1>0 DEF FreeTick, Places
<1>23. ASSUME NEW x \in Users, FreeQuitEnd(x) PROVE at' \in [Coros -> Places]
  BY <1>23, <1>0 DEF FreeQuitEnd, Down, Places
<1>24. ASSUME NEW x \in Users, FreeEnd(x) PROVE at' \in [Coros -> Places]
  BY <1>24, <1>0 DEF FreeEnd, Release, Places
<1>25. ASSUME NEW x \in Users, NEW k \in Conns, FreeIdle(x, k) PROVE at' \in [Coros -> Places]
  BY <1>25, <1>0 DEF FreeIdle, Places
<1>26. ASSUME NEW x \in Users, NEW k \in Conns, Add(x, k) PROVE at' \in [Coros -> Places]
  BY <1>26, <1>0 DEF Add, Places
<1>27. ASSUME NEW k \in Conns, Break(k) PROVE at' \in [Coros -> Places]
  BY <1>27, <1>0 DEF Break, Places
<1>28. ASSUME NEW k \in Conns, CoolDown(k) PROVE at' \in [Coros -> Places]
  BY <1>28, <1>0 DEF CoolDown, Places
<1>29. CASE TickStart
  BY <1>29, <1>0 DEF TickStart, Places
<1>30. CASE TickWait
  BY <1>30, <1>0 DEF TickWait, Places
<1>31. CASE TickTimer
  BY <1>31, <1>0 DEF TickTimer, Places
<1>32. CASE ReapEnd
  BY <1>32, <1>0 DEF ReapEnd, FailClosed, PutIdle, WakeHead, Down, Release, Gone, Places
<1>33. CASE TickAgain
  BY <1>33, <1>0 DEF TickAgain, Places
<1>34. CASE TickExit
  BY <1>34, <1>0 DEF TickExit, Release, Places
<1>35. ASSUME NEW k \in Conns, Reap(k) PROVE at' \in [Coros -> Places]
  BY <1>35, <1>0 DEF Reap, Places
<1>36. ASSUME NEW k \in Conns, Fill(k) PROVE at' \in [Coros -> Places]
  BY <1>36, <1>0 DEF Fill, Checkout, Places
<1> QED BY <1>1, <1>2, <1>3, <1>4, <1>5, <1>6, <1>7, <1>8, <1>9, <1>10, <1>11, <1>12, <1>13,
  <1>14, <1>15, <1>16, <1>17, <1>18, <1>19, <1>20, <1>21, <1>22, <1>23, <1>24, <1>25, <1>26,
  <1>27, <1>28, <1>29, <1>30, <1>31, <1>32, <1>33, <1>34, <1>35, <1>36 DEF Next, Borrow,
  Server, Return, Maintain, Destroy

\* Borrowers and the maintenance keep to their places.
LEMMA RolesStep ==
  ASSUME IInv, [Next]_vars
  PROVE  Roles'
<1>0. at \in [Coros -> Places] /\ Roles
  BY DEF IInv, TypeOK
<1>h. /\ queue # <<>> => Head(queue) \in Users
      /\ \A y \in Coros : waking[y] # <<>> => Head(waking[y]) \in Users
  BY Heads DEF IInv
<1>1. CASE UNCHANGED vars
  BY <1>1, <1>0, <1>h DEF vars, Roles
<1>2. ASSUME NEW x \in Coros, Start(x) PROVE Roles'
  BY <1>2, <1>0, <1>h DEF Start, Roles
<1>3. ASSUME NEW x \in Coros, Finish(x) PROVE Roles'
  BY <1>3, <1>0, <1>h DEF Finish, Roles
<1>4. ASSUME NEW x \in Coros, Half(x) PROVE Roles'
  BY <1>4, <1>0, <1>h DEF Half, Roles
<1>5. ASSUME NEW x \in Coros, FailQuitEnd(x) PROVE Roles'
  BY <1>5, <1>0, <1>h DEF FailQuitEnd, FailClosed, Down, Release, Gone, Roles
<1>6. ASSUME NEW x \in Coros, RenewEnd(x) PROVE Roles'
  BY <1>6, <1>0, <1>h DEF RenewEnd, FailClosed, Down, Release, Gone, Roles
<1>7. ASSUME NEW x \in Coros, OpenOk(x) PROVE Roles'
  BY <1>7, <1>0, <1>h DEF OpenOk, QuitClosed, Roles
<1>8. ASSUME NEW x \in Coros, OpenFailed(x) PROVE Roles'
  BY <1>8, <1>0, <1>h DEF OpenFailed, QuitClosed, PutIdle, Down, Roles
<1>9. ASSUME NEW x \in Coros, WakeAllNext(x) PROVE Roles'
  BY <1>9, <1>0, <1>h DEF WakeAllNext, Roles
<1>10. ASSUME NEW x \in Coros, WakeAllEnd(x) PROVE Roles'
  BY <1>10, <1>0, <1>h DEF WakeAllEnd, Gone, Roles
<1>11. ASSUME NEW x \in Coros, Put(x) PROVE Roles'
  BY <1>11, <1>0, <1>h DEF Put, Roles
<1>12. ASSUME NEW x \in Coros, ResetFailed(x) PROVE Roles'
  BY <1>12, <1>0, <1>h DEF ResetFailed, Roles
<1>13. ASSUME NEW x \in Coros, ResetOk(x) PROVE Roles'
  BY <1>13, <1>0, <1>h DEF ResetOk, QuitClosed, PutIdle, Done, Roles
<1>14. ASSUME NEW x \in Coros, PutQuitEnd(x) PROVE Roles'
  BY <1>14, <1>0, <1>h DEF PutQuitEnd, FailClosed, PutIdle, WakeHead, Down, Release, Gone,
    Done, Roles
<1>15. ASSUME NEW x \in Users, Get(x) PROVE Roles'
  BY <1>15, <1>0, <1>h DEF Get, Roles
<1>16. ASSUME NEW x \in Users, GetFails(x) PROVE Roles'
  BY <1>16, <1>0, <1>h DEF GetFails, Roles
<1>17. ASSUME NEW x \in Users, GetWait(x) PROVE Roles'
  BY <1>17, <1>0, <1>h DEF GetWait, Roles
<1>18. ASSUME NEW x \in Users, Expire(x) PROVE Roles'
  BY <1>18, <1>0, <1>h DEF Expire, Roles
<1>19. ASSUME NEW x \in Users, Woke(x) PROVE Roles'
  BY <1>19, <1>0, <1>h DEF Woke, Release, Roles
<1>20. ASSUME NEW x \in Users, NEW k \in Conns, GetTake(x, k) PROVE Roles'
  BY <1>20, <1>0, <1>h DEF GetTake, Checkout, Roles
<1>21. ASSUME NEW x \in Users, Free(x) PROVE Roles'
  BY <1>21, <1>0, <1>h DEF Free, Roles
<1>22. ASSUME NEW x \in Users, FreeTick(x) PROVE Roles'
  BY <1>22, <1>0, <1>h DEF FreeTick, Roles
<1>23. ASSUME NEW x \in Users, FreeQuitEnd(x) PROVE Roles'
  BY <1>23, <1>0, <1>h DEF FreeQuitEnd, Down, Roles
<1>24. ASSUME NEW x \in Users, FreeEnd(x) PROVE Roles'
  BY <1>24, <1>0, <1>h DEF FreeEnd, Release, Roles
<1>25. ASSUME NEW x \in Users, NEW k \in Conns, FreeIdle(x, k) PROVE Roles'
  BY <1>25, <1>0, <1>h DEF FreeIdle, Roles
<1>26. ASSUME NEW x \in Users, NEW k \in Conns, Add(x, k) PROVE Roles'
  BY <1>26, <1>0, <1>h DEF Add, Roles
<1>27. ASSUME NEW k \in Conns, Break(k) PROVE Roles'
  BY <1>27, <1>0, <1>h DEF Break, Roles
<1>28. ASSUME NEW k \in Conns, CoolDown(k) PROVE Roles'
  BY <1>28, <1>0, <1>h DEF CoolDown, Roles
<1>29. CASE TickStart
  BY <1>29, <1>0, <1>h DEF TickStart, Roles
<1>30. CASE TickWait
  BY <1>30, <1>0, <1>h DEF TickWait, Roles
<1>31. CASE TickTimer
  BY <1>31, <1>0, <1>h DEF TickTimer, Roles
<1>32. CASE ReapEnd
  BY <1>32, <1>0, <1>h DEF ReapEnd, FailClosed, PutIdle, WakeHead, Down, Release, Gone, Roles
<1>33. CASE TickAgain
  BY <1>33, <1>0, <1>h DEF TickAgain, Roles
<1>34. CASE TickExit
  BY <1>34, <1>0, <1>h DEF TickExit, Release, Roles
<1>35. ASSUME NEW k \in Conns, Reap(k) PROVE Roles'
  BY <1>35, <1>0, <1>h DEF Reap, Roles
<1>36. ASSUME NEW k \in Conns, Fill(k) PROVE Roles'
  BY <1>36, <1>0, <1>h DEF Fill, Checkout, Roles
<1> QED BY <1>1, <1>2, <1>3, <1>4, <1>5, <1>6, <1>7, <1>8, <1>9, <1>10, <1>11, <1>12, <1>13,
  <1>14, <1>15, <1>16, <1>17, <1>18, <1>19, <1>20, <1>21, <1>22, <1>23, <1>24, <1>25, <1>26,
  <1>27, <1>28, <1>29, <1>30, <1>31, <1>32, <1>33, <1>34, <1>35, <1>36 DEF Next, Borrow,
  Server, Return, Maintain, Destroy

\* The waiters.
LEMMA WaitTypes ==
  ASSUME IInv, [Next]_vars
  PROVE  WaitsTyped'
<1>0. WaitsTyped
  BY DEF IInv, TypeOK, WaitsTyped
<1>h. /\ queue # <<>> => Tail(queue) \in Seq(Users)
      /\ \A y \in Coros : waking[y] # <<>> => Tail(waking[y]) \in Seq(Users)
      /\ \A i \in DOMAIN queue : RemoveAt(queue, i) \in Seq(Users)
      /\ <<>> \in Seq(Users) /\ \A x \in Users : Append(queue, x) \in Seq(Users)
  BY Heads DEF IInv, TypeOK
<1>1. CASE UNCHANGED vars
  BY <1>1, <1>0, <1>h DEF vars, WaitsTyped
<1>2. ASSUME NEW x \in Coros, Start(x) PROVE WaitsTyped'
  BY <1>2, <1>0, <1>h DEF Start, WaitsTyped
<1>3. ASSUME NEW x \in Coros, Finish(x) PROVE WaitsTyped'
  BY <1>3, <1>0, <1>h DEF Finish, WaitsTyped
<1>4. ASSUME NEW x \in Coros, Half(x) PROVE WaitsTyped'
  BY <1>4, <1>0, <1>h DEF Half, WaitsTyped
<1>5. ASSUME NEW x \in Coros, FailQuitEnd(x) PROVE WaitsTyped'
  BY <1>5, <1>0, <1>h DEF FailQuitEnd, FailClosed, Down, Release, Gone, WaitsTyped
<1>6. ASSUME NEW x \in Coros, RenewEnd(x) PROVE WaitsTyped'
  BY <1>6, <1>0, <1>h DEF RenewEnd, FailClosed, Down, Release, Gone, WaitsTyped
<1>7. ASSUME NEW x \in Coros, OpenOk(x) PROVE WaitsTyped'
  BY <1>7, <1>0, <1>h DEF OpenOk, QuitClosed, WaitsTyped
<1>8. ASSUME NEW x \in Coros, OpenFailed(x) PROVE WaitsTyped'
  BY <1>8, <1>0, <1>h DEF OpenFailed, QuitClosed, PutIdle, Down, WaitsTyped
<1>9. ASSUME NEW x \in Coros, WakeAllNext(x) PROVE WaitsTyped'
  BY <1>9, <1>0, <1>h DEF WakeAllNext, WaitsTyped
<1>10. ASSUME NEW x \in Coros, WakeAllEnd(x) PROVE WaitsTyped'
  BY <1>10, <1>0, <1>h DEF WakeAllEnd, Gone, WaitsTyped
<1>11. ASSUME NEW x \in Coros, Put(x) PROVE WaitsTyped'
  BY <1>11, <1>0, <1>h DEF Put, WaitsTyped
<1>12. ASSUME NEW x \in Coros, ResetFailed(x) PROVE WaitsTyped'
  BY <1>12, <1>0, <1>h DEF ResetFailed, WaitsTyped
<1>13. ASSUME NEW x \in Coros, ResetOk(x) PROVE WaitsTyped'
  BY <1>13, <1>0, <1>h DEF ResetOk, QuitClosed, PutIdle, Done, WaitsTyped
<1>14. ASSUME NEW x \in Coros, PutQuitEnd(x) PROVE WaitsTyped'
  BY <1>14, <1>0, <1>h DEF PutQuitEnd, FailClosed, PutIdle, WakeHead, Down, Release, Gone,
    Done, WaitsTyped
<1>15. ASSUME NEW x \in Users, Get(x) PROVE WaitsTyped'
  BY <1>15, <1>0, <1>h DEF Get, WaitsTyped
<1>16. ASSUME NEW x \in Users, GetFails(x) PROVE WaitsTyped'
  BY <1>16, <1>0, <1>h DEF GetFails, WaitsTyped
<1>17. ASSUME NEW x \in Users, GetWait(x) PROVE WaitsTyped'
  BY <1>17, <1>0, <1>h DEF GetWait, WaitsTyped
<1>18. ASSUME NEW x \in Users, Expire(x) PROVE WaitsTyped'
  BY <1>18, <1>0, <1>h DEF Expire, WaitsTyped
<1>19. ASSUME NEW x \in Users, Woke(x) PROVE WaitsTyped'
  BY <1>19, <1>0, <1>h DEF Woke, Release, WaitsTyped
<1>20. ASSUME NEW x \in Users, NEW k \in Conns, GetTake(x, k) PROVE WaitsTyped'
  BY <1>20, <1>0, <1>h DEF GetTake, Checkout, WaitsTyped
<1>21. ASSUME NEW x \in Users, Free(x) PROVE WaitsTyped'
  BY <1>21, <1>0, <1>h DEF Free, WaitsTyped
<1>22. ASSUME NEW x \in Users, FreeTick(x) PROVE WaitsTyped'
  BY <1>22, <1>0, <1>h DEF FreeTick, WaitsTyped
<1>23. ASSUME NEW x \in Users, FreeQuitEnd(x) PROVE WaitsTyped'
  BY <1>23, <1>0, <1>h DEF FreeQuitEnd, Down, WaitsTyped
<1>24. ASSUME NEW x \in Users, FreeEnd(x) PROVE WaitsTyped'
  BY <1>24, <1>0, <1>h DEF FreeEnd, Release, WaitsTyped
<1>25. ASSUME NEW x \in Users, NEW k \in Conns, FreeIdle(x, k) PROVE WaitsTyped'
  BY <1>25, <1>0, <1>h DEF FreeIdle, WaitsTyped
<1>26. ASSUME NEW x \in Users, NEW k \in Conns, Add(x, k) PROVE WaitsTyped'
  BY <1>26, <1>0, <1>h DEF Add, WaitsTyped
<1>27. ASSUME NEW k \in Conns, Break(k) PROVE WaitsTyped'
  BY <1>27, <1>0, <1>h DEF Break, WaitsTyped
<1>28. ASSUME NEW k \in Conns, CoolDown(k) PROVE WaitsTyped'
  BY <1>28, <1>0, <1>h DEF CoolDown, WaitsTyped
<1>29. CASE TickStart
  BY <1>29, <1>0, <1>h DEF TickStart, WaitsTyped
<1>30. CASE TickWait
  BY <1>30, <1>0, <1>h DEF TickWait, WaitsTyped
<1>31. CASE TickTimer
  BY <1>31, <1>0, <1>h DEF TickTimer, WaitsTyped
<1>32. CASE ReapEnd
  BY <1>32, <1>0, <1>h DEF ReapEnd, FailClosed, PutIdle, WakeHead, Down, Release, Gone,
    WaitsTyped
<1>33. CASE TickAgain
  BY <1>33, <1>0, <1>h DEF TickAgain, WaitsTyped
<1>34. CASE TickExit
  BY <1>34, <1>0, <1>h DEF TickExit, Release, WaitsTyped
<1>35. ASSUME NEW k \in Conns, Reap(k) PROVE WaitsTyped'
  BY <1>35, <1>0, <1>h DEF Reap, WaitsTyped
<1>36. ASSUME NEW k \in Conns, Fill(k) PROVE WaitsTyped'
  BY <1>36, <1>0, <1>h DEF Fill, Checkout, WaitsTyped
<1> QED BY <1>1, <1>2, <1>3, <1>4, <1>5, <1>6, <1>7, <1>8, <1>9, <1>10, <1>11, <1>12, <1>13,
  <1>14, <1>15, <1>16, <1>17, <1>18, <1>19, <1>20, <1>21, <1>22, <1>23, <1>24, <1>25, <1>26,
  <1>27, <1>28, <1>29, <1>30, <1>31, <1>32, <1>33, <1>34, <1>35, <1>36 DEF Next, Borrow,
  Server, Return, Maintain, Destroy

\* Who sleeps is off the stack, who looks for a connection runs.
LEMMA WhereStep ==
  ASSUME IInv, [Next]_vars
  PROVE  Where'
<1>0. at \in [Coros -> Places] /\ Where
  BY DEF IInv, TypeOK
<1>r. /\ run' = run => On' = On /\ Top' = Top
      /\ Top = Main => On = {Main}
      /\ Top \in Coros \cup {Main} /\ Top \in On
      /\ Yield /\ Top # Main => On' = On \ {Top}
      /\ \A w \in Coros : Resume(w) /\ w \notin On => On' = On \cup {w} /\ Top' = w
  BY RunMoves DEF IInv
<1>h. /\ queue # <<>> => Head(queue) \in Users /\ Head(queue) \notin On
      /\ \A y \in Coros : waking[y] # <<>> => Head(waking[y]) \in Users /\ Head(waking[y]) \notin On
      /\ \A i \in DOMAIN queue : queue[i] \in Users /\ queue[i] \notin On
  BY Heads DEF IInv
<1>1. CASE UNCHANGED vars
  BY <1>1, <1>0, <1>r, <1>h DEF vars, Where
<1>2. ASSUME NEW x \in Coros, Start(x) PROVE Where'
  <2>1. x \notin On
    BY <1>2, LenProperties DEF Start, Contains, On, ToSet, IInv, TypeOK
  <2> QED BY <1>2, <2>1, <1>0, <1>r DEF Start, Where
<1>3. ASSUME NEW x \in Coros, Finish(x) PROVE Where'
  BY <1>3, <1>0, <1>r, <1>h DEF Finish, Where
<1>4. ASSUME NEW x \in Coros, Half(x) PROVE Where'
  BY <1>4, <1>0, <1>r, <1>h DEF Half, Where
<1>5. ASSUME NEW x \in Coros, FailQuitEnd(x) PROVE Where'
  BY <1>5, <1>0, <1>r, <1>h DEF FailQuitEnd, FailClosed, Down, Release, Gone, Where
<1>6. ASSUME NEW x \in Coros, RenewEnd(x) PROVE Where'
  BY <1>6, <1>0, <1>r, <1>h DEF RenewEnd, FailClosed, Down, Release, Gone, Where
<1>7. ASSUME NEW x \in Coros, OpenOk(x) PROVE Where'
  BY <1>7, <1>0, <1>r, <1>h DEF OpenOk, QuitClosed, Where
<1>8. ASSUME NEW x \in Coros, OpenFailed(x) PROVE Where'
  BY <1>8, <1>0, <1>r, <1>h DEF OpenFailed, QuitClosed, PutIdle, Down, Where
<1>9. ASSUME NEW x \in Coros, WakeAllNext(x) PROVE Where'
  BY <1>9, <1>0, <1>r, <1>h DEF WakeAllNext, Where
<1>10. ASSUME NEW x \in Coros, WakeAllEnd(x) PROVE Where'
  BY <1>10, <1>0, <1>r, <1>h DEF WakeAllEnd, Gone, Where
<1>11. ASSUME NEW x \in Coros, Put(x) PROVE Where'
  BY <1>11, <1>0, <1>r, <1>h DEF Put, Where
<1>12. ASSUME NEW x \in Coros, ResetFailed(x) PROVE Where'
  BY <1>12, <1>0, <1>r, <1>h DEF ResetFailed, Where
<1>13. ASSUME NEW x \in Coros, ResetOk(x) PROVE Where'
  BY <1>13, <1>0, <1>r, <1>h DEF ResetOk, QuitClosed, PutIdle, Done, Where
<1>14. ASSUME NEW x \in Coros, PutQuitEnd(x) PROVE Where'
  BY <1>14, <1>0, <1>r, <1>h DEF PutQuitEnd, FailClosed, PutIdle, WakeHead, Down, Release,
    Gone, Done, Where
<1>15. ASSUME NEW x \in Users, Get(x) PROVE Where'
  BY <1>15, <1>0, <1>r, <1>h DEF Get, Where
<1>16. ASSUME NEW x \in Users, GetFails(x) PROVE Where'
  BY <1>16, <1>0, <1>r, <1>h DEF GetFails, Where
<1>17. ASSUME NEW x \in Users, GetWait(x) PROVE Where'
  BY <1>17, <1>0, <1>r, <1>h DEF GetWait, Where
<1>18. ASSUME NEW x \in Users, Expire(x) PROVE Where'
  BY <1>18, <1>0, <1>r, <1>h DEF Expire, Where
<1>19. ASSUME NEW x \in Users, Woke(x) PROVE Where'
  BY <1>19, <1>0, <1>r, <1>h DEF Woke, Release, Where
<1>20. ASSUME NEW x \in Users, NEW k \in Conns, GetTake(x, k) PROVE Where'
  BY <1>20, <1>0, <1>r, <1>h DEF GetTake, Checkout, Where
<1>21. ASSUME NEW x \in Users, Free(x) PROVE Where'
  BY <1>21, <1>0, <1>r, <1>h DEF Free, Where
<1>22. ASSUME NEW x \in Users, FreeTick(x) PROVE Where'
  BY <1>22, <1>0, <1>r, <1>h DEF FreeTick, Where
<1>23. ASSUME NEW x \in Users, FreeQuitEnd(x) PROVE Where'
  BY <1>23, <1>0, <1>r, <1>h DEF FreeQuitEnd, Down, Where
<1>24. ASSUME NEW x \in Users, FreeEnd(x) PROVE Where'
  BY <1>24, <1>0, <1>r, <1>h DEF FreeEnd, Release, Where
<1>25. ASSUME NEW x \in Users, NEW k \in Conns, FreeIdle(x, k) PROVE Where'
  BY <1>25, <1>0, <1>r, <1>h DEF FreeIdle, Where
<1>26. ASSUME NEW x \in Users, NEW k \in Conns, Add(x, k) PROVE Where'
  BY <1>26, <1>0, <1>r, <1>h DEF Add, Where
<1>27. ASSUME NEW k \in Conns, Break(k) PROVE Where'
  BY <1>27, <1>0, <1>r, <1>h DEF Break, Where
<1>28. ASSUME NEW k \in Conns, CoolDown(k) PROVE Where'
  BY <1>28, <1>0, <1>r, <1>h DEF CoolDown, Where
<1>29. CASE TickStart
  BY <1>29, <1>0, <1>r, <1>h DEF TickStart, Where
<1>30. CASE TickWait
  BY <1>30, <1>0, <1>r, <1>h DEF TickWait, Where
<1>31. CASE TickTimer
  BY <1>31, <1>0, <1>r, <1>h DEF TickTimer, Where
<1>32. CASE ReapEnd
  BY <1>32, <1>0, <1>r, <1>h DEF ReapEnd, FailClosed, PutIdle, WakeHead, Down, Release, Gone,
    Where
<1>33. CASE TickAgain
  BY <1>33, <1>0, <1>r, <1>h DEF TickAgain, Where
<1>34. CASE TickExit
  BY <1>34, <1>0, <1>r, <1>h DEF TickExit, Release, Where
<1>35. ASSUME NEW k \in Conns, Reap(k) PROVE Where'
  BY <1>35, <1>0, <1>r, <1>h DEF Reap, Where
<1>36. ASSUME NEW k \in Conns, Fill(k) PROVE Where'
  BY <1>36, <1>0, <1>r, <1>h DEF Fill, Checkout, Where
<1> QED BY <1>1, <1>2, <1>3, <1>4, <1>5, <1>6, <1>7, <1>8, <1>9, <1>10, <1>11, <1>12, <1>13,
  <1>14, <1>15, <1>16, <1>17, <1>18, <1>19, <1>20, <1>21, <1>22, <1>23, <1>24, <1>25, <1>26,
  <1>27, <1>28, <1>29, <1>30, <1>31, <1>32, <1>33, <1>34, <1>35, <1>36 DEF Next, Borrow,
  Server, Return, Maintain, Destroy

\* What a step does to the queue and the lists, as sets.
LEMMA QueueMoves ==
  ASSUME TypeOK, Standing
  PROVE  /\ queue' = queue => Queued' = Queued /\ IsInjective(queue)'
         /\ waking' = waking => \A y \in Coros : Listed(y)' = Listed(y) /\ IsInjective(waking[y])'
         /\ queue # <<>> <=> Queued # {}
         /\ \A y \in Coros : waking[y] # <<>> <=> Listed(y) # {}
         /\ queue # <<>> => Head(queue) \in Queued /\ Head(queue) \in Users
         /\ queue' = <<>> => Queued' = {} /\ IsInjective(queue)'
         /\ queue # <<>> /\ queue' = Tail(queue) =>
              Queued' = Queued \ {Head(queue)} /\ IsInjective(queue)'
         /\ \A x \in Users : x \notin Queued /\ queue' = Append(queue, x) =>
              Queued' = Queued \cup {x} /\ IsInjective(queue)'
         /\ \A i \in DOMAIN queue : queue' = RemoveAt(queue, i) =>
              Queued' = Queued \ {queue[i]} /\ IsInjective(queue)'
         /\ \A x \in Coros : waking' = [waking EXCEPT ![x] = queue] =>
              /\ Listed(x)' = Queued /\ \A y \in Coros : y # x => Listed(y)' = Listed(y)
              /\ \A y \in Coros : IsInjective(waking[y])'
         /\ \A x \in Coros : waking[x] # <<>> =>
              Head(waking[x]) \in Listed(x) /\ Head(waking[x]) \in Users
         /\ \A x \in Coros : waking[x] # <<>> /\ waking' = [waking EXCEPT ![x] = Tail(@)] =>
              /\ Listed(x)' = Listed(x) \ {Head(waking[x])}
              /\ \A y \in Coros : y # x => Listed(y)' = Listed(y)
              /\ \A y \in Coros : IsInjective(waking[y])'
<1>1. queue \in Seq(Users) /\ waking \in [Coros -> Seq(Users)]
  BY DEF TypeOK
<1>2. IsInjective(queue) /\ \A y \in Coros : IsInjective(waking[y])
  BY DEF Standing
<1>3. queue' = queue => Queued' = Queued /\ IsInjective(queue)'
  BY <1>2 DEF Queued
<1>4. waking' = waking => \A y \in Coros : Listed(y)' = Listed(y) /\ IsInjective(waking[y])'
  BY <1>2 DEF Listed
<1>5. queue # <<>> <=> Queued # {}
  BY <1>1, EmptyQueue DEF Queued
<1>6. ASSUME NEW y \in Coros
      PROVE  waking[y] # <<>> <=> Listed(y) # {}
  <2>1. waking[y] \in Seq(Users) BY <1>1
  <2> QED BY <2>1, EmptyQueue DEF Listed
<1>7. queue # <<>> => Head(queue) \in Queued /\ Head(queue) \in Users
  BY <1>1, <1>2, HeadTail DEF Queued
<1>8. queue' = <<>> => Queued' = {} /\ IsInjective(queue)'
  <2>1. <<>> \in Seq(Users) OBVIOUS
  <2> QED BY <2>1, EmptyQueue DEF Queued
<1>9. queue # <<>> /\ queue' = Tail(queue) =>
        Queued' = Queued \ {Head(queue)} /\ IsInjective(queue)'
  BY <1>1, <1>2, HeadTail DEF Queued
<1>10. \A x \in Users : x \notin Queued /\ queue' = Append(queue, x) =>
         Queued' = Queued \cup {x} /\ IsInjective(queue)'
  BY <1>1, <1>2, AtTheEnd DEF Queued
<1>11. \A i \in DOMAIN queue : queue' = RemoveAt(queue, i) =>
         Queued' = Queued \ {queue[i]} /\ IsInjective(queue)'
  BY <1>1, <1>2, Taken DEF Queued
<1>12. ASSUME NEW x \in Coros, waking' = [waking EXCEPT ![x] = queue]
       PROVE  /\ Listed(x)' = Queued /\ \A y \in Coros : y # x => Listed(y)' = Listed(y)
              /\ \A y \in Coros : IsInjective(waking[y])'
  <2>1. waking'[x] = queue /\ \A y \in Coros : y # x => waking'[y] = waking[y]
    BY <1>1, <1>12
  <2> QED BY <1>2, <2>1 DEF Queued, Listed
<1>13. ASSUME NEW x \in Coros, waking[x] # <<>>
       PROVE  /\ Head(waking[x]) \in Listed(x) /\ Head(waking[x]) \in Users
              /\ ToSet(Tail(waking[x])) = Listed(x) \ {Head(waking[x])}
              /\ IsInjective(Tail(waking[x]))
  <2>1. waking[x] \in Seq(Users) BY <1>1
  <2> QED BY <1>2, <1>13, <2>1, HeadTail DEF Listed
<1>14. ASSUME NEW x \in Coros, waking[x] # <<>>, waking' = [waking EXCEPT ![x] = Tail(@)]
       PROVE  /\ Listed(x)' = Listed(x) \ {Head(waking[x])}
              /\ \A y \in Coros : y # x => Listed(y)' = Listed(y)
              /\ \A y \in Coros : IsInjective(waking[y])'
  <2>1. waking'[x] = Tail(waking[x]) /\ \A y \in Coros : y # x => waking'[y] = waking[y]
    BY <1>1, <1>14
  <2>2. Listed(x)' = Listed(x) \ {Head(waking[x])} BY <1>13, <1>14, <2>1 DEF Listed
  <2>3. \A y \in Coros : y # x => Listed(y)' = Listed(y) BY <2>1 DEF Listed
  <2>4. \A y \in Coros : IsInjective(waking[y])' BY <1>2, <1>13, <1>14, <2>1
  <2> QED BY <2>2, <2>3, <2>4
<1> QED
  BY <1>3, <1>4, <1>5, <1>6, <1>7, <1>8, <1>9, <1>10, <1>11, <1>12, <1>13, <1>14

\* Nobody comes to stand in a queue twice.
LEMMA StandingStep ==
  ASSUME IInv, [Next]_vars
  PROVE  Standing'
<1>0. \A x \in Users : x \in Queued => at[x] = "wait"
  BY DEF IInv, Queues
<1>q. /\ queue' = queue => IsInjective(queue)'
      /\ waking' = waking => \A y \in Coros : IsInjective(waking[y])'
      /\ queue' = <<>> => IsInjective(queue)'
      /\ queue # <<>> /\ queue' = Tail(queue) => IsInjective(queue)'
      /\ \A x \in Users : x \notin Queued /\ queue' = Append(queue, x) => IsInjective(queue)'
      /\ \A i \in DOMAIN queue : queue' = RemoveAt(queue, i) => IsInjective(queue)'
      /\ \A x \in Coros : waking' = [waking EXCEPT ![x] = queue] =>
           \A y \in Coros : IsInjective(waking[y])'
      /\ \A x \in Coros : waking[x] # <<>> /\ waking' = [waking EXCEPT ![x] = Tail(@)] =>
           \A y \in Coros : IsInjective(waking[y])'
  BY QueueMoves DEF IInv
<1>1. CASE UNCHANGED vars
  BY <1>1, <1>0, <1>q DEF vars, Standing
<1>2. ASSUME NEW x \in Coros, Start(x) PROVE Standing'
  BY <1>2, <1>0, <1>q DEF Start, Standing
<1>3. ASSUME NEW x \in Coros, Finish(x) PROVE Standing'
  BY <1>3, <1>0, <1>q DEF Finish, Standing
<1>4. ASSUME NEW x \in Coros, Half(x) PROVE Standing'
  BY <1>4, <1>0, <1>q DEF Half, Standing
<1>5. ASSUME NEW x \in Coros, FailQuitEnd(x) PROVE Standing'
  BY <1>5, <1>0, <1>q DEF FailQuitEnd, FailClosed, Down, Release, Gone, Standing
<1>6. ASSUME NEW x \in Coros, RenewEnd(x) PROVE Standing'
  BY <1>6, <1>0, <1>q DEF RenewEnd, FailClosed, Down, Release, Gone, Standing
<1>7. ASSUME NEW x \in Coros, OpenOk(x) PROVE Standing'
  BY <1>7, <1>0, <1>q DEF OpenOk, QuitClosed, Standing
<1>8. ASSUME NEW x \in Coros, OpenFailed(x) PROVE Standing'
  BY <1>8, <1>0, <1>q DEF OpenFailed, QuitClosed, PutIdle, Down, Standing
<1>9. ASSUME NEW x \in Coros, WakeAllNext(x) PROVE Standing'
  BY <1>9, <1>0, <1>q DEF WakeAllNext, Standing
<1>10. ASSUME NEW x \in Coros, WakeAllEnd(x) PROVE Standing'
  BY <1>10, <1>0, <1>q DEF WakeAllEnd, Gone, Standing
<1>11. ASSUME NEW x \in Coros, Put(x) PROVE Standing'
  BY <1>11, <1>0, <1>q DEF Put, Standing
<1>12. ASSUME NEW x \in Coros, ResetFailed(x) PROVE Standing'
  BY <1>12, <1>0, <1>q DEF ResetFailed, Standing
<1>13. ASSUME NEW x \in Coros, ResetOk(x) PROVE Standing'
  BY <1>13, <1>0, <1>q DEF ResetOk, QuitClosed, PutIdle, Done, Standing
<1>14. ASSUME NEW x \in Coros, PutQuitEnd(x) PROVE Standing'
  BY <1>14, <1>0, <1>q DEF PutQuitEnd, FailClosed, PutIdle, WakeHead, Down, Release, Gone,
    Done, Standing
<1>15. ASSUME NEW x \in Users, Get(x) PROVE Standing'
  BY <1>15, <1>0, <1>q DEF Get, Standing
<1>16. ASSUME NEW x \in Users, GetFails(x) PROVE Standing'
  BY <1>16, <1>0, <1>q DEF GetFails, Standing
<1>17. ASSUME NEW x \in Users, GetWait(x) PROVE Standing'
  BY <1>17, <1>0, <1>q DEF GetWait, Standing
<1>18. ASSUME NEW x \in Users, Expire(x) PROVE Standing'
  BY <1>18, <1>0, <1>q DEF Expire, Standing
<1>19. ASSUME NEW x \in Users, Woke(x) PROVE Standing'
  BY <1>19, <1>0, <1>q DEF Woke, Release, Standing
<1>20. ASSUME NEW x \in Users, NEW k \in Conns, GetTake(x, k) PROVE Standing'
  BY <1>20, <1>0, <1>q DEF GetTake, Checkout, Standing
<1>21. ASSUME NEW x \in Users, Free(x) PROVE Standing'
  BY <1>21, <1>0, <1>q DEF Free, Standing
<1>22. ASSUME NEW x \in Users, FreeTick(x) PROVE Standing'
  BY <1>22, <1>0, <1>q DEF FreeTick, Standing
<1>23. ASSUME NEW x \in Users, FreeQuitEnd(x) PROVE Standing'
  BY <1>23, <1>0, <1>q DEF FreeQuitEnd, Down, Standing
<1>24. ASSUME NEW x \in Users, FreeEnd(x) PROVE Standing'
  BY <1>24, <1>0, <1>q DEF FreeEnd, Release, Standing
<1>25. ASSUME NEW x \in Users, NEW k \in Conns, FreeIdle(x, k) PROVE Standing'
  BY <1>25, <1>0, <1>q DEF FreeIdle, Standing
<1>26. ASSUME NEW x \in Users, NEW k \in Conns, Add(x, k) PROVE Standing'
  BY <1>26, <1>0, <1>q DEF Add, Standing
<1>27. ASSUME NEW k \in Conns, Break(k) PROVE Standing'
  BY <1>27, <1>0, <1>q DEF Break, Standing
<1>28. ASSUME NEW k \in Conns, CoolDown(k) PROVE Standing'
  BY <1>28, <1>0, <1>q DEF CoolDown, Standing
<1>29. CASE TickStart
  BY <1>29, <1>0, <1>q DEF TickStart, Standing
<1>30. CASE TickWait
  BY <1>30, <1>0, <1>q DEF TickWait, Standing
<1>31. CASE TickTimer
  BY <1>31, <1>0, <1>q DEF TickTimer, Standing
<1>32. CASE ReapEnd
  BY <1>32, <1>0, <1>q DEF ReapEnd, FailClosed, PutIdle, WakeHead, Down, Release, Gone, Standing
<1>33. CASE TickAgain
  BY <1>33, <1>0, <1>q DEF TickAgain, Standing
<1>34. CASE TickExit
  BY <1>34, <1>0, <1>q DEF TickExit, Release, Standing
<1>35. ASSUME NEW k \in Conns, Reap(k) PROVE Standing'
  BY <1>35, <1>0, <1>q DEF Reap, Standing
<1>36. ASSUME NEW k \in Conns, Fill(k) PROVE Standing'
  BY <1>36, <1>0, <1>q DEF Fill, Checkout, Standing
<1> QED BY <1>1, <1>2, <1>3, <1>4, <1>5, <1>6, <1>7, <1>8, <1>9, <1>10, <1>11, <1>12, <1>13,
  <1>14, <1>15, <1>16, <1>17, <1>18, <1>19, <1>20, <1>21, <1>22, <1>23, <1>24, <1>25, <1>26,
  <1>27, <1>28, <1>29, <1>30, <1>31, <1>32, <1>33, <1>34, <1>35, <1>36 DEF Next, Borrow,
  Server, Return, Maintain, Destroy

\* Who waits stands in the queue or in one list, and nobody else does.
LEMMA QueuesStep ==
  ASSUME IInv, [Next]_vars
  PROVE  Queues'
<1>0. at \in [Coros -> Places] /\ Queues
  BY DEF IInv, TypeOK
<1>q. /\ queue' = queue => Queued' = Queued
      /\ waking' = waking => \A y \in Coros : Listed(y)' = Listed(y)
      /\ queue # <<>> <=> Queued # {}
      /\ \A y \in Coros : waking[y] # <<>> <=> Listed(y) # {}
      /\ queue # <<>> => Head(queue) \in Queued /\ Head(queue) \in Users
      /\ queue' = <<>> => Queued' = {}
      /\ queue # <<>> /\ queue' = Tail(queue) => Queued' = Queued \ {Head(queue)}
      /\ \A x \in Users : x \notin Queued /\ queue' = Append(queue, x) =>
           Queued' = Queued \cup {x}
      /\ \A i \in DOMAIN queue : queue' = RemoveAt(queue, i) => Queued' = Queued \ {queue[i]}
      /\ \A x \in Coros : waking' = [waking EXCEPT ![x] = queue] =>
           /\ Listed(x)' = Queued /\ \A y \in Coros : y # x => Listed(y)' = Listed(y)
      /\ \A x \in Coros : waking[x] # <<>> =>
           Head(waking[x]) \in Listed(x) /\ Head(waking[x]) \in Users
      /\ \A x \in Coros : waking[x] # <<>> /\ waking' = [waking EXCEPT ![x] = Tail(@)] =>
           /\ Listed(x)' = Listed(x) \ {Head(waking[x])}
           /\ \A y \in Coros : y # x => Listed(y)' = Listed(y)
  BY QueueMoves DEF IInv
<1>1. CASE UNCHANGED vars
  BY <1>1, <1>0, <1>q DEF vars, Queues
<1>2. ASSUME NEW x \in Coros, Start(x) PROVE Queues'
  BY <1>2, <1>0, <1>q DEF Start, Queues
<1>3. ASSUME NEW x \in Coros, Finish(x) PROVE Queues'
  BY <1>3, <1>0, <1>q DEF Finish, Queues
<1>4. ASSUME NEW x \in Coros, Half(x) PROVE Queues'
  BY <1>4, <1>0, <1>q DEF Half, Queues
<1>5. ASSUME NEW x \in Coros, FailQuitEnd(x) PROVE Queues'
  BY <1>5, <1>0, <1>q DEF FailQuitEnd, FailClosed, Down, Release, Gone, Queues
<1>6. ASSUME NEW x \in Coros, RenewEnd(x) PROVE Queues'
  <2>1. CASE closed
    BY <1>6, <2>1, <1>0, <1>q DEF RenewEnd, FailClosed, Down, Release, Gone, Queues
  <2>2. CASE ~closed
    BY <1>6, <2>2, <1>0, <1>q DEF RenewEnd, FailClosed, Down, Release, Gone, Queues
  <2> QED BY <2>1, <2>2
<1>7. ASSUME NEW x \in Coros, OpenOk(x) PROVE Queues'
  <2>1. CASE closed
    BY <1>7, <2>1, <1>0, <1>q DEF OpenOk, QuitClosed, Queues
  <2>2. CASE ~closed
    BY <1>7, <2>2, <1>0, <1>q DEF OpenOk, QuitClosed, Queues
  <2> QED BY <2>1, <2>2
<1>8. ASSUME NEW x \in Coros, OpenFailed(x) PROVE Queues'
  <2>1. CASE closed
    BY <1>8, <2>1, <1>0, <1>q DEF OpenFailed, QuitClosed, PutIdle, Down, Queues
  <2>2. CASE ~closed /\ waiters > 0 /\ busy = 1
    BY <1>8, <2>2, <1>0, <1>q DEF OpenFailed, QuitClosed, PutIdle, Down, Queues
  <2>3. CASE ~closed /\ ~(waiters > 0 /\ busy = 1)
    BY <1>8, <2>3, <1>0, <1>q DEF OpenFailed, QuitClosed, PutIdle, Down, Queues
  <2> QED BY <2>1, <2>2, <2>3
<1>9. ASSUME NEW x \in Coros, WakeAllNext(x) PROVE Queues'
  <2> DEFINE w == Head(waking[x])
  <2>1. waking[x] # <<>> /\ w \in Listed(x) /\ w \in Users /\ at[w] = "wait"
    BY <1>9, <1>0, <1>q DEF WakeAllNext, Queues
  <2>2. closed' = closed /\ Queued' = Queued
    BY <1>9, <1>q DEF WakeAllNext
  <2>3. Listed(x)' = Listed(x) \ {w} /\ \A y \in Coros : y # x => Listed(y)' = Listed(y)
    BY <1>9, <1>q, <2>1 DEF WakeAllNext
  <2>4. \A y \in Coros : at'[y] = IF y = w THEN "woke" ELSE at[y]
    BY <1>9, <1>0 DEF WakeAllNext
  <2> HIDE DEF w
  <2>g1. \A z \in Users : at'[z] = "wait" <=> z \in Queued' \/ \E y \in Coros : z \in Listed(y)'
    BY <1>0, <2>1, <2>2, <2>3, <2>4 DEF Queues
  <2>g2. \A y \in Coros : Queued' \cap Listed(y)' = {}
    BY <1>0, <2>1, <2>2, <2>3, <2>4 DEF Queues
  <2>g3. \A y, z \in Coros : y # z => Listed(y)' \cap Listed(z)' = {}
    BY <1>0, <2>1, <2>2, <2>3, <2>4 DEF Queues
  <2>g4. \A y \in Coros : Listed(y)' # {} => at'[y] \in {"wakeall", "free"}
    BY <1>0, <2>1, <2>2, <2>3, <2>4 DEF Queues
  <2>g5. closed' => Queued' = {}
    BY <1>0, <2>1, <2>2, <2>3, <2>4 DEF Queues
  <2> QED BY <2>g1, <2>g2, <2>g3, <2>g4, <2>g5 DEF Queues
<1>10. ASSUME NEW x \in Coros, WakeAllEnd(x) PROVE Queues'
  BY <1>10, <1>0, <1>q DEF WakeAllEnd, Gone, Queues
<1>11. ASSUME NEW x \in Coros, Put(x) PROVE Queues'
  <2>1. CASE closed
    BY <1>11, <2>1, <1>0, <1>q DEF Put, Queues
  <2>2. CASE ~closed
    BY <1>11, <2>2, <1>0, <1>q DEF Put, Queues
  <2> QED BY <2>1, <2>2
<1>12. ASSUME NEW x \in Coros, ResetFailed(x) PROVE Queues'
  BY <1>12, <1>0, <1>q DEF ResetFailed, Queues
<1>13. ASSUME NEW x \in Coros, ResetOk(x) PROVE Queues'
  <2>1. CASE closed
    BY <1>13, <2>1, <1>0, <1>q DEF ResetOk, QuitClosed, PutIdle, Done, Queues
  <2>2. CASE ~closed /\ queue # <<>>
    BY <1>13, <2>2, <1>0, <1>q DEF ResetOk, QuitClosed, PutIdle, Done, Queues
  <2>3. CASE ~closed /\ queue = <<>>
    BY <1>13, <2>3, <1>0, <1>q DEF ResetOk, QuitClosed, PutIdle, Done, Queues
  <2> QED BY <2>1, <2>2, <2>3
<1>14. ASSUME NEW x \in Coros, PutQuitEnd(x) PROVE Queues'
  <2>1. CASE closed
    BY <1>14, <2>1, <1>0, <1>q DEF PutQuitEnd, FailClosed, Gone, Queues
  <2>2. CASE ~closed /\ queue = <<>>
    BY <1>14, <2>2, <1>0, <1>q DEF PutQuitEnd, WakeHead, Done, Queues
  <2>3. CASE ~closed /\ queue # <<>>
    <3> DEFINE w == Head(queue)
    <3>1. /\ w \in Queued /\ w \in Users /\ at[w] = "wait" /\ at[x] = "putquit"
          /\ closed' = closed /\ Queued' = Queued \ {w}
      BY <1>14, <2>3, <1>0, <1>q DEF PutQuitEnd, WakeHead, Queues
    <3>2. \A y \in Coros : Listed(y)' = Listed(y)
      BY <1>14, <2>3, <1>q DEF PutQuitEnd, WakeHead
    <3>3. \A y \in Coros : at'[y] = IF y = w THEN "woke" ELSE IF y = x THEN Done(x) ELSE at[y]
      BY <1>14, <2>3, <1>0 DEF PutQuitEnd, WakeHead
    <3>4. Done(x) \in {"fill", "out"} /\ Listed(x) = {}
      BY <1>0, <3>1 DEF Done, Queues
    <3> HIDE DEF w
    <3>g1. \A z \in Users : at'[z] = "wait" <=> z \in Queued' \/ \E y \in Coros : z \in Listed(y)'
      BY <1>0, <3>1, <3>2, <3>3, <3>4 DEF Queues
    <3>g2. \A y \in Coros : Queued' \cap Listed(y)' = {}
      BY <1>0, <3>1, <3>2, <3>3, <3>4 DEF Queues
    <3>g3. \A y, z \in Coros : y # z => Listed(y)' \cap Listed(z)' = {}
      BY <1>0, <3>1, <3>2, <3>3, <3>4 DEF Queues
    <3>g4. \A y \in Coros : Listed(y)' # {} => at'[y] \in {"wakeall", "free"}
      BY <1>0, <3>1, <3>2, <3>3, <3>4 DEF Queues
    <3>g5. closed' => Queued' = {}
      BY <1>0, <3>1, <3>2, <3>3, <3>4 DEF Queues
    <3> QED BY <3>g1, <3>g2, <3>g3, <3>g4, <3>g5 DEF Queues
  <2> QED BY <2>1, <2>2, <2>3
<1>15. ASSUME NEW x \in Users, Get(x) PROVE Queues'
  BY <1>15, <1>0, <1>q DEF Get, Queues
<1>16. ASSUME NEW x \in Users, GetFails(x) PROVE Queues'
  BY <1>16, <1>0, <1>q DEF GetFails, Queues
<1>17. ASSUME NEW x \in Users, GetWait(x) PROVE Queues'
  BY <1>17, <1>0, <1>q DEF GetWait, Queues
<1>18. ASSUME NEW x \in Users, Expire(x) PROVE Queues'
  <2>1. PICK i \in DOMAIN queue : queue[i] = x /\ queue' = RemoveAt(queue, i)
    BY <1>18 DEF Expire
  <2>2. at[x] = "wait" /\ closed' = closed /\ Queued' = Queued \ {x}
    BY <1>18, <1>q, <2>1 DEF Expire
  <2>3. \A y \in Coros : Listed(y)' = Listed(y)
    BY <1>18, <1>q DEF Expire
  <2>4. \A y \in Coros : at'[y] = IF y = x THEN "woke" ELSE at[y]
    BY <1>18, <1>0 DEF Expire
  <2>5. x \in Queued
    BY <2>1 DEF Queued, ToSet
  <2>g1. \A z \in Users : at'[z] = "wait" <=> z \in Queued' \/ \E y \in Coros : z \in Listed(y)'
    BY <1>0, <2>2, <2>3, <2>4, <2>5 DEF Queues
  <2>g2. \A y \in Coros : Queued' \cap Listed(y)' = {}
    BY <1>0, <2>2, <2>3, <2>4, <2>5 DEF Queues
  <2>g3. \A y, z \in Coros : y # z => Listed(y)' \cap Listed(z)' = {}
    BY <1>0, <2>2, <2>3, <2>4, <2>5 DEF Queues
  <2>g4. \A y \in Coros : Listed(y)' # {} => at'[y] \in {"wakeall", "free"}
    BY <1>0, <2>2, <2>3, <2>4, <2>5 DEF Queues
  <2>g5. closed' => Queued' = {}
    BY <1>0, <2>2, <2>3, <2>4, <2>5 DEF Queues
  <2> QED BY <2>g1, <2>g2, <2>g3, <2>g4, <2>g5 DEF Queues
<1>19. ASSUME NEW x \in Users, Woke(x) PROVE Queues'
  <2>1. CASE closed
    BY <1>19, <2>1, <1>0, <1>q DEF Woke, Release, Queues
  <2>2. CASE ~closed /\ con[x] = Nil
    BY <1>19, <2>2, <1>0, <1>q DEF Woke, Release, Queues
  <2>3. CASE ~closed /\ con[x] # Nil
    BY <1>19, <2>3, <1>0, <1>q DEF Woke, Release, Queues
  <2> QED BY <2>1, <2>2, <2>3
<1>20. ASSUME NEW x \in Users, NEW k \in Conns, GetTake(x, k) PROVE Queues'
  <2>1. CASE link[k] = "ready"
    BY <1>20, <2>1, <1>0, <1>q DEF GetTake, Checkout, Queues
  <2>2. CASE link[k] # "ready"
    BY <1>20, <2>2, <1>0, <1>q DEF GetTake, Checkout, Queues
  <2> QED BY <2>1, <2>2
<1>21. ASSUME NEW x \in Users, Free(x) PROVE Queues'
  <2>1. at[x] = "out" /\ Queued' = {}
    BY <1>21, <1>q DEF Free
  <2>2. Listed(x)' = Queued /\ \A y \in Coros : y # x => Listed(y)' = Listed(y)
    BY <1>21, <1>q DEF Free
  <2>3. \A y \in Coros : at'[y] = IF y = x THEN "free" ELSE at[y]
    BY <1>21, <1>0 DEF Free
  <2>4. Listed(x) = {}
    BY <1>0, <2>1 DEF Queues
  <2>g1. \A z \in Users : at'[z] = "wait" <=> z \in Queued' \/ \E y \in Coros : z \in Listed(y)'
    BY <1>0, <2>1, <2>2, <2>3, <2>4 DEF Queues
  <2>g2. \A y \in Coros : Queued' \cap Listed(y)' = {}
    BY <1>0, <2>1, <2>2, <2>3, <2>4 DEF Queues
  <2>g3. \A y, z \in Coros : y # z => Listed(y)' \cap Listed(z)' = {}
    BY <1>0, <2>1, <2>2, <2>3, <2>4 DEF Queues
  <2>g4. \A y \in Coros : Listed(y)' # {} => at'[y] \in {"wakeall", "free"}
    BY <1>0, <2>1, <2>2, <2>3, <2>4 DEF Queues
  <2>g5. closed' => Queued' = {}
    BY <1>0, <2>1, <2>2, <2>3, <2>4 DEF Queues
  <2> QED BY <2>g1, <2>g2, <2>g3, <2>g4, <2>g5 DEF Queues
<1>22. ASSUME NEW x \in Users, FreeTick(x) PROVE Queues'
  <2>1. CASE at[Tick] = "tick"
    BY <1>22, <2>1, <1>0, <1>q DEF FreeTick, Queues
  <2>2. CASE at[Tick] # "tick"
    BY <1>22, <2>2, <1>0, <1>q DEF FreeTick, Queues
  <2> QED BY <2>1, <2>2
<1>23. ASSUME NEW x \in Users, FreeQuitEnd(x) PROVE Queues'
  BY <1>23, <1>0, <1>q DEF FreeQuitEnd, Down, Queues
<1>24. ASSUME NEW x \in Users, FreeEnd(x) PROVE Queues'
  BY <1>24, <1>0, <1>q DEF FreeEnd, Release, Queues
<1>25. ASSUME NEW x \in Users, NEW k \in Conns, FreeIdle(x, k) PROVE Queues'
  BY <1>25, <1>0, <1>q DEF FreeIdle, Queues
<1>26. ASSUME NEW x \in Users, NEW k \in Conns, Add(x, k) PROVE Queues'
  BY <1>26, <1>0, <1>q DEF Add, Queues
<1>27. ASSUME NEW k \in Conns, Break(k) PROVE Queues'
  BY <1>27, <1>0, <1>q DEF Break, Queues
<1>28. ASSUME NEW k \in Conns, CoolDown(k) PROVE Queues'
  BY <1>28, <1>0, <1>q DEF CoolDown, Queues
<1>29. CASE TickStart
  BY <1>29, <1>0, <1>q DEF TickStart, Queues
<1>30. CASE TickWait
  BY <1>30, <1>0, <1>q DEF TickWait, Queues
<1>31. CASE TickTimer
  BY <1>31, <1>0, <1>q DEF TickTimer, Queues
<1>32. CASE ReapEnd
  <2>1. CASE closed
    BY <1>32, <2>1, <1>0, <1>q DEF ReapEnd, FailClosed, PutIdle, WakeHead, Down, Release, Gone,
      Queues
  <2>2. CASE ~closed /\ queue # <<>>
    BY <1>32, <2>2, <1>0, <1>q DEF ReapEnd, FailClosed, PutIdle, WakeHead, Down, Release, Gone,
      Queues
  <2>3. CASE ~closed /\ queue = <<>>
    BY <1>32, <2>3, <1>0, <1>q DEF ReapEnd, FailClosed, PutIdle, WakeHead, Down, Release, Gone,
      Queues
  <2> QED BY <2>1, <2>2, <2>3
<1>33. CASE TickAgain
  BY <1>33, <1>0, <1>q DEF TickAgain, Queues
<1>34. CASE TickExit
  BY <1>34, <1>0, <1>q DEF TickExit, Release, Queues
<1>35. ASSUME NEW k \in Conns, Reap(k) PROVE Queues'
  BY <1>35, <1>0, <1>q DEF Reap, Queues
<1>36. ASSUME NEW k \in Conns, Fill(k) PROVE Queues'
  <2>1. CASE link[k] = "ready"
    BY <1>36, <2>1, <1>0, <1>q DEF Fill, Checkout, Queues
  <2>2. CASE link[k] # "ready"
    BY <1>36, <2>2, <1>0, <1>q DEF Fill, Checkout, Queues
  <2> QED BY <2>1, <2>2
<1> QED BY <1>1, <1>2, <1>3, <1>4, <1>5, <1>6, <1>7, <1>8, <1>9, <1>10, <1>11, <1>12, <1>13,
  <1>14, <1>15, <1>16, <1>17, <1>18, <1>19, <1>20, <1>21, <1>22, <1>23, <1>24, <1>25, <1>26,
  <1>27, <1>28, <1>29, <1>30, <1>31, <1>32, <1>33, <1>34, <1>35, <1>36 DEF Next, Borrow,
  Server, Return, Maintain, Destroy

\* A connection stays in one pair of hands.
LEMMA HandsStep ==
  ASSUME IInv, [Next]_vars
  PROVE  Hands'
<1>0. at \in [Coros -> Places] /\ con \in [Coros -> Conns \cup {Nil}] /\ Hands
      /\ idle \subseteq added /\ added \subseteq Conns
      /\ \A x \in Coros : at[x] \in {"get", "woke"} => Top = x
  BY DEF IInv, TypeOK, Where
<1>h. /\ queue # <<>> => Head(queue) \in Users /\ at[Head(queue)] = "wait"
      /\ \A y \in Coros : waking[y] # <<>> =>
           Head(waking[y]) \in Users /\ at[Head(waking[y])] = "wait"
  BY Heads DEF IInv
<1>1. CASE UNCHANGED vars
  BY <1>1, <1>0, <1>h DEF vars, Hands, InHand, Usable, Ready
<1>2. ASSUME NEW x \in Coros, Start(x) PROVE Hands'
  BY <1>2, <1>0, <1>h DEF Start, Hands, InHand, Usable, Ready
<1>3. ASSUME NEW x \in Coros, Finish(x) PROVE Hands'
  BY <1>3, <1>0, <1>h DEF Finish, Hands, InHand, Usable, Ready
<1>4. ASSUME NEW x \in Coros, Half(x) PROVE Hands'
  BY <1>4, <1>0, <1>h DEF Half, Hands, InHand, Usable, Ready
<1>5. ASSUME NEW x \in Coros, FailQuitEnd(x) PROVE Hands'
  BY <1>5, <1>0, <1>h DEF FailQuitEnd, FailClosed, Down, Release, Gone, Hands, InHand, Usable,
    Ready
<1>6. ASSUME NEW x \in Coros, RenewEnd(x) PROVE Hands'
  <2>1. CASE closed
    BY <1>6, <2>1, <1>0, <1>h DEF RenewEnd, FailClosed, Down, Release, Gone, Hands, InHand,
      Usable, Ready
  <2>2. CASE ~closed
    BY <1>6, <2>2, <1>0, <1>h DEF RenewEnd, FailClosed, Down, Release, Gone, Hands, InHand,
      Usable, Ready
  <2> QED BY <2>1, <2>2
<1>7. ASSUME NEW x \in Coros, OpenOk(x) PROVE Hands'
  <2>1. CASE closed
    BY <1>7, <2>1, <1>0, <1>h DEF OpenOk, QuitClosed, Hands, InHand, Usable, Ready
  <2>2. CASE ~closed
    BY <1>7, <2>2, <1>0, <1>h DEF OpenOk, QuitClosed, Hands, InHand, Usable, Ready
  <2> QED BY <2>1, <2>2
<1>8. ASSUME NEW x \in Coros, OpenFailed(x) PROVE Hands'
  <2>1. CASE closed
    BY <1>8, <2>1, <1>0, <1>h DEF OpenFailed, QuitClosed, PutIdle, Down, Hands, InHand, Usable,
      Ready
  <2>2. CASE ~closed /\ waiters > 0 /\ busy = 1
    BY <1>8, <2>2, <1>0, <1>h DEF OpenFailed, QuitClosed, PutIdle, Down, Hands, InHand, Usable,
      Ready
  <2>3. CASE ~closed /\ ~(waiters > 0 /\ busy = 1)
    BY <1>8, <2>3, <1>0, <1>h DEF OpenFailed, QuitClosed, PutIdle, Down, Hands, InHand, Usable,
      Ready
  <2> QED BY <2>1, <2>2, <2>3
<1>9. ASSUME NEW x \in Coros, WakeAllNext(x) PROVE Hands'
  BY <1>9, <1>0, <1>h DEF WakeAllNext, Hands, InHand, Usable, Ready
<1>10. ASSUME NEW x \in Coros, WakeAllEnd(x) PROVE Hands'
  BY <1>10, <1>0, <1>h DEF WakeAllEnd, Gone, Hands, InHand, Usable, Ready
<1>11. ASSUME NEW x \in Coros, Put(x) PROVE Hands'
  <2>1. CASE closed
    BY <1>11, <2>1, <1>0, <1>h DEF Put, Hands, InHand, Usable, Ready
  <2>2. CASE ~closed
    BY <1>11, <2>2, <1>0, <1>h DEF Put, Hands, InHand, Usable, Ready
  <2> QED BY <2>1, <2>2
<1>12. ASSUME NEW x \in Coros, ResetFailed(x) PROVE Hands'
  BY <1>12, <1>0, <1>h DEF ResetFailed, Hands, InHand, Usable, Ready
<1>13. ASSUME NEW x \in Coros, ResetOk(x) PROVE Hands'
  <2>1. CASE closed
    BY <1>13, <2>1, <1>0, <1>h DEF ResetOk, QuitClosed, PutIdle, Done, Hands, InHand, Usable,
      Ready
  <2>2. CASE ~closed /\ queue # <<>>
    BY <1>13, <2>2, <1>0, <1>h DEF ResetOk, QuitClosed, PutIdle, Done, Hands, InHand, Usable,
      Ready
  <2>3. CASE ~closed /\ queue = <<>>
    BY <1>13, <2>3, <1>0, <1>h DEF ResetOk, QuitClosed, PutIdle, Done, Hands, InHand, Usable,
      Ready
  <2> QED BY <2>1, <2>2, <2>3
<1>14. ASSUME NEW x \in Coros, PutQuitEnd(x) PROVE Hands'
  <2>1. CASE closed
    BY <1>14, <2>1, <1>0, <1>h DEF PutQuitEnd, FailClosed, PutIdle, WakeHead, Down, Release,
      Gone, Done, Hands, InHand, Usable, Ready
  <2>2. CASE ~closed /\ queue # <<>>
    BY <1>14, <2>2, <1>0, <1>h DEF PutQuitEnd, FailClosed, PutIdle, WakeHead, Down, Release,
      Gone, Done, Hands, InHand, Usable, Ready
  <2>3. CASE ~closed /\ queue = <<>>
    BY <1>14, <2>3, <1>0, <1>h DEF PutQuitEnd, FailClosed, PutIdle, WakeHead, Down, Release,
      Gone, Done, Hands, InHand, Usable, Ready
  <2> QED BY <2>1, <2>2, <2>3
<1>15. ASSUME NEW x \in Users, Get(x) PROVE Hands'
  BY <1>15, <1>0, <1>h DEF Get, Hands, InHand, Usable, Ready
<1>16. ASSUME NEW x \in Users, GetFails(x) PROVE Hands'
  BY <1>16, <1>0, <1>h DEF GetFails, Hands, InHand, Usable, Ready
<1>17. ASSUME NEW x \in Users, GetWait(x) PROVE Hands'
  BY <1>17, <1>0, <1>h DEF GetWait, Hands, InHand, Usable, Ready
<1>18. ASSUME NEW x \in Users, Expire(x) PROVE Hands'
  BY <1>18, <1>0, <1>h DEF Expire, Hands, InHand, Usable, Ready
<1>19. ASSUME NEW x \in Users, Woke(x) PROVE Hands'
  <2>1. CASE closed
    BY <1>19, <2>1, <1>0, <1>h DEF Woke, Release, Hands, InHand, Usable, Ready
  <2>2. CASE ~closed /\ con[x] = Nil
    BY <1>19, <2>2, <1>0, <1>h DEF Woke, Release, Hands, InHand, Usable, Ready
  <2>3. CASE ~closed /\ con[x] # Nil
    BY <1>19, <2>3, <1>0, <1>h DEF Woke, Release, Hands, InHand, Usable, Ready
  <2> QED BY <2>1, <2>2, <2>3
<1>20. ASSUME NEW x \in Users, NEW k \in Conns, GetTake(x, k) PROVE Hands'
  <2>1. CASE link[k] = "ready"
    BY <1>20, <2>1, <1>0, <1>h DEF GetTake, Checkout, Hands, InHand, Usable, Ready
  <2>2. CASE link[k] # "ready"
    BY <1>20, <2>2, <1>0, <1>h DEF GetTake, Checkout, Hands, InHand, Usable, Ready
  <2> QED BY <2>1, <2>2
<1>21. ASSUME NEW x \in Users, Free(x) PROVE Hands'
  BY <1>21, <1>0, <1>h DEF Free, Hands, InHand, Usable, Ready
<1>22. ASSUME NEW x \in Users, FreeTick(x) PROVE Hands'
  <2>1. CASE at[Tick] = "tick"
    BY <1>22, <2>1, <1>0, <1>h DEF FreeTick, Hands, InHand, Usable, Ready
  <2>2. CASE at[Tick] # "tick"
    BY <1>22, <2>2, <1>0, <1>h DEF FreeTick, Hands, InHand, Usable, Ready
  <2> QED BY <2>1, <2>2
<1>23. ASSUME NEW x \in Users, FreeQuitEnd(x) PROVE Hands'
  BY <1>23, <1>0, <1>h DEF FreeQuitEnd, Down, Hands, InHand, Usable, Ready
<1>24. ASSUME NEW x \in Users, FreeEnd(x) PROVE Hands'
  BY <1>24, <1>0, <1>h DEF FreeEnd, Release, Hands, InHand, Usable, Ready
<1>25. ASSUME NEW x \in Users, NEW k \in Conns, FreeIdle(x, k) PROVE Hands'
  BY <1>25, <1>0, <1>h DEF FreeIdle, Hands, InHand, Usable, Ready
<1>26. ASSUME NEW x \in Users, NEW k \in Conns, Add(x, k) PROVE Hands'
  BY <1>26, <1>0, <1>h DEF Add, Hands, InHand, Usable, Ready
<1>27. ASSUME NEW k \in Conns, Break(k) PROVE Hands'
  BY <1>27, <1>0, <1>h DEF Break, Hands, InHand, Usable, Ready
<1>28. ASSUME NEW k \in Conns, CoolDown(k) PROVE Hands'
  BY <1>28, <1>0, <1>h DEF CoolDown, Hands, InHand, Usable, Ready
<1>29. CASE TickStart
  BY <1>29, <1>0, <1>h DEF TickStart, Hands, InHand, Usable, Ready
<1>30. CASE TickWait
  BY <1>30, <1>0, <1>h DEF TickWait, Hands, InHand, Usable, Ready
<1>31. CASE TickTimer
  BY <1>31, <1>0, <1>h DEF TickTimer, Hands, InHand, Usable, Ready
<1>32. CASE ReapEnd
  <2>1. CASE closed
    BY <1>32, <2>1, <1>0, <1>h DEF ReapEnd, FailClosed, PutIdle, WakeHead, Down, Release, Gone,
      Hands, InHand, Usable, Ready
  <2>2. CASE ~closed /\ queue # <<>>
    BY <1>32, <2>2, <1>0, <1>h DEF ReapEnd, FailClosed, PutIdle, WakeHead, Down, Release, Gone,
      Hands, InHand, Usable, Ready
  <2>3. CASE ~closed /\ queue = <<>>
    BY <1>32, <2>3, <1>0, <1>h DEF ReapEnd, FailClosed, PutIdle, WakeHead, Down, Release, Gone,
      Hands, InHand, Usable, Ready
  <2> QED BY <2>1, <2>2, <2>3
<1>33. CASE TickAgain
  BY <1>33, <1>0, <1>h DEF TickAgain, Hands, InHand, Usable, Ready
<1>34. CASE TickExit
  BY <1>34, <1>0, <1>h DEF TickExit, Release, Hands, InHand, Usable, Ready
<1>35. ASSUME NEW k \in Conns, Reap(k) PROVE Hands'
  BY <1>35, <1>0, <1>h DEF Reap, Hands, InHand, Usable, Ready
<1>36. ASSUME NEW k \in Conns, Fill(k) PROVE Hands'
  <2>1. CASE link[k] = "ready"
    BY <1>36, <2>1, <1>0, <1>h DEF Fill, Checkout, Hands, InHand, Usable, Ready
  <2>2. CASE link[k] # "ready"
    BY <1>36, <2>2, <1>0, <1>h DEF Fill, Checkout, Hands, InHand, Usable, Ready
  <2> QED BY <2>1, <2>2
<1> QED BY <1>1, <1>2, <1>3, <1>4, <1>5, <1>6, <1>7, <1>8, <1>9, <1>10, <1>11, <1>12, <1>13,
  <1>14, <1>15, <1>16, <1>17, <1>18, <1>19, <1>20, <1>21, <1>22, <1>23, <1>24, <1>25, <1>26,
  <1>27, <1>28, <1>29, <1>30, <1>31, <1>32, <1>33, <1>34, <1>35, <1>36 DEF Next, Borrow,
  Server, Return, Maintain, Destroy

\* One free closes the pool, and ends once.
LEMMA ClosingStep ==
  ASSUME IInv, [Next]_vars
  PROVE  Closing'
<1>0. at \in [Coros -> Places] /\ closed \in BOOLEAN /\ free_pending \in BOOLEAN /\ ticking \in BOOLEAN
      /\ Closing /\ (\A x \in Coros : at[x] \in {"get", "woke"} => Top = x)
  BY DEF IInv, TypeOK, Where
<1>h. /\ queue # <<>> => Head(queue) \in Users /\ at[Head(queue)] = "wait"
      /\ \A y \in Coros : waking[y] # <<>> =>
           Head(waking[y]) \in Users /\ at[Head(waking[y])] = "wait"
  BY Heads DEF IInv
<1>1. CASE UNCHANGED vars
  BY <1>1, <1>0, <1>h DEF vars, Closing, Freeing
<1>2. ASSUME NEW x \in Coros, Start(x) PROVE Closing'
  BY <1>2, <1>0, <1>h DEF Start, Closing, Freeing
<1>3. ASSUME NEW x \in Coros, Finish(x) PROVE Closing'
  BY <1>3, <1>0, <1>h DEF Finish, Closing, Freeing
<1>4. ASSUME NEW x \in Coros, Half(x) PROVE Closing'
  BY <1>4, <1>0, <1>h DEF Half, Closing, Freeing
<1>5. ASSUME NEW x \in Coros, FailQuitEnd(x) PROVE Closing'
  BY <1>5, <1>0, <1>h DEF FailQuitEnd, FailClosed, Down, Release, Gone, Closing, Freeing
<1>6. ASSUME NEW x \in Coros, RenewEnd(x) PROVE Closing'
  <2>1. CASE closed
    BY <1>6, <2>1, <1>0, <1>h DEF RenewEnd, FailClosed, Down, Release, Gone, Closing, Freeing
  <2>2. CASE ~closed
    BY <1>6, <2>2, <1>0, <1>h DEF RenewEnd, FailClosed, Down, Release, Gone, Closing, Freeing
  <2> QED BY <2>1, <2>2
<1>7. ASSUME NEW x \in Coros, OpenOk(x) PROVE Closing'
  <2>1. CASE closed
    BY <1>7, <2>1, <1>0, <1>h DEF OpenOk, QuitClosed, Closing, Freeing
  <2>2. CASE ~closed
    BY <1>7, <2>2, <1>0, <1>h DEF OpenOk, QuitClosed, Closing, Freeing
  <2> QED BY <2>1, <2>2
<1>8. ASSUME NEW x \in Coros, OpenFailed(x) PROVE Closing'
  <2>1. CASE closed
    BY <1>8, <2>1, <1>0, <1>h DEF OpenFailed, QuitClosed, PutIdle, Down, Closing, Freeing
  <2>2. CASE ~closed /\ waiters > 0 /\ busy = 1
    BY <1>8, <2>2, <1>0, <1>h DEF OpenFailed, QuitClosed, PutIdle, Down, Closing, Freeing
  <2>3. CASE ~closed /\ ~(waiters > 0 /\ busy = 1)
    BY <1>8, <2>3, <1>0, <1>h DEF OpenFailed, QuitClosed, PutIdle, Down, Closing, Freeing
  <2> QED BY <2>1, <2>2, <2>3
<1>9. ASSUME NEW x \in Coros, WakeAllNext(x) PROVE Closing'
  BY <1>9, <1>0, <1>h DEF WakeAllNext, Closing, Freeing
<1>10. ASSUME NEW x \in Coros, WakeAllEnd(x) PROVE Closing'
  BY <1>10, <1>0, <1>h DEF WakeAllEnd, Gone, Closing, Freeing
<1>11. ASSUME NEW x \in Coros, Put(x) PROVE Closing'
  <2>1. CASE closed
    BY <1>11, <2>1, <1>0, <1>h DEF Put, Closing, Freeing
  <2>2. CASE ~closed
    BY <1>11, <2>2, <1>0, <1>h DEF Put, Closing, Freeing
  <2> QED BY <2>1, <2>2
<1>12. ASSUME NEW x \in Coros, ResetFailed(x) PROVE Closing'
  BY <1>12, <1>0, <1>h DEF ResetFailed, Closing, Freeing
<1>13. ASSUME NEW x \in Coros, ResetOk(x) PROVE Closing'
  <2>1. CASE closed
    BY <1>13, <2>1, <1>0, <1>h DEF ResetOk, QuitClosed, PutIdle, Done, Closing, Freeing
  <2>2. CASE ~closed /\ queue # <<>>
    BY <1>13, <2>2, <1>0, <1>h DEF ResetOk, QuitClosed, PutIdle, Done, Closing, Freeing
  <2>3. CASE ~closed /\ queue = <<>>
    BY <1>13, <2>3, <1>0, <1>h DEF ResetOk, QuitClosed, PutIdle, Done, Closing, Freeing
  <2> QED BY <2>1, <2>2, <2>3
<1>14. ASSUME NEW x \in Coros, PutQuitEnd(x) PROVE Closing'
  <2>1. CASE closed
    BY <1>14, <2>1, <1>0, <1>h DEF PutQuitEnd, FailClosed, PutIdle, WakeHead, Down, Release,
      Gone, Done, Closing, Freeing
  <2>2. CASE ~closed /\ queue # <<>>
    BY <1>14, <2>2, <1>0, <1>h DEF PutQuitEnd, FailClosed, PutIdle, WakeHead, Down, Release,
      Gone, Done, Closing, Freeing
  <2>3. CASE ~closed /\ queue = <<>>
    BY <1>14, <2>3, <1>0, <1>h DEF PutQuitEnd, FailClosed, PutIdle, WakeHead, Down, Release,
      Gone, Done, Closing, Freeing
  <2> QED BY <2>1, <2>2, <2>3
<1>15. ASSUME NEW x \in Users, Get(x) PROVE Closing'
  BY <1>15, <1>0, <1>h DEF Get, Closing, Freeing
<1>16. ASSUME NEW x \in Users, GetFails(x) PROVE Closing'
  BY <1>16, <1>0, <1>h DEF GetFails, Closing, Freeing
<1>17. ASSUME NEW x \in Users, GetWait(x) PROVE Closing'
  BY <1>17, <1>0, <1>h DEF GetWait, Closing, Freeing
<1>18. ASSUME NEW x \in Users, Expire(x) PROVE Closing'
  BY <1>18, <1>0, <1>h DEF Expire, Closing, Freeing
<1>19. ASSUME NEW x \in Users, Woke(x) PROVE Closing'
  <2>1. CASE closed
    BY <1>19, <2>1, <1>0, <1>h DEF Woke, Release, Closing, Freeing
  <2>2. CASE ~closed /\ con[x] = Nil
    BY <1>19, <2>2, <1>0, <1>h DEF Woke, Release, Closing, Freeing
  <2>3. CASE ~closed /\ con[x] # Nil
    BY <1>19, <2>3, <1>0, <1>h DEF Woke, Release, Closing, Freeing
  <2> QED BY <2>1, <2>2, <2>3
<1>20. ASSUME NEW x \in Users, NEW k \in Conns, GetTake(x, k) PROVE Closing'
  <2>1. CASE link[k] = "ready"
    BY <1>20, <2>1, <1>0, <1>h DEF GetTake, Checkout, Closing, Freeing
  <2>2. CASE link[k] # "ready"
    BY <1>20, <2>2, <1>0, <1>h DEF GetTake, Checkout, Closing, Freeing
  <2> QED BY <2>1, <2>2
<1>21. ASSUME NEW x \in Users, Free(x) PROVE Closing'
  BY <1>21, <1>0, <1>h DEF Free, Closing, Freeing
<1>22. ASSUME NEW x \in Users, FreeTick(x) PROVE Closing'
  <2>1. CASE at[Tick] = "tick"
    BY <1>22, <2>1, <1>0, <1>h DEF FreeTick, Closing, Freeing
  <2>2. CASE at[Tick] # "tick"
    BY <1>22, <2>2, <1>0, <1>h DEF FreeTick, Closing, Freeing
  <2> QED BY <2>1, <2>2
<1>23. ASSUME NEW x \in Users, FreeQuitEnd(x) PROVE Closing'
  BY <1>23, <1>0, <1>h DEF FreeQuitEnd, Down, Closing, Freeing
<1>24. ASSUME NEW x \in Users, FreeEnd(x) PROVE Closing'
  BY <1>24, <1>0, <1>h DEF FreeEnd, Release, Closing, Freeing
<1>25. ASSUME NEW x \in Users, NEW k \in Conns, FreeIdle(x, k) PROVE Closing'
  BY <1>25, <1>0, <1>h DEF FreeIdle, Closing, Freeing
<1>26. ASSUME NEW x \in Users, NEW k \in Conns, Add(x, k) PROVE Closing'
  BY <1>26, <1>0, <1>h DEF Add, Closing, Freeing
<1>27. ASSUME NEW k \in Conns, Break(k) PROVE Closing'
  BY <1>27, <1>0, <1>h DEF Break, Closing, Freeing
<1>28. ASSUME NEW k \in Conns, CoolDown(k) PROVE Closing'
  BY <1>28, <1>0, <1>h DEF CoolDown, Closing, Freeing
<1>29. CASE TickStart
  BY <1>29, <1>0, <1>h DEF TickStart, Closing, Freeing
<1>30. CASE TickWait
  BY <1>30, <1>0, <1>h DEF TickWait, Closing, Freeing
<1>31. CASE TickTimer
  BY <1>31, <1>0, <1>h DEF TickTimer, Closing, Freeing
<1>32. CASE ReapEnd
  <2>1. CASE closed
    BY <1>32, <2>1, <1>0, <1>h DEF ReapEnd, FailClosed, PutIdle, WakeHead, Down, Release, Gone,
      Closing, Freeing
  <2>2. CASE ~closed /\ queue # <<>>
    BY <1>32, <2>2, <1>0, <1>h DEF ReapEnd, FailClosed, PutIdle, WakeHead, Down, Release, Gone,
      Closing, Freeing
  <2>3. CASE ~closed /\ queue = <<>>
    BY <1>32, <2>3, <1>0, <1>h DEF ReapEnd, FailClosed, PutIdle, WakeHead, Down, Release, Gone,
      Closing, Freeing
  <2> QED BY <2>1, <2>2, <2>3
<1>33. CASE TickAgain
  BY <1>33, <1>0, <1>h DEF TickAgain, Closing, Freeing
<1>34. CASE TickExit
  BY <1>34, <1>0, <1>h DEF TickExit, Release, Closing, Freeing
<1>35. ASSUME NEW k \in Conns, Reap(k) PROVE Closing'
  BY <1>35, <1>0, <1>h DEF Reap, Closing, Freeing
<1>36. ASSUME NEW k \in Conns, Fill(k) PROVE Closing'
  <2>1. CASE link[k] = "ready"
    BY <1>36, <2>1, <1>0, <1>h DEF Fill, Checkout, Closing, Freeing
  <2>2. CASE link[k] # "ready"
    BY <1>36, <2>2, <1>0, <1>h DEF Fill, Checkout, Closing, Freeing
  <2> QED BY <2>1, <2>2
<1> QED BY <1>1, <1>2, <1>3, <1>4, <1>5, <1>6, <1>7, <1>8, <1>9, <1>10, <1>11, <1>12, <1>13,
  <1>14, <1>15, <1>16, <1>17, <1>18, <1>19, <1>20, <1>21, <1>22, <1>23, <1>24, <1>25, <1>26,
  <1>27, <1>28, <1>29, <1>30, <1>31, <1>32, <1>33, <1>34, <1>35, <1>36 DEF Next, Borrow,
  Server, Return, Maintain, Destroy

\* The memory goes with the last that leaves.
LEMMA FreedStep ==
  ASSUME IInv, [Next]_vars
  PROVE  Freed'
<1>0. mem \in {"live", "freed"} /\ at \in [Coros -> Places] /\ closed \in BOOLEAN /\ free_pending \in BOOLEAN /\ ticking \in BOOLEAN
      /\ Freed /\ Closing /\ Hands
  BY DEF IInv, TypeOK
<1>c. /\ busy \in Nat /\ waiters \in Nat
      /\ \A x \in Coros : con[x] # Nil /\ at[x] # "freequit" => busy > 0
      /\ \A x \in Users : at[x] \in {"wait", "woke"} => waiters > 0
  BY Counts DEF IInv
<1>1. CASE UNCHANGED vars
  BY <1>1, <1>0, <1>c DEF vars, Freed, Closing, Freeing, Hands, InHand
<1>2. ASSUME NEW x \in Coros, Start(x) PROVE Freed'
  BY <1>2, <1>0, <1>c DEF Start, Freed, Closing, Freeing, Hands, InHand
<1>3. ASSUME NEW x \in Coros, Finish(x) PROVE Freed'
  BY <1>3, <1>0, <1>c DEF Finish, Freed, Closing, Freeing, Hands, InHand
<1>4. ASSUME NEW x \in Coros, Half(x) PROVE Freed'
  BY <1>4, <1>0, <1>c DEF Half, Freed, Closing, Freeing, Hands, InHand
<1>5. ASSUME NEW x \in Coros, FailQuitEnd(x) PROVE Freed'
  BY <1>5, <1>0, <1>c DEF FailQuitEnd, FailClosed, Down, Release, Gone, Freed, Closing,
    Freeing, Hands, InHand
<1>6. ASSUME NEW x \in Coros, RenewEnd(x) PROVE Freed'
  <2>1. CASE closed
    BY <1>6, <2>1, <1>0, <1>c DEF RenewEnd, FailClosed, Down, Release, Gone, Freed, Closing,
      Freeing, Hands, InHand
  <2>2. CASE ~closed
    BY <1>6, <2>2, <1>0, <1>c DEF RenewEnd, FailClosed, Down, Release, Gone, Freed, Closing,
      Freeing, Hands, InHand
  <2> QED BY <2>1, <2>2
<1>7. ASSUME NEW x \in Coros, OpenOk(x) PROVE Freed'
  <2>1. CASE closed
    BY <1>7, <2>1, <1>0, <1>c DEF OpenOk, QuitClosed, Freed, Closing, Freeing, Hands, InHand
  <2>2. CASE ~closed
    BY <1>7, <2>2, <1>0, <1>c DEF OpenOk, QuitClosed, Freed, Closing, Freeing, Hands, InHand
  <2> QED BY <2>1, <2>2
<1>8. ASSUME NEW x \in Coros, OpenFailed(x) PROVE Freed'
  <2>1. CASE closed
    BY <1>8, <2>1, <1>0, <1>c DEF OpenFailed, QuitClosed, PutIdle, Down, Freed, Closing,
      Freeing, Hands, InHand
  <2>2. CASE ~closed /\ waiters > 0 /\ busy = 1
    BY <1>8, <2>2, <1>0, <1>c DEF OpenFailed, QuitClosed, PutIdle, Down, Freed, Closing,
      Freeing, Hands, InHand
  <2>3. CASE ~closed /\ ~(waiters > 0 /\ busy = 1)
    BY <1>8, <2>3, <1>0, <1>c DEF OpenFailed, QuitClosed, PutIdle, Down, Freed, Closing,
      Freeing, Hands, InHand
  <2> QED BY <2>1, <2>2, <2>3
<1>9. ASSUME NEW x \in Coros, WakeAllNext(x) PROVE Freed'
  BY <1>9, <1>0, <1>c DEF WakeAllNext, Freed, Closing, Freeing, Hands, InHand
<1>10. ASSUME NEW x \in Coros, WakeAllEnd(x) PROVE Freed'
  BY <1>10, <1>0, <1>c DEF WakeAllEnd, Gone, Freed, Closing, Freeing, Hands, InHand
<1>11. ASSUME NEW x \in Coros, Put(x) PROVE Freed'
  <2>1. CASE closed
    BY <1>11, <2>1, <1>0, <1>c DEF Put, Freed, Closing, Freeing, Hands, InHand
  <2>2. CASE ~closed
    BY <1>11, <2>2, <1>0, <1>c DEF Put, Freed, Closing, Freeing, Hands, InHand
  <2> QED BY <2>1, <2>2
<1>12. ASSUME NEW x \in Coros, ResetFailed(x) PROVE Freed'
  BY <1>12, <1>0, <1>c DEF ResetFailed, Freed, Closing, Freeing, Hands, InHand
<1>13. ASSUME NEW x \in Coros, ResetOk(x) PROVE Freed'
  <2>1. CASE closed
    BY <1>13, <2>1, <1>0, <1>c DEF ResetOk, QuitClosed, PutIdle, Done, Freed, Closing, Freeing,
      Hands, InHand
  <2>2. CASE ~closed /\ queue # <<>>
    BY <1>13, <2>2, <1>0, <1>c DEF ResetOk, QuitClosed, PutIdle, Done, Freed, Closing, Freeing,
      Hands, InHand
  <2>3. CASE ~closed /\ queue = <<>>
    BY <1>13, <2>3, <1>0, <1>c DEF ResetOk, QuitClosed, PutIdle, Done, Freed, Closing, Freeing,
      Hands, InHand
  <2> QED BY <2>1, <2>2, <2>3
<1>14. ASSUME NEW x \in Coros, PutQuitEnd(x) PROVE Freed'
  <2>1. CASE closed
    BY <1>14, <2>1, <1>0, <1>c DEF PutQuitEnd, FailClosed, PutIdle, WakeHead, Down, Release,
      Gone, Done, Freed, Closing, Freeing, Hands, InHand
  <2>2. CASE ~closed /\ queue # <<>>
    BY <1>14, <2>2, <1>0, <1>c DEF PutQuitEnd, FailClosed, PutIdle, WakeHead, Down, Release,
      Gone, Done, Freed, Closing, Freeing, Hands, InHand
  <2>3. CASE ~closed /\ queue = <<>>
    BY <1>14, <2>3, <1>0, <1>c DEF PutQuitEnd, FailClosed, PutIdle, WakeHead, Down, Release,
      Gone, Done, Freed, Closing, Freeing, Hands, InHand
  <2> QED BY <2>1, <2>2, <2>3
<1>15. ASSUME NEW x \in Users, Get(x) PROVE Freed'
  BY <1>15, <1>0, <1>c DEF Get, Freed, Closing, Freeing, Hands, InHand
<1>16. ASSUME NEW x \in Users, GetFails(x) PROVE Freed'
  BY <1>16, <1>0, <1>c DEF GetFails, Freed, Closing, Freeing, Hands, InHand
<1>17. ASSUME NEW x \in Users, GetWait(x) PROVE Freed'
  BY <1>17, <1>0, <1>c DEF GetWait, Freed, Closing, Freeing, Hands, InHand
<1>18. ASSUME NEW x \in Users, Expire(x) PROVE Freed'
  BY <1>18, <1>0, <1>c DEF Expire, Freed, Closing, Freeing, Hands, InHand
<1>19. ASSUME NEW x \in Users, Woke(x) PROVE Freed'
  <2>1. CASE closed
    BY <1>19, <2>1, <1>0, <1>c DEF Woke, Release, Freed, Closing, Freeing, Hands, InHand
  <2>2. CASE ~closed /\ con[x] = Nil
    BY <1>19, <2>2, <1>0, <1>c DEF Woke, Release, Freed, Closing, Freeing, Hands, InHand
  <2>3. CASE ~closed /\ con[x] # Nil
    BY <1>19, <2>3, <1>0, <1>c DEF Woke, Release, Freed, Closing, Freeing, Hands, InHand
  <2> QED BY <2>1, <2>2, <2>3
<1>20. ASSUME NEW x \in Users, NEW k \in Conns, GetTake(x, k) PROVE Freed'
  <2>1. CASE link[k] = "ready"
    BY <1>20, <2>1, <1>0, <1>c DEF GetTake, Checkout, Freed, Closing, Freeing, Hands, InHand
  <2>2. CASE link[k] # "ready"
    BY <1>20, <2>2, <1>0, <1>c DEF GetTake, Checkout, Freed, Closing, Freeing, Hands, InHand
  <2> QED BY <2>1, <2>2
<1>21. ASSUME NEW x \in Users, Free(x) PROVE Freed'
  BY <1>21, <1>0, <1>c DEF Free, Freed, Closing, Freeing, Hands, InHand
<1>22. ASSUME NEW x \in Users, FreeTick(x) PROVE Freed'
  <2>1. CASE at[Tick] = "tick"
    BY <1>22, <2>1, <1>0, <1>c DEF FreeTick, Freed, Closing, Freeing, Hands, InHand
  <2>2. CASE at[Tick] # "tick"
    BY <1>22, <2>2, <1>0, <1>c DEF FreeTick, Freed, Closing, Freeing, Hands, InHand
  <2> QED BY <2>1, <2>2
<1>23. ASSUME NEW x \in Users, FreeQuitEnd(x) PROVE Freed'
  BY <1>23, <1>0, <1>c DEF FreeQuitEnd, Down, Freed, Closing, Freeing, Hands, InHand
<1>24. ASSUME NEW x \in Users, FreeEnd(x) PROVE Freed'
  BY <1>24, <1>0, <1>c DEF FreeEnd, Release, Freed, Closing, Freeing, Hands, InHand
<1>25. ASSUME NEW x \in Users, NEW k \in Conns, FreeIdle(x, k) PROVE Freed'
  BY <1>25, <1>0, <1>c DEF FreeIdle, Freed, Closing, Freeing, Hands, InHand
<1>26. ASSUME NEW x \in Users, NEW k \in Conns, Add(x, k) PROVE Freed'
  BY <1>26, <1>0, <1>c DEF Add, Freed, Closing, Freeing, Hands, InHand
<1>27. ASSUME NEW k \in Conns, Break(k) PROVE Freed'
  BY <1>27, <1>0, <1>c DEF Break, Freed, Closing, Freeing, Hands, InHand
<1>28. ASSUME NEW k \in Conns, CoolDown(k) PROVE Freed'
  BY <1>28, <1>0, <1>c DEF CoolDown, Freed, Closing, Freeing, Hands, InHand
<1>29. CASE TickStart
  BY <1>29, <1>0, <1>c DEF TickStart, Freed, Closing, Freeing, Hands, InHand
<1>30. CASE TickWait
  BY <1>30, <1>0, <1>c DEF TickWait, Freed, Closing, Freeing, Hands, InHand
<1>31. CASE TickTimer
  BY <1>31, <1>0, <1>c DEF TickTimer, Freed, Closing, Freeing, Hands, InHand
<1>32. CASE ReapEnd
  <2>1. CASE closed
    BY <1>32, <2>1, <1>0, <1>c DEF ReapEnd, FailClosed, PutIdle, WakeHead, Down, Release, Gone,
      Freed, Closing, Freeing, Hands, InHand
  <2>2. CASE ~closed /\ queue # <<>>
    BY <1>32, <2>2, <1>0, <1>c DEF ReapEnd, FailClosed, PutIdle, WakeHead, Down, Release, Gone,
      Freed, Closing, Freeing, Hands, InHand
  <2>3. CASE ~closed /\ queue = <<>>
    BY <1>32, <2>3, <1>0, <1>c DEF ReapEnd, FailClosed, PutIdle, WakeHead, Down, Release, Gone,
      Freed, Closing, Freeing, Hands, InHand
  <2> QED BY <2>1, <2>2, <2>3
<1>33. CASE TickAgain
  BY <1>33, <1>0, <1>c DEF TickAgain, Freed, Closing, Freeing, Hands, InHand
<1>34. CASE TickExit
  BY <1>34, <1>0, <1>c DEF TickExit, Release, Freed, Closing, Freeing, Hands, InHand
<1>35. ASSUME NEW k \in Conns, Reap(k) PROVE Freed'
  BY <1>35, <1>0, <1>c DEF Reap, Freed, Closing, Freeing, Hands, InHand
<1>36. ASSUME NEW k \in Conns, Fill(k) PROVE Freed'
  <2>1. CASE link[k] = "ready"
    BY <1>36, <2>1, <1>0, <1>c DEF Fill, Checkout, Freed, Closing, Freeing, Hands, InHand
  <2>2. CASE link[k] # "ready"
    BY <1>36, <2>2, <1>0, <1>c DEF Fill, Checkout, Freed, Closing, Freeing, Hands, InHand
  <2> QED BY <2>1, <2>2
<1> QED BY <1>1, <1>2, <1>3, <1>4, <1>5, <1>6, <1>7, <1>8, <1>9, <1>10, <1>11, <1>12, <1>13,
  <1>14, <1>15, <1>16, <1>17, <1>18, <1>19, <1>20, <1>21, <1>22, <1>23, <1>24, <1>25, <1>26,
  <1>27, <1>28, <1>29, <1>30, <1>31, <1>32, <1>33, <1>34, <1>35, <1>36 DEF Next, Borrow,
  Server, Return, Maintain, Destroy

\* An open connection stays in somebody's charge.
LEMMA LinkedStep ==
  ASSUME IInv, [Next]_vars
  PROVE  Linked'
<1>0. con \in [Coros -> Conns \cup {Nil}] /\ link \in [Conns -> {"down", "ready", "half"}]
      /\ Linked /\ Hands
  BY DEF IInv, TypeOK
<1>h. /\ queue # <<>> => Head(queue) \in Users /\ at[Head(queue)] = "wait"
      /\ \A y \in Coros : waking[y] # <<>> =>
           Head(waking[y]) \in Users /\ at[Head(waking[y])] = "wait"
  BY Heads DEF IInv
<1>1. CASE UNCHANGED vars
  BY <1>1, <1>0, <1>h DEF vars, Linked, Hands, InHand, Usable, Ready
<1>2. ASSUME NEW x \in Coros, Start(x) PROVE Linked'
  BY <1>2, <1>0, <1>h DEF Start, Linked, Hands, InHand, Usable, Ready
<1>3. ASSUME NEW x \in Coros, Finish(x) PROVE Linked'
  BY <1>3, <1>0, <1>h DEF Finish, Linked, Hands, InHand, Usable, Ready
<1>4. ASSUME NEW x \in Coros, Half(x) PROVE Linked'
  BY <1>4, <1>0, <1>h DEF Half, Linked, Hands, InHand, Usable, Ready
<1>5. ASSUME NEW x \in Coros, FailQuitEnd(x) PROVE Linked'
  BY <1>5, <1>0, <1>h DEF FailQuitEnd, FailClosed, Down, Release, Gone, Linked, Hands, InHand,
    Usable, Ready
<1>6. ASSUME NEW x \in Coros, RenewEnd(x) PROVE Linked'
  <2>1. CASE closed
    BY <1>6, <2>1, <1>0, <1>h DEF RenewEnd, FailClosed, Down, Release, Gone, Linked, Hands,
      InHand, Usable, Ready
  <2>2. CASE ~closed
    BY <1>6, <2>2, <1>0, <1>h DEF RenewEnd, FailClosed, Down, Release, Gone, Linked, Hands,
      InHand, Usable, Ready
  <2> QED BY <2>1, <2>2
<1>7. ASSUME NEW x \in Coros, OpenOk(x) PROVE Linked'
  <2>1. CASE closed
    BY <1>7, <2>1, <1>0, <1>h DEF OpenOk, QuitClosed, Linked, Hands, InHand, Usable, Ready
  <2>2. CASE ~closed
    BY <1>7, <2>2, <1>0, <1>h DEF OpenOk, QuitClosed, Linked, Hands, InHand, Usable, Ready
  <2> QED BY <2>1, <2>2
<1>8. ASSUME NEW x \in Coros, OpenFailed(x) PROVE Linked'
  <2>1. CASE closed
    BY <1>8, <2>1, <1>0, <1>h DEF OpenFailed, QuitClosed, PutIdle, Down, Linked, Hands, InHand,
      Usable, Ready
  <2>2. CASE ~closed /\ waiters > 0 /\ busy = 1
    BY <1>8, <2>2, <1>0, <1>h DEF OpenFailed, QuitClosed, PutIdle, Down, Linked, Hands, InHand,
      Usable, Ready
  <2>3. CASE ~closed /\ ~(waiters > 0 /\ busy = 1)
    BY <1>8, <2>3, <1>0, <1>h DEF OpenFailed, QuitClosed, PutIdle, Down, Linked, Hands, InHand,
      Usable, Ready
  <2> QED BY <2>1, <2>2, <2>3
<1>9. ASSUME NEW x \in Coros, WakeAllNext(x) PROVE Linked'
  BY <1>9, <1>0, <1>h DEF WakeAllNext, Linked, Hands, InHand, Usable, Ready
<1>10. ASSUME NEW x \in Coros, WakeAllEnd(x) PROVE Linked'
  BY <1>10, <1>0, <1>h DEF WakeAllEnd, Gone, Linked, Hands, InHand, Usable, Ready
<1>11. ASSUME NEW x \in Coros, Put(x) PROVE Linked'
  <2>1. CASE closed
    BY <1>11, <2>1, <1>0, <1>h DEF Put, Linked, Hands, InHand, Usable, Ready
  <2>2. CASE ~closed
    BY <1>11, <2>2, <1>0, <1>h DEF Put, Linked, Hands, InHand, Usable, Ready
  <2> QED BY <2>1, <2>2
<1>12. ASSUME NEW x \in Coros, ResetFailed(x) PROVE Linked'
  BY <1>12, <1>0, <1>h DEF ResetFailed, Linked, Hands, InHand, Usable, Ready
<1>13. ASSUME NEW x \in Coros, ResetOk(x) PROVE Linked'
  <2>1. CASE closed
    BY <1>13, <2>1, <1>0, <1>h DEF ResetOk, QuitClosed, PutIdle, Done, Linked, Hands, InHand,
      Usable, Ready
  <2>2. CASE ~closed /\ queue # <<>>
    BY <1>13, <2>2, <1>0, <1>h DEF ResetOk, QuitClosed, PutIdle, Done, Linked, Hands, InHand,
      Usable, Ready
  <2>3. CASE ~closed /\ queue = <<>>
    BY <1>13, <2>3, <1>0, <1>h DEF ResetOk, QuitClosed, PutIdle, Done, Linked, Hands, InHand,
      Usable, Ready
  <2> QED BY <2>1, <2>2, <2>3
<1>14. ASSUME NEW x \in Coros, PutQuitEnd(x) PROVE Linked'
  <2>1. CASE closed
    BY <1>14, <2>1, <1>0, <1>h DEF PutQuitEnd, FailClosed, PutIdle, WakeHead, Down, Release,
      Gone, Done, Linked, Hands, InHand, Usable, Ready
  <2>2. CASE ~closed /\ queue # <<>>
    BY <1>14, <2>2, <1>0, <1>h DEF PutQuitEnd, FailClosed, PutIdle, WakeHead, Down, Release,
      Gone, Done, Linked, Hands, InHand, Usable, Ready
  <2>3. CASE ~closed /\ queue = <<>>
    BY <1>14, <2>3, <1>0, <1>h DEF PutQuitEnd, FailClosed, PutIdle, WakeHead, Down, Release,
      Gone, Done, Linked, Hands, InHand, Usable, Ready
  <2> QED BY <2>1, <2>2, <2>3
<1>15. ASSUME NEW x \in Users, Get(x) PROVE Linked'
  BY <1>15, <1>0, <1>h DEF Get, Linked, Hands, InHand, Usable, Ready
<1>16. ASSUME NEW x \in Users, GetFails(x) PROVE Linked'
  BY <1>16, <1>0, <1>h DEF GetFails, Linked, Hands, InHand, Usable, Ready
<1>17. ASSUME NEW x \in Users, GetWait(x) PROVE Linked'
  BY <1>17, <1>0, <1>h DEF GetWait, Linked, Hands, InHand, Usable, Ready
<1>18. ASSUME NEW x \in Users, Expire(x) PROVE Linked'
  BY <1>18, <1>0, <1>h DEF Expire, Linked, Hands, InHand, Usable, Ready
<1>19. ASSUME NEW x \in Users, Woke(x) PROVE Linked'
  <2>1. CASE closed
    BY <1>19, <2>1, <1>0, <1>h DEF Woke, Release, Linked, Hands, InHand, Usable, Ready
  <2>2. CASE ~closed /\ con[x] = Nil
    BY <1>19, <2>2, <1>0, <1>h DEF Woke, Release, Linked, Hands, InHand, Usable, Ready
  <2>3. CASE ~closed /\ con[x] # Nil
    BY <1>19, <2>3, <1>0, <1>h DEF Woke, Release, Linked, Hands, InHand, Usable, Ready
  <2> QED BY <2>1, <2>2, <2>3
<1>20. ASSUME NEW x \in Users, NEW k \in Conns, GetTake(x, k) PROVE Linked'
  <2>1. CASE link[k] = "ready"
    BY <1>20, <2>1, <1>0, <1>h DEF GetTake, Checkout, Linked, Hands, InHand, Usable, Ready
  <2>2. CASE link[k] # "ready"
    BY <1>20, <2>2, <1>0, <1>h DEF GetTake, Checkout, Linked, Hands, InHand, Usable, Ready
  <2> QED BY <2>1, <2>2
<1>21. ASSUME NEW x \in Users, Free(x) PROVE Linked'
  BY <1>21, <1>0, <1>h DEF Free, Linked, Hands, InHand, Usable, Ready
<1>22. ASSUME NEW x \in Users, FreeTick(x) PROVE Linked'
  <2>1. CASE at[Tick] = "tick"
    BY <1>22, <2>1, <1>0, <1>h DEF FreeTick, Linked, Hands, InHand, Usable, Ready
  <2>2. CASE at[Tick] # "tick"
    BY <1>22, <2>2, <1>0, <1>h DEF FreeTick, Linked, Hands, InHand, Usable, Ready
  <2> QED BY <2>1, <2>2
<1>23. ASSUME NEW x \in Users, FreeQuitEnd(x) PROVE Linked'
  BY <1>23, <1>0, <1>h DEF FreeQuitEnd, Down, Linked, Hands, InHand, Usable, Ready
<1>24. ASSUME NEW x \in Users, FreeEnd(x) PROVE Linked'
  BY <1>24, <1>0, <1>h DEF FreeEnd, Release, Linked, Hands, InHand, Usable, Ready
<1>25. ASSUME NEW x \in Users, NEW k \in Conns, FreeIdle(x, k) PROVE Linked'
  BY <1>25, <1>0, <1>h DEF FreeIdle, Linked, Hands, InHand, Usable, Ready
<1>26. ASSUME NEW x \in Users, NEW k \in Conns, Add(x, k) PROVE Linked'
  BY <1>26, <1>0, <1>h DEF Add, Linked, Hands, InHand, Usable, Ready
<1>27. ASSUME NEW k \in Conns, Break(k) PROVE Linked'
  BY <1>27, <1>0, <1>h DEF Break, Linked, Hands, InHand, Usable, Ready
<1>28. ASSUME NEW k \in Conns, CoolDown(k) PROVE Linked'
  BY <1>28, <1>0, <1>h DEF CoolDown, Linked, Hands, InHand, Usable, Ready
<1>29. CASE TickStart
  BY <1>29, <1>0, <1>h DEF TickStart, Linked, Hands, InHand, Usable, Ready
<1>30. CASE TickWait
  BY <1>30, <1>0, <1>h DEF TickWait, Linked, Hands, InHand, Usable, Ready
<1>31. CASE TickTimer
  BY <1>31, <1>0, <1>h DEF TickTimer, Linked, Hands, InHand, Usable, Ready
<1>32. CASE ReapEnd
  <2>1. CASE closed
    BY <1>32, <2>1, <1>0, <1>h DEF ReapEnd, FailClosed, PutIdle, WakeHead, Down, Release, Gone,
      Linked, Hands, InHand, Usable, Ready
  <2>2. CASE ~closed /\ queue # <<>>
    BY <1>32, <2>2, <1>0, <1>h DEF ReapEnd, FailClosed, PutIdle, WakeHead, Down, Release, Gone,
      Linked, Hands, InHand, Usable, Ready
  <2>3. CASE ~closed /\ queue = <<>>
    BY <1>32, <2>3, <1>0, <1>h DEF ReapEnd, FailClosed, PutIdle, WakeHead, Down, Release, Gone,
      Linked, Hands, InHand, Usable, Ready
  <2> QED BY <2>1, <2>2, <2>3
<1>33. CASE TickAgain
  BY <1>33, <1>0, <1>h DEF TickAgain, Linked, Hands, InHand, Usable, Ready
<1>34. CASE TickExit
  BY <1>34, <1>0, <1>h DEF TickExit, Release, Linked, Hands, InHand, Usable, Ready
<1>35. ASSUME NEW k \in Conns, Reap(k) PROVE Linked'
  BY <1>35, <1>0, <1>h DEF Reap, Linked, Hands, InHand, Usable, Ready
<1>36. ASSUME NEW k \in Conns, Fill(k) PROVE Linked'
  <2>1. CASE link[k] = "ready"
    BY <1>36, <2>1, <1>0, <1>h DEF Fill, Checkout, Linked, Hands, InHand, Usable, Ready
  <2>2. CASE link[k] # "ready"
    BY <1>36, <2>2, <1>0, <1>h DEF Fill, Checkout, Linked, Hands, InHand, Usable, Ready
  <2> QED BY <2>1, <2>2
<1> QED BY <1>1, <1>2, <1>3, <1>4, <1>5, <1>6, <1>7, <1>8, <1>9, <1>10, <1>11, <1>12, <1>13,
  <1>14, <1>15, <1>16, <1>17, <1>18, <1>19, <1>20, <1>21, <1>22, <1>23, <1>24, <1>25, <1>26,
  <1>27, <1>28, <1>29, <1>30, <1>31, <1>32, <1>33, <1>34, <1>35, <1>36 DEF Next, Borrow,
  Server, Return, Maintain, Destroy

\* Somebody is left to bring a connection to those in the queue.
LEMMA LooksStep ==
  ASSUME IInv, [Next]_vars
  PROVE  Looks'
<1>0. at \in [Coros -> Places] /\ con \in [Coros -> Conns \cup {Nil}]
      /\ idle \subseteq Conns /\ Looks /\ Hands /\ (\A x \in Coros : at[x] \in {"get", "woke"} => Top = x)
      /\ Main \notin Coros
  BY DEF IInv, TypeOK, Where
<1>c. /\ busy \in Nat /\ waiters \in Nat
      /\ \A x \in Coros : con[x] # Nil /\ at[x] # "freequit" => busy > 0
      /\ \A x \in Users : at[x] \in {"wait", "woke"} => waiters > 0
  BY Counts DEF IInv
<1>h. /\ queue # <<>> => Head(queue) \in Users /\ at[Head(queue)] = "wait"
      /\ \A y \in Coros : waking[y] # <<>> =>
           Head(waking[y]) \in Users /\ at[Head(waking[y])] = "wait"
  BY Heads DEF IInv
<1>q. /\ queue' = queue => Queued' = Queued
      /\ queue # <<>> <=> Queued # {}
      /\ queue' = <<>> => Queued' = {}
      /\ Queued # {} => waiters > 0
      /\ closed => Queued = {}
      /\ \A x \in Coros : at[x] = "failquit" => closed
  BY QueueMoves, <1>c, Heads DEF IInv, Queues, Closing
<1>1. CASE UNCHANGED vars
  BY <1>1, <1>0, <1>c, <1>h, <1>q DEF vars, Looks, Hands, InHand, Usable
<1>2. ASSUME NEW x \in Coros, Start(x) PROVE Looks'
  BY <1>2, <1>0, <1>c, <1>h, <1>q DEF Start, Looks, Hands, InHand, Usable
<1>3. ASSUME NEW x \in Coros, Finish(x) PROVE Looks'
  BY <1>3, <1>0, <1>c, <1>h, <1>q DEF Finish, Looks, Hands, InHand, Usable
<1>4. ASSUME NEW x \in Coros, Half(x) PROVE Looks'
  BY <1>4, <1>0, <1>c, <1>h, <1>q DEF Half, Looks, Hands, InHand, Usable
<1>5. ASSUME NEW x \in Coros, FailQuitEnd(x) PROVE Looks'
  BY <1>5, <1>0, <1>c, <1>h, <1>q DEF FailQuitEnd, FailClosed, Down, Release, Gone, Looks,
    Hands, InHand, Usable
<1>6. ASSUME NEW x \in Coros, RenewEnd(x) PROVE Looks'
  <2>1. CASE closed
    BY <1>6, <2>1, <1>0, <1>c, <1>h, <1>q DEF RenewEnd, FailClosed, Down, Release, Gone, Looks,
      Hands, InHand, Usable
  <2>2. CASE ~closed
    BY <1>6, <2>2, <1>0, <1>c, <1>h, <1>q DEF RenewEnd, FailClosed, Down, Release, Gone, Looks,
      Hands, InHand, Usable
  <2> QED BY <2>1, <2>2
<1>7. ASSUME NEW x \in Coros, OpenOk(x) PROVE Looks'
  <2>1. CASE closed
    BY <1>7, <2>1, <1>0, <1>c, <1>h, <1>q DEF OpenOk, QuitClosed, Looks, Hands, InHand, Usable
  <2>2. CASE ~closed
    BY <1>7, <2>2, <1>0, <1>c, <1>h, <1>q DEF OpenOk, QuitClosed, Looks, Hands, InHand, Usable
  <2> QED BY <2>1, <2>2
<1>8. ASSUME NEW x \in Coros, OpenFailed(x) PROVE Looks'
  <2>1. CASE closed
    BY <1>8, <2>1, <1>0, <1>c, <1>h, <1>q DEF OpenFailed, QuitClosed, PutIdle, Down, Looks,
      Hands, InHand, Usable
  <2>2. CASE ~closed /\ waiters > 0 /\ busy = 1
    BY <1>8, <2>2, <1>0, <1>c, <1>h, <1>q DEF OpenFailed, QuitClosed, PutIdle, Down, Looks,
      Hands, InHand, Usable
  <2>3. CASE ~closed /\ ~(waiters > 0 /\ busy = 1)
    BY <1>8, <2>3, <1>0, <1>c, <1>h, <1>q DEF OpenFailed, QuitClosed, PutIdle, Down, Looks,
      Hands, InHand, Usable
  <2> QED BY <2>1, <2>2, <2>3
<1>9. ASSUME NEW x \in Coros, WakeAllNext(x) PROVE Looks'
  BY <1>9, <1>0, <1>c, <1>h, <1>q DEF WakeAllNext, Looks, Hands, InHand, Usable
<1>10. ASSUME NEW x \in Coros, WakeAllEnd(x) PROVE Looks'
  BY <1>10, <1>0, <1>c, <1>h, <1>q DEF WakeAllEnd, Gone, Looks, Hands, InHand, Usable
<1>11. ASSUME NEW x \in Coros, Put(x) PROVE Looks'
  <2>1. CASE closed
    BY <1>11, <2>1, <1>0, <1>c, <1>h, <1>q DEF Put, Looks, Hands, InHand, Usable
  <2>2. CASE ~closed
    BY <1>11, <2>2, <1>0, <1>c, <1>h, <1>q DEF Put, Looks, Hands, InHand, Usable
  <2> QED BY <2>1, <2>2
<1>12. ASSUME NEW x \in Coros, ResetFailed(x) PROVE Looks'
  BY <1>12, <1>0, <1>c, <1>h, <1>q DEF ResetFailed, Looks, Hands, InHand, Usable
<1>13. ASSUME NEW x \in Coros, ResetOk(x) PROVE Looks'
  <2>1. CASE closed
    BY <1>13, <2>1, <1>0, <1>c, <1>h, <1>q DEF ResetOk, QuitClosed, PutIdle, Done, Looks,
      Hands, InHand, Usable
  <2>2. CASE ~closed /\ queue # <<>>
    BY <1>13, <2>2, <1>0, <1>c, <1>h, <1>q DEF ResetOk, QuitClosed, PutIdle, Done, Looks,
      Hands, InHand, Usable
  <2>3. CASE ~closed /\ queue = <<>>
    BY <1>13, <2>3, <1>0, <1>c, <1>h, <1>q DEF ResetOk, QuitClosed, PutIdle, Done, Looks,
      Hands, InHand, Usable
  <2> QED BY <2>1, <2>2, <2>3
<1>14. ASSUME NEW x \in Coros, PutQuitEnd(x) PROVE Looks'
  <2>1. CASE closed
    BY <1>14, <2>1, <1>0, <1>c, <1>h, <1>q DEF PutQuitEnd, FailClosed, PutIdle, WakeHead, Down,
      Release, Gone, Done, Looks, Hands, InHand, Usable
  <2>2. CASE ~closed /\ queue # <<>>
    BY <1>14, <2>2, <1>0, <1>c, <1>h, <1>q DEF PutQuitEnd, FailClosed, PutIdle, WakeHead, Down,
      Release, Gone, Done, Looks, Hands, InHand, Usable
  <2>3. CASE ~closed /\ queue = <<>>
    BY <1>14, <2>3, <1>0, <1>c, <1>h, <1>q DEF PutQuitEnd, FailClosed, PutIdle, WakeHead, Down,
      Release, Gone, Done, Looks, Hands, InHand, Usable
  <2> QED BY <2>1, <2>2, <2>3
<1>15. ASSUME NEW x \in Users, Get(x) PROVE Looks'
  BY <1>15, <1>0, <1>c, <1>h, <1>q DEF Get, Looks, Hands, InHand, Usable
<1>16. ASSUME NEW x \in Users, GetFails(x) PROVE Looks'
  BY <1>16, <1>0, <1>c, <1>h, <1>q DEF GetFails, Looks, Hands, InHand, Usable
<1>17. ASSUME NEW x \in Users, GetWait(x) PROVE Looks'
  BY <1>17, <1>0, <1>c, <1>h, <1>q DEF GetWait, Looks, Hands, InHand, Usable
<1>18. ASSUME NEW x \in Users, Expire(x) PROVE Looks'
  BY <1>18, <1>0, <1>c, <1>h, <1>q DEF Expire, Looks, Hands, InHand, Usable
<1>19. ASSUME NEW x \in Users, Woke(x) PROVE Looks'
  <2>1. CASE closed
    BY <1>19, <2>1, <1>0, <1>c, <1>h, <1>q DEF Woke, Release, Looks, Hands, InHand, Usable
  <2>2. CASE ~closed /\ con[x] = Nil
    BY <1>19, <2>2, <1>0, <1>c, <1>h, <1>q DEF Woke, Release, Looks, Hands, InHand, Usable
  <2>3. CASE ~closed /\ con[x] # Nil
    BY <1>19, <2>3, <1>0, <1>c, <1>h, <1>q DEF Woke, Release, Looks, Hands, InHand, Usable
  <2> QED BY <2>1, <2>2, <2>3
<1>20. ASSUME NEW x \in Users, NEW k \in Conns, GetTake(x, k) PROVE Looks'
  <2>1. CASE link[k] = "ready"
    BY <1>20, <2>1, <1>0, <1>c, <1>h, <1>q DEF GetTake, Checkout, Looks, Hands, InHand, Usable
  <2>2. CASE link[k] # "ready"
    BY <1>20, <2>2, <1>0, <1>c, <1>h, <1>q DEF GetTake, Checkout, Looks, Hands, InHand, Usable
  <2> QED BY <2>1, <2>2
<1>21. ASSUME NEW x \in Users, Free(x) PROVE Looks'
  BY <1>21, <1>0, <1>c, <1>h, <1>q DEF Free, Looks, Hands, InHand, Usable
<1>22. ASSUME NEW x \in Users, FreeTick(x) PROVE Looks'
  <2>1. CASE at[Tick] = "tick"
    BY <1>22, <2>1, <1>0, <1>c, <1>h, <1>q DEF FreeTick, Looks, Hands, InHand, Usable
  <2>2. CASE at[Tick] # "tick"
    BY <1>22, <2>2, <1>0, <1>c, <1>h, <1>q DEF FreeTick, Looks, Hands, InHand, Usable
  <2> QED BY <2>1, <2>2
<1>23. ASSUME NEW x \in Users, FreeQuitEnd(x) PROVE Looks'
  BY <1>23, <1>0, <1>c, <1>h, <1>q DEF FreeQuitEnd, Down, Looks, Hands, InHand, Usable
<1>24. ASSUME NEW x \in Users, FreeEnd(x) PROVE Looks'
  BY <1>24, <1>0, <1>c, <1>h, <1>q DEF FreeEnd, Release, Looks, Hands, InHand, Usable
<1>25. ASSUME NEW x \in Users, NEW k \in Conns, FreeIdle(x, k) PROVE Looks'
  BY <1>25, <1>0, <1>c, <1>h, <1>q DEF FreeIdle, Looks, Hands, InHand, Usable
<1>26. ASSUME NEW x \in Users, NEW k \in Conns, Add(x, k) PROVE Looks'
  BY <1>26, <1>0, <1>c, <1>h, <1>q DEF Add, Looks, Hands, InHand, Usable
<1>27. ASSUME NEW k \in Conns, Break(k) PROVE Looks'
  BY <1>27, <1>0, <1>c, <1>h, <1>q DEF Break, Looks, Hands, InHand, Usable
<1>28. ASSUME NEW k \in Conns, CoolDown(k) PROVE Looks'
  BY <1>28, <1>0, <1>c, <1>h, <1>q DEF CoolDown, Looks, Hands, InHand, Usable
<1>29. CASE TickStart
  BY <1>29, <1>0, <1>c, <1>h, <1>q DEF TickStart, Looks, Hands, InHand, Usable
<1>30. CASE TickWait
  BY <1>30, <1>0, <1>c, <1>h, <1>q DEF TickWait, Looks, Hands, InHand, Usable
<1>31. CASE TickTimer
  BY <1>31, <1>0, <1>c, <1>h, <1>q DEF TickTimer, Looks, Hands, InHand, Usable
<1>32. CASE ReapEnd
  <2>1. CASE closed
    BY <1>32, <2>1, <1>0, <1>c, <1>h, <1>q DEF ReapEnd, FailClosed, PutIdle, WakeHead, Down,
      Release, Gone, Looks, Hands, InHand, Usable
  <2>2. CASE ~closed /\ queue # <<>>
    BY <1>32, <2>2, <1>0, <1>c, <1>h, <1>q DEF ReapEnd, FailClosed, PutIdle, WakeHead, Down,
      Release, Gone, Looks, Hands, InHand, Usable
  <2>3. CASE ~closed /\ queue = <<>>
    BY <1>32, <2>3, <1>0, <1>c, <1>h, <1>q DEF ReapEnd, FailClosed, PutIdle, WakeHead, Down,
      Release, Gone, Looks, Hands, InHand, Usable
  <2> QED BY <2>1, <2>2, <2>3
<1>33. CASE TickAgain
  BY <1>33, <1>0, <1>c, <1>h, <1>q DEF TickAgain, Looks, Hands, InHand, Usable
<1>34. CASE TickExit
  BY <1>34, <1>0, <1>c, <1>h, <1>q DEF TickExit, Release, Looks, Hands, InHand, Usable
<1>35. ASSUME NEW k \in Conns, Reap(k) PROVE Looks'
  BY <1>35, <1>0, <1>c, <1>h, <1>q DEF Reap, Looks, Hands, InHand, Usable
<1>36. ASSUME NEW k \in Conns, Fill(k) PROVE Looks'
  <2>1. CASE link[k] = "ready"
    BY <1>36, <2>1, <1>0, <1>c, <1>h, <1>q DEF Fill, Checkout, Looks, Hands, InHand, Usable
  <2>2. CASE link[k] # "ready"
    BY <1>36, <2>2, <1>0, <1>c, <1>h, <1>q DEF Fill, Checkout, Looks, Hands, InHand, Usable
  <2> QED BY <2>1, <2>2
<1> QED BY <1>1, <1>2, <1>3, <1>4, <1>5, <1>6, <1>7, <1>8, <1>9, <1>10, <1>11, <1>12, <1>13,
  <1>14, <1>15, <1>16, <1>17, <1>18, <1>19, <1>20, <1>21, <1>22, <1>23, <1>24, <1>25, <1>26,
  <1>27, <1>28, <1>29, <1>30, <1>31, <1>32, <1>33, <1>34, <1>35, <1>36 DEF Next, Borrow,
  Server, Return, Maintain, Destroy

\* A finite set that loses or gains one.
LEMMA CountIn ==
  ASSUME NEW S, IsFiniteSet(S), NEW x, x \notin S
  PROVE  IsFiniteSet(S \cup {x}) /\ Cardinality(S \cup {x}) = Cardinality(S) + 1
BY FS_AddElement

LEMMA CountOut ==
  ASSUME NEW S, IsFiniteSet(S), NEW x \in S
  PROVE  IsFiniteSet(S \ {x}) /\ Cardinality(S \ {x}) = Cardinality(S) - 1
BY FS_RemoveElement

\* One takes the place of another.
LEMMA CountSwap ==
  ASSUME NEW S, IsFiniteSet(S), NEW x \in S, NEW y, y \notin S
  PROVE  Cardinality((S \ {x}) \cup {y}) = Cardinality(S)
<1>1. Cardinality(S) \in Nat BY FS_CardinalityType
<1>2. IsFiniteSet(S \ {x}) /\ Cardinality(S \ {x}) = Cardinality(S) - 1 BY CountOut
<1>3. Cardinality((S \ {x}) \cup {y}) = Cardinality(S \ {x}) + 1 BY <1>2, CountIn
<1> QED BY <1>1, <1>2, <1>3

\* busy counts the connections in hand.
LEMMA BusyStep ==
  ASSUME IInv, [Next]_vars
  PROVE  busy' = Cardinality(Busy')
<1>0. at \in [Coros -> Places] /\ con \in [Coros -> Conns \cup {Nil}] /\ Hands
  BY DEF IInv, TypeOK
<1>c. IsFiniteSet(Busy) /\ busy = Cardinality(Busy) /\ busy \in Nat
  BY Counts DEF IInv, Counted
<1>h. /\ queue # <<>> => Head(queue) \in Users /\ at[Head(queue)] = "wait"
      /\ \A y \in Coros : waking[y] # <<>> =>
           Head(waking[y]) \in Users /\ at[Head(waking[y])] = "wait"
  BY Heads DEF IInv
<1>1. CASE UNCHANGED vars
  BY <1>1, <1>0, <1>c, <1>h DEF vars, Busy, Hands, InHand
<1>2. ASSUME NEW x \in Coros, Start(x) PROVE busy' = Cardinality(Busy')
  BY <1>2, <1>0, <1>c, <1>h DEF Start, Busy, Hands, InHand
<1>3. ASSUME NEW x \in Coros, Finish(x) PROVE busy' = Cardinality(Busy')
  BY <1>3, <1>0, <1>c, <1>h DEF Finish, Busy, Hands, InHand
<1>4. ASSUME NEW x \in Coros, Half(x) PROVE busy' = Cardinality(Busy')
  BY <1>4, <1>0, <1>c, <1>h DEF Half, Busy, Hands, InHand
<1>5. ASSUME NEW x \in Coros, FailQuitEnd(x) PROVE busy' = Cardinality(Busy')
  <2>1. x \in Busy /\ Busy' = Busy \ {x} /\ busy' = busy - 1
    BY <1>5, <1>0, <1>h DEF FailQuitEnd, FailClosed, Busy, Hands, InHand
  <2> QED BY <2>1, <1>c, CountIn, CountOut, CountSwap
<1>6. ASSUME NEW x \in Coros, RenewEnd(x) PROVE busy' = Cardinality(Busy')
  <2>1. CASE closed
    <3>1. x \in Busy /\ Busy' = Busy \ {x} /\ busy' = busy - 1
      BY <1>6, <2>1, <1>0, <1>h DEF RenewEnd, FailClosed, Busy, Hands, InHand
    <3> QED BY <3>1, <1>c, CountIn, CountOut, CountSwap
  <2>2. CASE ~closed
    <3>1. Busy' = Busy /\ busy' = busy
      BY <1>6, <2>2, <1>0, <1>h DEF RenewEnd, Busy, Hands, InHand
    <3> QED BY <3>1, <1>c, CountIn, CountOut, CountSwap
  <2> QED BY <2>1, <2>2
<1>7. ASSUME NEW x \in Coros, OpenOk(x) PROVE busy' = Cardinality(Busy')
  <2>1. CASE closed
    <3>1. Busy' = Busy /\ busy' = busy
      BY <1>7, <2>1, <1>0, <1>h DEF OpenOk, QuitClosed, Busy, Hands, InHand
    <3> QED BY <3>1, <1>c, CountIn, CountOut, CountSwap
  <2>2. CASE ~closed
    <3>1. Busy' = Busy /\ busy' = busy
      BY <1>7, <2>2, <1>0, <1>h DEF OpenOk, Busy, Hands, InHand
    <3> QED BY <3>1, <1>c, CountIn, CountOut, CountSwap
  <2> QED BY <2>1, <2>2
<1>8. ASSUME NEW x \in Coros, OpenFailed(x) PROVE busy' = Cardinality(Busy')
  <2>1. CASE closed
    <3>1. Busy' = Busy /\ busy' = busy
      BY <1>8, <2>1, <1>0, <1>h DEF OpenFailed, QuitClosed, Busy, Hands, InHand
    <3> QED BY <3>1, <1>c, CountIn, CountOut, CountSwap
  <2>2. CASE ~closed
    <3>1. x \in Busy /\ Busy' = Busy \ {x} /\ busy' = busy - 1
      BY <1>8, <2>2, <1>0, <1>h DEF OpenFailed, PutIdle, Busy, Hands, InHand
    <3> QED BY <3>1, <1>c, CountIn, CountOut, CountSwap
  <2> QED BY <2>1, <2>2
<1>9. ASSUME NEW x \in Coros, WakeAllNext(x) PROVE busy' = Cardinality(Busy')
  BY <1>9, <1>0, <1>c, <1>h DEF WakeAllNext, Busy, Hands, InHand
<1>10. ASSUME NEW x \in Coros, WakeAllEnd(x) PROVE busy' = Cardinality(Busy')
  BY <1>10, <1>0, <1>c, <1>h DEF WakeAllEnd, Gone, Busy, Hands, InHand
<1>11. ASSUME NEW x \in Coros, Put(x) PROVE busy' = Cardinality(Busy')
  BY <1>11, <1>0, <1>c, <1>h DEF Put, Busy, Hands, InHand
<1>12. ASSUME NEW x \in Coros, ResetFailed(x) PROVE busy' = Cardinality(Busy')
  BY <1>12, <1>0, <1>c, <1>h DEF ResetFailed, Busy, Hands, InHand
<1>13. ASSUME NEW x \in Coros, ResetOk(x) PROVE busy' = Cardinality(Busy')
  <2>1. CASE closed
    <3>1. Busy' = Busy /\ busy' = busy
      BY <1>13, <2>1, <1>0, <1>h DEF ResetOk, QuitClosed, Busy, Hands, InHand
    <3> QED BY <3>1, <1>c, CountIn, CountOut, CountSwap
  <2>2. CASE ~closed /\ queue # <<>>
    <3>1. /\ x \in Busy /\ Head(queue) \notin Busy /\ busy' = busy
             /\ Busy' = (Busy \ {x}) \cup {Head(queue)}
      BY <1>13, <2>2, <1>0, <1>h DEF ResetOk, Done, Busy, Hands, InHand
    <3> QED BY <3>1, <1>c, CountIn, CountOut, CountSwap
  <2>3. CASE ~closed /\ queue = <<>>
    <3>1. x \in Busy /\ Busy' = Busy \ {x} /\ busy' = busy - 1
      BY <1>13, <2>3, <1>0, <1>h DEF ResetOk, PutIdle, Done, Busy, Hands, InHand
    <3> QED BY <3>1, <1>c, CountIn, CountOut, CountSwap
  <2> QED BY <2>1, <2>2, <2>3
<1>14. ASSUME NEW x \in Coros, PutQuitEnd(x) PROVE busy' = Cardinality(Busy')
  <2>1. CASE closed
    <3>1. x \in Busy /\ Busy' = Busy \ {x} /\ busy' = busy - 1
      BY <1>14, <2>1, <1>0, <1>h DEF PutQuitEnd, FailClosed, Busy, Hands, InHand
    <3> QED BY <3>1, <1>c, CountIn, CountOut, CountSwap
  <2>2. CASE ~closed
    <3>1. x \in Busy /\ Busy' = Busy \ {x} /\ busy' = busy - 1
      BY <1>14, <2>2, <1>0, <1>h DEF PutQuitEnd, PutIdle, WakeHead, Done, Busy, Hands, InHand
    <3> QED BY <3>1, <1>c, CountIn, CountOut, CountSwap
  <2> QED BY <2>1, <2>2
<1>15. ASSUME NEW x \in Users, Get(x) PROVE busy' = Cardinality(Busy')
  <2>1. Busy' = Busy /\ busy' = busy
    BY <1>15, <1>0, <1>h DEF Get, Busy, Hands, InHand
  <2> QED BY <2>1, <1>c, CountIn, CountOut, CountSwap
<1>16. ASSUME NEW x \in Users, GetFails(x) PROVE busy' = Cardinality(Busy')
  BY <1>16, <1>0, <1>c, <1>h DEF GetFails, Busy, Hands, InHand
<1>17. ASSUME NEW x \in Users, GetWait(x) PROVE busy' = Cardinality(Busy')
  BY <1>17, <1>0, <1>c, <1>h DEF GetWait, Busy, Hands, InHand
<1>18. ASSUME NEW x \in Users, Expire(x) PROVE busy' = Cardinality(Busy')
  BY <1>18, <1>0, <1>c, <1>h DEF Expire, Busy, Hands, InHand
<1>19. ASSUME NEW x \in Users, Woke(x) PROVE busy' = Cardinality(Busy')
  BY <1>19, <1>0, <1>c, <1>h DEF Woke, Release, Busy, Hands, InHand
<1>20. ASSUME NEW x \in Users, NEW k \in Conns, GetTake(x, k) PROVE busy' = Cardinality(Busy')
  <2>1. x \notin Busy /\ Busy' = Busy \cup {x} /\ busy' = busy + 1
    BY <1>20, <1>0, <1>h DEF GetTake, Checkout, Busy, Hands, InHand
  <2> QED BY <2>1, <1>c, CountIn, CountOut, CountSwap
<1>21. ASSUME NEW x \in Users, Free(x) PROVE busy' = Cardinality(Busy')
  BY <1>21, <1>0, <1>c, <1>h DEF Free, Busy, Hands, InHand
<1>22. ASSUME NEW x \in Users, FreeTick(x) PROVE busy' = Cardinality(Busy')
  BY <1>22, <1>0, <1>c, <1>h DEF FreeTick, Busy, Hands, InHand
<1>23. ASSUME NEW x \in Users, FreeQuitEnd(x) PROVE busy' = Cardinality(Busy')
  BY <1>23, <1>0, <1>c, <1>h DEF FreeQuitEnd, Down, Busy, Hands, InHand
<1>24. ASSUME NEW x \in Users, FreeEnd(x) PROVE busy' = Cardinality(Busy')
  BY <1>24, <1>0, <1>c, <1>h DEF FreeEnd, Release, Busy, Hands, InHand
<1>25. ASSUME NEW x \in Users, NEW k \in Conns, FreeIdle(x, k) PROVE busy' = Cardinality(Busy')
  BY <1>25, <1>0, <1>c, <1>h DEF FreeIdle, Busy, Hands, InHand
<1>26. ASSUME NEW x \in Users, NEW k \in Conns, Add(x, k) PROVE busy' = Cardinality(Busy')
  BY <1>26, <1>0, <1>c, <1>h DEF Add, Busy, Hands, InHand
<1>27. ASSUME NEW k \in Conns, Break(k) PROVE busy' = Cardinality(Busy')
  BY <1>27, <1>0, <1>c, <1>h DEF Break, Busy, Hands, InHand
<1>28. ASSUME NEW k \in Conns, CoolDown(k) PROVE busy' = Cardinality(Busy')
  BY <1>28, <1>0, <1>c, <1>h DEF CoolDown, Busy, Hands, InHand
<1>29. CASE TickStart
  BY <1>29, <1>0, <1>c, <1>h DEF TickStart, Busy, Hands, InHand
<1>30. CASE TickWait
  BY <1>30, <1>0, <1>c, <1>h DEF TickWait, Busy, Hands, InHand
<1>31. CASE TickTimer
  BY <1>31, <1>0, <1>c, <1>h DEF TickTimer, Busy, Hands, InHand
<1>32. CASE ReapEnd
  <2>1. CASE closed
    <3>1. Tick \in Busy /\ Busy' = Busy \ {Tick} /\ busy' = busy - 1
      BY <1>32, <2>1, <1>0, <1>h DEF ReapEnd, FailClosed, Busy, Hands, InHand
    <3> QED BY <3>1, <1>c, CountIn, CountOut, CountSwap
  <2>2. CASE ~closed
    <3>1. Tick \in Busy /\ Busy' = Busy \ {Tick} /\ busy' = busy - 1
      BY <1>32, <2>2, <1>0, <1>h DEF ReapEnd, PutIdle, WakeHead, Busy, Hands, InHand
    <3> QED BY <3>1, <1>c, CountIn, CountOut, CountSwap
  <2> QED BY <2>1, <2>2
<1>33. CASE TickAgain
  BY <1>33, <1>0, <1>c, <1>h DEF TickAgain, Busy, Hands, InHand
<1>34. CASE TickExit
  BY <1>34, <1>0, <1>c, <1>h DEF TickExit, Release, Busy, Hands, InHand
<1>35. ASSUME NEW k \in Conns, Reap(k) PROVE busy' = Cardinality(Busy')
  <2>1. Tick \notin Busy /\ Busy' = Busy \cup {Tick} /\ busy' = busy + 1
    BY <1>35, <1>0, <1>h DEF Reap, Busy, Hands, InHand
  <2> QED BY <2>1, <1>c, CountIn, CountOut, CountSwap
<1>36. ASSUME NEW k \in Conns, Fill(k) PROVE busy' = Cardinality(Busy')
  <2>1. Tick \notin Busy /\ Busy' = Busy \cup {Tick} /\ busy' = busy + 1
    BY <1>36, <1>0, <1>h DEF Fill, Checkout, Busy, Hands, InHand
  <2> QED BY <2>1, <1>c, CountIn, CountOut, CountSwap
<1> QED BY <1>1, <1>2, <1>3, <1>4, <1>5, <1>6, <1>7, <1>8, <1>9, <1>10, <1>11, <1>12, <1>13,
  <1>14, <1>15, <1>16, <1>17, <1>18, <1>19, <1>20, <1>21, <1>22, <1>23, <1>24, <1>25, <1>26,
  <1>27, <1>28, <1>29, <1>30, <1>31, <1>32, <1>33, <1>34, <1>35, <1>36 DEF Next, Borrow,
  Server, Return, Maintain, Destroy

\* waiters counts those that wait, until they have looked.
LEMMA WaitersStep ==
  ASSUME IInv, [Next]_vars
  PROVE  waiters' = Cardinality(Waiting')
<1>0. at \in [Coros -> Places]
  BY DEF IInv, TypeOK
<1>c. IsFiniteSet(Waiting) /\ waiters = Cardinality(Waiting) /\ waiters \in Nat
  BY Counts DEF IInv, Counted
<1>h. /\ queue # <<>> => Head(queue) \in Users /\ at[Head(queue)] = "wait"
      /\ \A y \in Coros : waking[y] # <<>> =>
           Head(waking[y]) \in Users /\ at[Head(waking[y])] = "wait"
  BY Heads DEF IInv
<1>1. CASE UNCHANGED vars
  BY <1>1, <1>0, <1>c, <1>h DEF vars, Waiting
<1>2. ASSUME NEW x \in Coros, Start(x) PROVE waiters' = Cardinality(Waiting')
  BY <1>2, <1>0, <1>c, <1>h DEF Start, Waiting
<1>3. ASSUME NEW x \in Coros, Finish(x) PROVE waiters' = Cardinality(Waiting')
  BY <1>3, <1>0, <1>c, <1>h DEF Finish, Waiting
<1>4. ASSUME NEW x \in Coros, Half(x) PROVE waiters' = Cardinality(Waiting')
  BY <1>4, <1>0, <1>c, <1>h DEF Half, Waiting
<1>5. ASSUME NEW x \in Coros, FailQuitEnd(x) PROVE waiters' = Cardinality(Waiting')
  BY <1>5, <1>0, <1>c, <1>h DEF FailQuitEnd, FailClosed, Down, Release, Gone, Waiting
<1>6. ASSUME NEW x \in Coros, RenewEnd(x) PROVE waiters' = Cardinality(Waiting')
  <2>1. CASE closed
    BY <1>6, <2>1, <1>0, <1>c, <1>h DEF RenewEnd, FailClosed, Down, Release, Gone, Waiting
  <2>2. CASE ~closed
    BY <1>6, <2>2, <1>0, <1>c, <1>h DEF RenewEnd, FailClosed, Down, Release, Gone, Waiting
  <2> QED BY <2>1, <2>2
<1>7. ASSUME NEW x \in Coros, OpenOk(x) PROVE waiters' = Cardinality(Waiting')
  <2>1. CASE closed
    BY <1>7, <2>1, <1>0, <1>c, <1>h DEF OpenOk, QuitClosed, Waiting
  <2>2. CASE ~closed
    BY <1>7, <2>2, <1>0, <1>c, <1>h DEF OpenOk, QuitClosed, Waiting
  <2> QED BY <2>1, <2>2
<1>8. ASSUME NEW x \in Coros, OpenFailed(x) PROVE waiters' = Cardinality(Waiting')
  <2>1. CASE closed
    BY <1>8, <2>1, <1>0, <1>c, <1>h DEF OpenFailed, QuitClosed, PutIdle, Down, Waiting
  <2>2. CASE ~closed /\ waiters > 0 /\ busy = 1
    BY <1>8, <2>2, <1>0, <1>c, <1>h DEF OpenFailed, QuitClosed, PutIdle, Down, Waiting
  <2>3. CASE ~closed /\ ~(waiters > 0 /\ busy = 1)
    BY <1>8, <2>3, <1>0, <1>c, <1>h DEF OpenFailed, QuitClosed, PutIdle, Down, Waiting
  <2> QED BY <2>1, <2>2, <2>3
<1>9. ASSUME NEW x \in Coros, WakeAllNext(x) PROVE waiters' = Cardinality(Waiting')
  BY <1>9, <1>0, <1>c, <1>h DEF WakeAllNext, Waiting
<1>10. ASSUME NEW x \in Coros, WakeAllEnd(x) PROVE waiters' = Cardinality(Waiting')
  BY <1>10, <1>0, <1>c, <1>h DEF WakeAllEnd, Gone, Waiting
<1>11. ASSUME NEW x \in Coros, Put(x) PROVE waiters' = Cardinality(Waiting')
  <2>1. CASE closed
    BY <1>11, <2>1, <1>0, <1>c, <1>h DEF Put, Waiting
  <2>2. CASE ~closed
    BY <1>11, <2>2, <1>0, <1>c, <1>h DEF Put, Waiting
  <2> QED BY <2>1, <2>2
<1>12. ASSUME NEW x \in Coros, ResetFailed(x) PROVE waiters' = Cardinality(Waiting')
  BY <1>12, <1>0, <1>c, <1>h DEF ResetFailed, Waiting
<1>13. ASSUME NEW x \in Coros, ResetOk(x) PROVE waiters' = Cardinality(Waiting')
  <2>1. CASE closed
    <3>1. Waiting' = Waiting /\ waiters' = waiters
      BY <1>13, <2>1, <1>0, <1>h DEF ResetOk, QuitClosed, Waiting
    <3> QED BY <3>1, <1>c
  <2>2. CASE ~closed /\ queue # <<>>
    <3>1. Waiting' = Waiting /\ waiters' = waiters
      BY <1>13, <2>2, <1>0, <1>h DEF ResetOk, Done, Waiting
    <3> QED BY <3>1, <1>c
  <2>3. CASE ~closed /\ queue = <<>>
    <3>1. Waiting' = Waiting /\ waiters' = waiters
      BY <1>13, <2>3, <1>0, <1>h DEF ResetOk, PutIdle, Done, Waiting
    <3> QED BY <3>1, <1>c
  <2> QED BY <2>1, <2>2, <2>3
<1>14. ASSUME NEW x \in Coros, PutQuitEnd(x) PROVE waiters' = Cardinality(Waiting')
  <2>1. CASE closed
    <3>1. Waiting' = Waiting /\ waiters' = waiters
      BY <1>14, <2>1, <1>0, <1>h DEF PutQuitEnd, FailClosed, Gone, Waiting
    <3> QED BY <3>1, <1>c
  <2>2. CASE ~closed /\ queue # <<>>
    <3>1. Waiting' = Waiting /\ waiters' = waiters
      BY <1>14, <2>2, <1>0, <1>h DEF PutQuitEnd, WakeHead, Done, Waiting
    <3> QED BY <3>1, <1>c
  <2>3. CASE ~closed /\ queue = <<>>
    <3>1. Waiting' = Waiting /\ waiters' = waiters
      BY <1>14, <2>3, <1>0, <1>h DEF PutQuitEnd, WakeHead, Done, Waiting
    <3> QED BY <3>1, <1>c
  <2> QED BY <2>1, <2>2, <2>3
<1>15. ASSUME NEW x \in Users, Get(x) PROVE waiters' = Cardinality(Waiting')
  BY <1>15, <1>0, <1>c, <1>h DEF Get, Waiting
<1>16. ASSUME NEW x \in Users, GetFails(x) PROVE waiters' = Cardinality(Waiting')
  BY <1>16, <1>0, <1>c, <1>h DEF GetFails, Waiting
<1>17. ASSUME NEW x \in Users, GetWait(x) PROVE waiters' = Cardinality(Waiting')
  <2>1. x \notin Waiting /\ Waiting' = Waiting \cup {x} /\ waiters' = waiters + 1
    BY <1>17, <1>0, <1>h DEF GetWait, Waiting
  <2> QED BY <2>1, <1>c, CountIn, CountOut, CountSwap
<1>18. ASSUME NEW x \in Users, Expire(x) PROVE waiters' = Cardinality(Waiting')
  BY <1>18, <1>0, <1>c, <1>h DEF Expire, Waiting
<1>19. ASSUME NEW x \in Users, Woke(x) PROVE waiters' = Cardinality(Waiting')
  <2>1. x \in Waiting /\ Waiting' = Waiting \ {x} /\ waiters' = waiters - 1
    BY <1>19, <1>0, <1>h DEF Woke, Waiting
  <2> QED BY <2>1, <1>c, CountIn, CountOut, CountSwap
<1>20. ASSUME NEW x \in Users, NEW k \in Conns, GetTake(x, k) PROVE waiters' = Cardinality(Waiting')
  <2>1. CASE link[k] = "ready"
    BY <1>20, <2>1, <1>0, <1>c, <1>h DEF GetTake, Checkout, Waiting
  <2>2. CASE link[k] # "ready"
    BY <1>20, <2>2, <1>0, <1>c, <1>h DEF GetTake, Checkout, Waiting
  <2> QED BY <2>1, <2>2
<1>21. ASSUME NEW x \in Users, Free(x) PROVE waiters' = Cardinality(Waiting')
  BY <1>21, <1>0, <1>c, <1>h DEF Free, Waiting
<1>22. ASSUME NEW x \in Users, FreeTick(x) PROVE waiters' = Cardinality(Waiting')
  <2>1. CASE at[Tick] = "tick"
    BY <1>22, <2>1, <1>0, <1>c, <1>h DEF FreeTick, Waiting
  <2>2. CASE at[Tick] # "tick"
    BY <1>22, <2>2, <1>0, <1>c, <1>h DEF FreeTick, Waiting
  <2> QED BY <2>1, <2>2
<1>23. ASSUME NEW x \in Users, FreeQuitEnd(x) PROVE waiters' = Cardinality(Waiting')
  BY <1>23, <1>0, <1>c, <1>h DEF FreeQuitEnd, Down, Waiting
<1>24. ASSUME NEW x \in Users, FreeEnd(x) PROVE waiters' = Cardinality(Waiting')
  BY <1>24, <1>0, <1>c, <1>h DEF FreeEnd, Release, Waiting
<1>25. ASSUME NEW x \in Users, NEW k \in Conns, FreeIdle(x, k) PROVE waiters' = Cardinality(Waiting')
  BY <1>25, <1>0, <1>c, <1>h DEF FreeIdle, Waiting
<1>26. ASSUME NEW x \in Users, NEW k \in Conns, Add(x, k) PROVE waiters' = Cardinality(Waiting')
  BY <1>26, <1>0, <1>c, <1>h DEF Add, Waiting
<1>27. ASSUME NEW k \in Conns, Break(k) PROVE waiters' = Cardinality(Waiting')
  BY <1>27, <1>0, <1>c, <1>h DEF Break, Waiting
<1>28. ASSUME NEW k \in Conns, CoolDown(k) PROVE waiters' = Cardinality(Waiting')
  BY <1>28, <1>0, <1>c, <1>h DEF CoolDown, Waiting
<1>29. CASE TickStart
  BY <1>29, <1>0, <1>c, <1>h DEF TickStart, Waiting
<1>30. CASE TickWait
  BY <1>30, <1>0, <1>c, <1>h DEF TickWait, Waiting
<1>31. CASE TickTimer
  BY <1>31, <1>0, <1>c, <1>h DEF TickTimer, Waiting
<1>32. CASE ReapEnd
  <2>1. CASE closed
    BY <1>32, <2>1, <1>0, <1>c, <1>h DEF ReapEnd, FailClosed, PutIdle, WakeHead, Down, Release,
      Gone, Waiting
  <2>2. CASE ~closed /\ queue # <<>>
    BY <1>32, <2>2, <1>0, <1>c, <1>h DEF ReapEnd, FailClosed, PutIdle, WakeHead, Down, Release,
      Gone, Waiting
  <2>3. CASE ~closed /\ queue = <<>>
    BY <1>32, <2>3, <1>0, <1>c, <1>h DEF ReapEnd, FailClosed, PutIdle, WakeHead, Down, Release,
      Gone, Waiting
  <2> QED BY <2>1, <2>2, <2>3
<1>33. CASE TickAgain
  BY <1>33, <1>0, <1>c, <1>h DEF TickAgain, Waiting
<1>34. CASE TickExit
  BY <1>34, <1>0, <1>c, <1>h DEF TickExit, Release, Waiting
<1>35. ASSUME NEW k \in Conns, Reap(k) PROVE waiters' = Cardinality(Waiting')
  BY <1>35, <1>0, <1>c, <1>h DEF Reap, Waiting
<1>36. ASSUME NEW k \in Conns, Fill(k) PROVE waiters' = Cardinality(Waiting')
  <2>1. CASE link[k] = "ready"
    BY <1>36, <2>1, <1>0, <1>c, <1>h DEF Fill, Checkout, Waiting
  <2>2. CASE link[k] # "ready"
    BY <1>36, <2>2, <1>0, <1>c, <1>h DEF Fill, Checkout, Waiting
  <2> QED BY <2>1, <2>2
<1> QED BY <1>1, <1>2, <1>3, <1>4, <1>5, <1>6, <1>7, <1>8, <1>9, <1>10, <1>11, <1>12, <1>13,
  <1>14, <1>15, <1>16, <1>17, <1>18, <1>19, <1>20, <1>21, <1>22, <1>23, <1>24, <1>25, <1>26,
  <1>27, <1>28, <1>29, <1>30, <1>31, <1>32, <1>33, <1>34, <1>35, <1>36 DEF Next, Borrow,
  Server, Return, Maintain, Destroy

-----------------------------------------------------------------------------
(* The theorems *)

LEMMA InitInv == Init => IInv
<1> SUFFICES ASSUME Init PROVE IInv
  OBVIOUS
<1> USE DEF Init
<1>1. \A x \in Users : at[x] = "out"
  OBVIOUS
<1>2. at[Tick] \in {"none", "off"} /\ \A x \in Coros : at[x] \in {"out", "none", "off"}
  OBVIOUS
<1>3. TypeOK
  <2>1. at \in [Coros -> Places] BY DEF Places
  <2>2. run \in Seq(Coros \cup {Main}) /\ queue \in Seq(Users) /\ waking \in [Coros -> Seq(Users)]
    OBVIOUS
  <2> QED BY <2>1, <2>2 DEF TypeOK
<1>4. Roles BY <1>1, <1>2 DEF Roles
<1>5. Stack /\ On = {Main}
  <2>1. run = <<Main>> /\ DOMAIN run = {1} /\ run[1] = Main OBVIOUS
  <2>2. run # <<>> OBVIOUS
  <2> QED BY <2>1, <2>2 DEF Stack, On, ToSet, IsInjective
<1>6. Where BY <1>2, <1>5 DEF Where
<1>7. /\ Queued = {} /\ \A y \in Coros : Listed(y) = {}
      /\ Standing
  <2>1. queue = <<>> /\ \A y \in Coros : waking[y] = <<>> OBVIOUS
  <2>2. <<>> \in Seq(Users) OBVIOUS
  <2> QED BY <2>1, <2>2, EmptyQueue DEF Queued, Listed, Standing
<1>8. Queues BY <1>1, <1>2, <1>7 DEF Queues
<1>9. Hands BY <1>2 DEF Hands, InHand
<1>10. Closing BY <1>2 DEF Closing, Freeing
<1>11. Freed BY DEF Freed
<1>12. Counted
  <2>1. Busy = {} /\ Waiting = {} BY <1>1 DEF Busy, Waiting
  <2> QED BY <2>1, FS_EmptySet DEF Counted
<1>13. Linked BY DEF Linked
<1>14. Looks BY <1>7 DEF Looks
<1> QED BY <1>3, <1>4, <1>5, <1>6, <1>7, <1>8, <1>9, <1>10, <1>11, <1>12, <1>13, <1>14 DEF IInv

LEMMA NextInv == ASSUME IInv, [Next]_vars PROVE IInv'
<1>1. TypeOK'
  BY RunStep, CountTypes, FlagTypes, ConnTypes, HandTypes, PlaceTypes, WaitTypes
  DEF TypeOK, MemTyped, FlagsTyped, ConnsTyped, WaitsTyped
<1>2. Roles' /\ Stack' /\ Where' /\ Standing' /\ Queues'
  BY RunStep, RolesStep, WhereStep, StandingStep, QueuesStep
<1>3. Hands' /\ Closing' /\ Freed' /\ Linked' /\ Looks'
  BY HandsStep, ClosingStep, FreedStep, LinkedStep, LooksStep
<1>4. Counted'
  BY BusyStep, WaitersStep DEF Counted
<1> QED BY <1>1, <1>2, <1>3, <1>4 DEF IInv

\* The inductive invariant holds in every state of every run of the pool.
THEOREM InvariantHolds == Spec => []IInv
BY InitInv, NextInv, PTL DEF Spec

\* Every variable of the pool stays in its type.
THEOREM PoolTypesCorrect == Spec => []TypeOK
<1>1. IInv => TypeOK BY DEF IInv
<1> QED BY <1>1, InvariantHolds, PTL

\* A connection is in one pair of hands or in the idle stack, never both, however the
\* borrowers, the maintenance and a free interleave, and busy counts those in hand.
THEOREM OneHolderCorrect == Spec => []OneHolder
<1>1. ASSUME IInv PROVE OneHolder
  <2>1. \A x \in Coros : con[x] \notin idle
    BY <1>1 DEF IInv, TypeOK, Hands
  <2> QED BY <1>1, <2>1 DEF IInv, Hands, Counted, Busy, OneHolder
<1> QED BY <1>1, InvariantHolds, PTL

\* No coroutine that is still inside the pool finds its memory freed: whoever leaves a
\* freed pool last is counted until it does.
THEOREM NoUseAfterFreeCorrect == Spec => []NoUseAfterFree
<1>1. ASSUME IInv, mem = "freed", NEW x \in Coros
      PROVE  at[x] \in {"out", "none", "off", "gone"} \/ (x # Tick /\ at[x] = "wakeall")
  <2>1. free_pending /\ busy = 0 /\ waiters = 0 /\ ~ticking
    BY <1>1 DEF IInv, Freed
  <2>2. Busy = {} /\ Waiting = {}
    BY <1>1, <2>1, Counts DEF IInv
  <2>3. at[x] \notin Freeing /\ at[x] # "get"
    BY <1>1, <2>1 DEF IInv, Closing
  <2>4. at[x] \notin InHand
    BY <1>1, <2>2, <2>3 DEF IInv, Hands, InHand, Freeing, Busy
  <2>5. CASE x = Tick
    BY <1>1, <2>1, <2>5 DEF IInv, Closing
  <2>6. CASE x \in Users
    <3>1. x # Tick /\ at[x] \notin {"wait", "woke"}
      BY <2>2, <2>6 DEF Waiting
    <3> QED BY <1>1, <2>3, <2>4, <2>6, <3>1 DEF IInv, Roles, InHand, Freeing
  <2> QED BY <2>5, <2>6
<1>2. IInv => NoUseAfterFree
  BY <1>1 DEF NoUseAfterFree
<1> QED BY <1>2, InvariantHolds, PTL

\* A freed pool leaves no connection open, and its memory does not stay behind when
\* everybody has left.
THEOREM NothingLeftCorrect == Spec => []NothingLeft
<1>1. ASSUME IInv, mem = "freed", NEW k \in Conns
      PROVE  link[k] = "down"
  <2>1. free_pending /\ busy = 0
    BY <1>1 DEF IInv, Freed
  <2>2. Busy = {} /\ idle = {}
    BY <1>1, <2>1, Counts DEF IInv, Closing
  <2>3. \A x \in Coros : at[x] # "freequit"
    BY <1>1, <2>1 DEF IInv, Closing, Freeing
  <2>4. \A x \in Coros : con[x] = Nil
    BY <2>2, <2>3 DEF Busy
  <2> QED BY <1>1, <2>2, <2>4 DEF IInv, Linked
<1>2. ASSUME IInv, closed, \A x \in Users : at[x] = "out", at[Tick] \in {"none", "off", "gone"}
      PROVE  mem = "freed"
  <2>1. free_pending /\ ~ticking
    BY <1>2 DEF IInv, Closing, Freeing
  <2>2. Busy = {} /\ Waiting = {}
    BY <1>2 DEF IInv, Hands, InHand, Busy, Waiting
  <2>3. busy = 0 /\ waiters = 0
    BY <1>2, <2>2, Counts DEF IInv
  <2> QED BY <1>2, <2>1, <2>3 DEF IInv, Freed
<1>3. IInv => NothingLeft
  BY <1>1, <1>2 DEF NothingLeft
<1> QED BY <1>3, InvariantHolds, PTL

\* Nobody waits without a timer for a connection that nobody will bring.
THEOREM NoneStrandedCorrect == Spec => []NoneStranded
<1>1. ASSUME IInv, Top = Main, NEW x \in Users, at[x] = "wait" PROVE busy > 0
  <2>1. On = {Main} /\ Main \notin Coros
    BY <1>1, RunMoves DEF IInv
  <2>2. \A y \in Coros : Listed(y) = {}
    BY <1>1, <2>1 DEF IInv, Queues, Where
  <2>3. Queued # {}
    BY <1>1, <2>2 DEF IInv, Queues
  <2>4. \A w \in Users : at[w] \notin {"woke", "get"}
    BY <1>1, <2>1 DEF IInv, Where
  <2> QED BY <1>1, <2>3, <2>4 DEF IInv, Looks
<1>2. IInv => NoneStranded
  BY <1>1 DEF NoneStranded
<1> QED BY <1>2, InvariantHolds, PTL
=============================================================================
