------------------------------ MODULE CoroProofs ------------------------------
(***************************************************************************)
(* Proofs about the coroutine scheduler, for any number of coroutines,     *)
(* sessions, tags and locks.                                               *)
(*                                                                         *)
(* Its sessions and forks (CoroSess, in Coro as S): a waiting coroutine is *)
(* registered once, fork_wait counts its children, and a wake_all wakes    *)
(* those that were there before it.  The lists are followed by the four    *)
(* things that can happen to them, the waits by since when they last, the  *)
(* forks by where the record of a child is: in the queue or in the child.  *)
(*                                                                         *)
(* Its serials (CoroSerial): the command lock of a connection has one      *)
(* owner, is not touched after it was freed, does not leak, is closed for  *)
(* good and leaves no waiter without a wake on its way.                    *)
(***************************************************************************)
EXTENDS Coro, FiniteSetTheorems, SequenceTheorems, TLAPS

-----------------------------------------------------------------------------
(* Sessions and forks: the invariant *)

Waiting == {c \in Members : st[c] = "wait"}
On(s) == InSeq(sess_waiters[s])
Left(x) == InSeq(all[x].list)

\* The dispatcher is at the bottom of the stack, and there only; who is in a wake_all
\* is on the stack.
Stack ==
  /\ run[1] = Main /\ \A i \in DOMAIN run : i # 1 => run[i] \in Members
  /\ \A x \in S!Contexts : S!InAll(x) => x \in InSeq(run)

\* Who is in a wake_all runs, the dispatcher after its message.
Loops ==
  /\ S!InAll(Main) => phase = "drain"
  /\ \A c \in Members : S!InAll(c) => st[c] = "run"
  /\ \A x \in S!Contexts : ~S!InAll(x) => all[x].list = <<>>

\* Every list is one of waiters, without repetition.
Lists ==
  /\ \A s \in Sess : On(s) \subseteq Waiting /\ IsInjective(sess_waiters[s])
  /\ \A x \in S!Contexts : Left(x) \subseteq Waiting /\ IsInjective(all[x].list)

\* No two lists have a waiter in common.
Apart ==
  /\ \A s, r \in Sess : s # r => On(s) \cap On(r) = {}
  /\ \A x, y \in S!Contexts : x # y => Left(x) \cap Left(y) = {}
  /\ \A s \in Sess, x \in S!Contexts : On(s) \cap Left(x) = {}

\* Every waiter is in a list.
Placed == \A c \in Waiting : (\E s \in Sess : c \in On(s)) \/ (\E x \in S!Contexts : c \in Left(x))

\* A session somebody waits on has an entry; one without waiters has a reason to stay.
Entries ==
  \A s \in Sess :
    /\ sess_waiters[s] # <<>> => keep[s] # Nil
    /\ keep[s] # Nil /\ sess_waiters[s] = <<>> =>
         keep[s] = TRUE \/ \E x \in S!Contexts : all[x].on = s

\* A timeout belongs to a waiter.
Timeouts == \A c \in Members : (timed[c] => st[c] = "wait") /\ (c \in due => timed[c])

\* Who waits began before now; who is left in a wake_all began before it did.
Ages ==
  /\ \A c \in Waiting : since[c] < ops
  /\ \A x \in S!Contexts, c \in Members : c \in Left(x) => since[c] < all[x].at

\* How often c stands in q.
Times(q, c) == Cardinality({i \in DOMAIN q : q[i] = c})
Children(c) == {d \in Members : parent[d] = c}

\* A coroutine that does not run yet, or no longer, is nobody's child.
Counts ==
  /\ \A c \in Members : waited[c] = Times(fork_pending, c) + Cardinality(Children(c))
  /\ \A c \in Members : st[c] = "fork" <=> waited[c] > 0
  /\ \A c \in Members : st[c] \in {"idle", "end"} => parent[c] = Nil

Standing == Lists /\ Apart /\ Placed
SessInv == S!TypeOK /\ Stack /\ Loops /\ Standing /\ Entries /\ Timeouts /\ Ages /\ Counts

-----------------------------------------------------------------------------
(* Sequences *)

\* The instance has its own names for the library's operators.
LEMMA SameNames ==
  /\ \A q : S!Last(q) = Last(q) /\ S!Front(q) = Front(q)
  /\ \A q, i : S!RemoveAt(q, i) = RemoveAt(q, i)
  /\ \A q, e : S!Contains(q, e) = Contains(q, e)
  /\ \A X : S!IsFiniteSet(X) = IsFiniteSet(X) /\ S!Cardinality(X) = Cardinality(X)
BY DEF S!Last, Last, S!Front, Front, S!RemoveAt, RemoveAt, S!Contains, Contains,
       S!IsFiniteSet, IsFiniteSet, S!Cardinality, Cardinality

\* One more at the end.
LEMMA Pushed ==
  ASSUME NEW Els, NEW q \in Seq(Els), NEW e \in Els
  PROVE  /\ Append(q, e) \in Seq(Els) /\ Append(q, e) # <<>> /\ Last(Append(q, e)) = e
         /\ InSeq(Append(q, e)) = InSeq(q) \cup {e}
         /\ DOMAIN Append(q, e) = 1 .. Len(q) + 1 /\ DOMAIN q = 1 .. Len(q) /\ Len(q) \in Nat
         /\ \A i \in DOMAIN q : Append(q, e)[i] = q[i]
         /\ Append(q, e)[Len(q) + 1] = e
<1>1. /\ Append(q, e) \in Seq(Els) /\ Append(q, e) # <<>>
      /\ DOMAIN Append(q, e) = 1 .. Len(q) + 1 /\ DOMAIN q = 1 .. Len(q) /\ Len(q) \in Nat
      /\ \A i \in DOMAIN q : Append(q, e)[i] = q[i]
      /\ Append(q, e)[Len(q) + 1] = e
      /\ Len(Append(q, e)) = Len(q) + 1
  OBVIOUS
<1>2. InSeq(Append(q, e)) = InSeq(q) \cup {e} BY <1>1 DEF InSeq
<1>3. Last(Append(q, e)) = e BY <1>1 DEF Last
<1> QED BY <1>1, <1>2, <1>3

\* The last one goes, and was not the only one.
LEMMA Popped ==
  ASSUME NEW Els, NEW q \in Seq(Els), q # <<>>, Last(q) # q[1]
  PROVE  /\ Front(q) \in Seq(Els) /\ Front(q) # <<>>
         /\ \A i \in DOMAIN Front(q) : i \in DOMAIN q /\ Front(q)[i] = q[i]
         /\ 1 \in DOMAIN Front(q)
         /\ InSeq(q) \subseteq InSeq(Front(q)) \cup {Last(q)}
<1> DEFINE n == Len(q) - 1
<1>1. Len(q) \in Nat /\ Len(q) # 0 /\ Len(q) # 1 /\ DOMAIN q = 1 .. Len(q) BY DEF Last
<1>2. n \in Nat /\ n >= 1 /\ Len(q) = n + 1 /\ \A i \in 1 .. n : i - 1 + 1 = i /\ 1 + i - 1 = i
  BY <1>1
<1>3. \A i \in 1 .. n : q[i] \in Els BY <1>1, <1>2
<1>4. Front(q) = SubSeq(q, 1, n) BY DEF Front
<1> HIDE DEF n
<1>5. /\ Front(q) \in Seq(Els) /\ Len(Front(q)) = n
      /\ \A i \in 1 .. n : Front(q)[i] = q[i]
  <2>1. /\ SubSeq(q, 1, n) \in Seq(Els)
        /\ Len(SubSeq(q, 1, n)) = IF 1 <= n THEN n - 1 + 1 ELSE 0
        /\ \A i \in 1 .. n - 1 + 1 : SubSeq(q, 1, n)[i] = q[1 + i - 1]
    BY <1>2, <1>3, SubSeqProperties
  <2>2. n - 1 + 1 = n BY <1>2
  <2> QED BY <1>2, <1>4, <2>1, <2>2
<1>6. DOMAIN Front(q) = 1 .. n BY <1>5
<1>7. \A i \in DOMAIN q : i \in 1 .. n \/ i = Len(q) BY <1>1, <1>2
<1>8. InSeq(q) \subseteq InSeq(Front(q)) \cup {Last(q)} BY <1>5, <1>6, <1>7 DEF InSeq, Last
<1>9. 1 \in 1 .. n /\ 1 .. n \subseteq 1 .. Len(q) BY <1>1, <1>2
<1> QED BY <1>1, <1>2, <1>5, <1>6, <1>8, <1>9

\* One of a queue goes.
LEMMA Removed ==
  ASSUME NEW Els, NEW q \in Seq(Els), NEW i \in DOMAIN q, IsInjective(q)
  PROVE  /\ RemoveAt(q, i) \in Seq(Els)
         /\ InSeq(RemoveAt(q, i)) = InSeq(q) \ {q[i]}
         /\ IsInjective(RemoveAt(q, i))
<1> DEFINE a == SubSeq(q, 1, i - 1)
           b == SubSeq(q, i + 1, Len(q))
           r == RemoveAt(q, i)
<1>1. Len(q) \in Nat /\ DOMAIN q = 1 .. Len(q) /\ i \in 1 .. Len(q) /\ i \in Nat OBVIOUS
<1>2. \A k \in 1 .. Len(q) : q[k] \in Els OBVIOUS
<1>3. /\ a \in Seq(Els) /\ Len(a) = i - 1 /\ \A k \in 1 .. i - 1 : a[k] = q[k]
  <2>1. /\ a \in Seq(Els) /\ Len(a) = IF 1 <= i - 1 THEN i - 1 - 1 + 1 ELSE 0
        /\ \A k \in 1 .. i - 1 - 1 + 1 : a[k] = q[1 + k - 1]
    <3>1. \A k \in 1 .. i - 1 : q[k] \in Els BY <1>1, <1>2
    <3>2. 1 \in Int /\ i - 1 \in Int BY <1>1
    <3> QED BY <3>1, <3>2, SubSeqProperties
  <2>2. i - 1 - 1 + 1 = i - 1 /\ \A k \in 1 .. i - 1 : 1 + k - 1 = k BY <1>1
  <2>3. (IF 1 <= i - 1 THEN i - 1 - 1 + 1 ELSE 0) = i - 1 BY <1>1
  <2> HIDE DEF a
  <2> QED BY <2>1, <2>2, <2>3
<1>4. /\ b \in Seq(Els) /\ Len(b) = Len(q) - i /\ \A k \in 1 .. Len(q) - i : b[k] = q[i + k]
  <2>1. /\ b \in Seq(Els) /\ Len(b) = IF i + 1 <= Len(q) THEN Len(q) - (i + 1) + 1 ELSE 0
        /\ \A k \in 1 .. Len(q) - (i + 1) + 1 : b[k] = q[(i + 1) + k - 1]
    <3>1. \A k \in i + 1 .. Len(q) : q[k] \in Els BY <1>1, <1>2
    <3>2. i + 1 \in Int /\ Len(q) \in Int BY <1>1
    <3> QED BY <3>1, <3>2, SubSeqProperties
  <2>2. Len(q) - (i + 1) + 1 = Len(q) - i /\ \A k \in 1 .. Len(q) - i : (i + 1) + k - 1 = i + k
    BY <1>1
  <2>3. (IF i + 1 <= Len(q) THEN Len(q) - (i + 1) + 1 ELSE 0) = Len(q) - i BY <1>1
  <2> HIDE DEF b
  <2> QED BY <2>1, <2>2, <2>3
<1>5. r = a \o b BY DEF RemoveAt
<1> HIDE DEF a, b, r
<1>6. /\ r \in Seq(Els) /\ Len(r) = Len(q) - 1 /\ DOMAIN r = 1 .. Len(q) - 1
      /\ \A k \in 1 .. Len(q) - 1 : r[k] = q[IF k < i THEN k ELSE k + 1]
  <2>1. /\ a \o b \in Seq(Els) /\ Len(a \o b) = Len(a) + Len(b)
        /\ \A k \in 1 .. Len(a) + Len(b) :
             (a \o b)[k] = IF k <= Len(a) THEN a[k] ELSE b[k - Len(a)]
    BY <1>3, <1>4, ConcatProperties
  <2>2. Len(a) + Len(b) = Len(q) - 1 BY <1>1, <1>3, <1>4
  <2>3. r \in Seq(Els) /\ Len(r) = Len(q) - 1 BY <1>5, <2>1, <2>2
  <2>4. ASSUME NEW k \in 1 .. Len(q) - 1
        PROVE  r[k] = q[IF k < i THEN k ELSE k + 1]
    <3>1. CASE k < i
      <4>1. k \in 1 .. i - 1 /\ k <= Len(a) BY <1>1, <1>3, <3>1
      <4> QED BY <1>3, <1>5, <2>1, <2>2, <3>1, <4>1
    <3>2. CASE ~(k < i)
      <4>1. /\ ~(k <= Len(a)) /\ k - Len(a) \in 1 .. Len(q) - i /\ i + (k - Len(a)) = k + 1
        BY <1>1, <1>3, <3>2
      <4>2. b[k - Len(a)] = q[i + (k - Len(a))] BY <1>4, <4>1
      <4> QED BY <1>5, <2>1, <2>2, <3>2, <4>1, <4>2
    <3> QED BY <3>1, <3>2
  <2> QED BY <2>3, <2>4
<1> DEFINE f(k) == IF k < i THEN k ELSE k + 1
<1>7. \A k \in 1 .. Len(q) - 1 : f(k) \in 1 .. Len(q) /\ f(k) # i BY <1>1
<1>8. \A j, k \in 1 .. Len(q) - 1 : f(j) = f(k) => j = k BY <1>1
<1>9. \A j \in 1 .. Len(q) : j # i => \E k \in 1 .. Len(q) - 1 : f(k) = j
  <2> TAKE j \in 1 .. Len(q)
  <2>1. CASE j < i
    <3>1. j \in 1 .. Len(q) - 1 /\ f(j) = j BY <1>1, <2>1
    <3> QED BY <3>1
  <2>2. CASE j > i
    <3>1. j - 1 \in 1 .. Len(q) - 1 /\ f(j - 1) = j BY <1>1, <2>2
    <3> QED BY <3>1
  <2> QED BY <1>1, <2>1, <2>2
<1>10. \A k \in 1 .. Len(q) - 1 : r[k] = q[f(k)] BY <1>6
<1> HIDE DEF f
<1>11. InSeq(r) = InSeq(q) \ {q[i]}
  <2>1. ASSUME NEW e \in InSeq(r) PROVE e \in InSeq(q) \ {q[i]}
    <3>1. PICK k \in 1 .. Len(q) - 1 : e = r[k] BY <1>6 DEF InSeq
    <3>2. e = q[f(k)] /\ f(k) \in DOMAIN q /\ f(k) # i BY <1>1, <1>7, <1>10, <3>1
    <3>3. q[f(k)] # q[i] BY <3>2 DEF IsInjective
    <3> QED BY <3>2, <3>3 DEF InSeq
  <2>2. ASSUME NEW e \in InSeq(q), e # q[i] PROVE e \in InSeq(r)
    <3>1. PICK j \in 1 .. Len(q) : e = q[j] /\ j # i BY <1>1, <2>2 DEF InSeq
    <3>2. PICK k \in 1 .. Len(q) - 1 : f(k) = j BY <1>9, <3>1
    <3>3. r[k] = e BY <1>10, <3>1, <3>2
    <3> QED BY <1>6, <3>3 DEF InSeq
  <2> QED BY <2>1, <2>2
<1>12. IsInjective(r)
  <2>1. ASSUME NEW j \in 1 .. Len(q) - 1, NEW k \in 1 .. Len(q) - 1, r[j] = r[k]
        PROVE  j = k
    <3>1. q[f(j)] = q[f(k)] /\ f(j) \in DOMAIN q /\ f(k) \in DOMAIN q
      BY <1>1, <1>7, <1>10, <2>1
    <3>2. f(j) = f(k) BY <3>1 DEF IsInjective
    <3> QED BY <1>8, <3>2
  <2> QED BY <1>6, <2>1 DEF IsInjective
<1> QED BY <1>6, <1>11, <1>12 DEF r

\* The head of a queue goes.
LEMMA HeadTail ==
  ASSUME NEW Els, NEW q \in Seq(Els), q # <<>>, IsInjective(q)
  PROVE  /\ Head(q) \in Els /\ Tail(q) \in Seq(Els)
         /\ InSeq(q) = InSeq(Tail(q)) \cup {Head(q)}
         /\ Head(q) \notin InSeq(Tail(q)) /\ IsInjective(Tail(q))
<1>1. /\ 1 \in DOMAIN q /\ Head(q) = q[1] /\ Head(q) \in Els /\ Tail(q) \in Seq(Els)
      /\ \A i \in DOMAIN Tail(q) : i + 1 \in DOMAIN q /\ Tail(q)[i] = q[i + 1]
      /\ \A i \in DOMAIN q : i # 1 => i - 1 \in DOMAIN Tail(q) /\ Tail(q)[i - 1] = q[i]
  OBVIOUS
<1>2. DOMAIN q \subseteq Nat /\ DOMAIN Tail(q) \subseteq Nat \ {0} OBVIOUS
<1>3. InSeq(q) = InSeq(Tail(q)) \cup {Head(q)}
  <2>1. ASSUME NEW e \in InSeq(q), e # Head(q) PROVE e \in InSeq(Tail(q))
    <3>1. PICK i \in DOMAIN q : e = q[i] /\ i # 1 BY <1>1, <2>1 DEF InSeq
    <3>2. i - 1 \in DOMAIN Tail(q) /\ Tail(q)[i - 1] = e BY <1>1, <3>1
    <3> QED BY <3>2 DEF InSeq
  <2>2. InSeq(Tail(q)) \subseteq InSeq(q) /\ Head(q) \in InSeq(q) BY <1>1 DEF InSeq
  <2> QED BY <2>1, <2>2
<1>4. Head(q) \notin InSeq(Tail(q)) BY <1>1, <1>2 DEF InSeq, IsInjective
<1>5. IsInjective(Tail(q)) BY <1>1, <1>2 DEF IsInjective
<1> QED BY <1>1, <1>3, <1>4, <1>5

\* How often c stands in a sequence that grows at its end.
LEMMA TimesPushed ==
  ASSUME NEW Els, NEW q \in Seq(Els), NEW e \in Els
  PROVE  \A c : /\ Times(q, c) \in Nat
                /\ Times(Append(q, e), c) = Times(q, c) + (IF e = c THEN 1 ELSE 0)
<1> TAKE c
<1> DEFINE T == {i \in DOMAIN q : q[i] = c}
           U == {i \in DOMAIN Append(q, e) : Append(q, e)[i] = c}
           n == Len(q) + 1
<1>1. /\ DOMAIN Append(q, e) = 1 .. n /\ DOMAIN q = 1 .. Len(q) /\ Len(q) \in Nat
      /\ \A i \in DOMAIN q : Append(q, e)[i] = q[i]
      /\ Append(q, e)[n] = e
  BY Pushed
<1>2. n \notin DOMAIN q /\ DOMAIN Append(q, e) = DOMAIN q \cup {n} BY <1>1
<1>3. U = IF e = c THEN T \cup {n} ELSE T BY <1>1, <1>2
<1>4. n \notin T BY <1>2
<1>5. IsFiniteSet(DOMAIN q) BY <1>1, FS_Interval
<1>6. IsFiniteSet(T) BY <1>5, FS_Subset
<1> HIDE DEF T, U, n
<1>7. Cardinality(T) \in Nat /\ Cardinality(T \cup {n}) = Cardinality(T) + 1
  BY <1>4, <1>6, FS_CardinalityType, FS_AddElement
<1>8. Cardinality(U) = Cardinality(T) + (IF e = c THEN 1 ELSE 0) BY <1>3, <1>7
<1> QED BY <1>7, <1>8 DEF Times, T, U

\* How often it stands in one that loses its head.
LEMMA TimesTail ==
  ASSUME NEW Els, NEW q \in Seq(Els), q # <<>>
  PROVE  \A c : /\ Times(Tail(q), c) \in Nat
                /\ Times(q, c) = Times(Tail(q), c) + (IF Head(q) = c THEN 1 ELSE 0)
<1> TAKE c
<1> DEFINE T == {i \in DOMAIN Tail(q) : Tail(q)[i] = c}
           U == {i \in DOMAIN q : q[i] = c /\ i # 1}
           V == {i \in DOMAIN q : q[i] = c}
           f == [i \in T |-> i + 1]
<1>1. /\ 1 \in DOMAIN q /\ Head(q) = q[1] /\ Head(q) \in Els /\ Tail(q) \in Seq(Els)
      /\ \A i \in DOMAIN Tail(q) : i + 1 \in DOMAIN q /\ Tail(q)[i] = q[i + 1]
      /\ \A i \in DOMAIN q : i # 1 => i - 1 \in DOMAIN Tail(q) /\ Tail(q)[i - 1] = q[i]
      /\ DOMAIN q = 1 .. Len(q) /\ Len(q) \in Nat
      /\ DOMAIN Tail(q) = 1 .. Len(Tail(q)) /\ Len(Tail(q)) \in Nat
  OBVIOUS
<1>2. DOMAIN q \subseteq Nat /\ DOMAIN Tail(q) \subseteq Nat \ {0} BY <1>1
<1>3. IsFiniteSet(T)
  <2>1. IsFiniteSet(DOMAIN Tail(q)) BY <1>1, FS_Interval
  <2> QED BY <2>1, FS_Subset
<1>4. f \in Bijection(T, U)
  <2>1. \A i \in T : i + 1 \in U BY <1>1, <1>2
  <2>2. f \in [T -> U] BY <2>1
  <2>3. \A i, j \in T : f[i] = f[j] => i = j BY <1>2
  <2>4. \A i \in U : i - 1 \in T /\ f[i - 1] = i BY <1>1, <1>2
  <2>5. f \in Injection(T, U) BY <2>2, <2>3 DEF Injection, IsInjective
  <2>6. f \in Surjection(T, U) BY <2>2, <2>4 DEF Surjection
  <2> QED BY <2>5, <2>6 DEF Bijection
<1>5. V = (IF Head(q) = c THEN U \cup {1} ELSE U) /\ 1 \notin U BY <1>1
<1> HIDE DEF T, U, V, f
<1>6. IsFiniteSet(U) /\ Cardinality(U) = Cardinality(T)
  BY <1>3, <1>4, FS_Bijection DEF ExistsBijection
<1>7. Cardinality(U) \in Nat /\ Cardinality(U \cup {1}) = Cardinality(U) + 1
  BY <1>5, <1>6, FS_CardinalityType, FS_AddElement
<1>8. Cardinality(V) = Cardinality(T) + (IF Head(q) = c THEN 1 ELSE 0) BY <1>5, <1>6, <1>7
<1>9. Cardinality(T) \in Nat BY <1>6, <1>7
<1> QED BY <1>8, <1>9 DEF Times, T, V

-----------------------------------------------------------------------------
(* The stack *)

Shrinks == \A x \in S!Contexts : S!InAll(x)' => S!InAll(x)

\* A step resumes a coroutine, or one that is in no wake_all yields, or whoever runs
\* goes on.
Moves ==
  \/ \E c \in Members : S!Resume(c) /\ Shrinks
  \/ \E c \in Members : S!Top = c /\ S!Yield /\ ~S!InAll(c) /\ Shrinks
  \/ run' = run /\ \A x \in S!Contexts : S!InAll(x)' => S!InAll(x) \/ x = S!Top

\* A start takes an idle coroutine.
Starts(c, p) ==
  /\ st[c] = "idle" /\ S!Resume(c)
  /\ st' = [st EXCEPT ![c] = "run"] /\ parent' = [parent EXCEPT ![c] = p]

LEMMA Started ==
  ASSUME NEW p, S!Idle # {}, S!Start(p)
  PROVE  \E c \in Members : Starts(c, p)
<1> DEFINE c == CHOOSE c \in S!Idle : TRUE
<1>1. c \in S!Idle OBVIOUS
<1>2. S!Resume(c) /\ st' = [st EXCEPT ![c] = "run"] /\ parent' = [parent EXCEPT ![c] = p]
  BY DEF S!Start
<1> HIDE DEF c
<1>3. c \in Members /\ st[c] = "idle" BY <1>1 DEF S!Idle
<1> QED BY <1>2, <1>3 DEF Starts

LEMMA SomeIdle ==
  ASSUME S!SessAssumption, S!TypeOK, S!Spare(1)
  PROVE  S!Idle # {}
<1>1. IsFiniteSet(S!Idle) BY FS_Subset, SameNames DEF S!SessAssumption, S!Idle
<1>2. Len(fork_pending) \in Nat BY DEF S!TypeOK
<1>3. Cardinality(S!Idle) \in Nat BY <1>1, FS_CardinalityType
<1>4. Cardinality(S!Idle) # 0 BY <1>2, <1>3, SameNames DEF S!Spare
<1> QED BY <1>4, FS_EmptySet

\* With the dispatcher on top nobody else is in a wake_all.
LEMMA Bare ==
  ASSUME S!SessAssumption, S!TypeOK, Stack, S!Top = Main
  PROVE  \A x \in S!Contexts : S!InAll(x) => x = Main
<1>1. Len(run) \in Nat /\ DOMAIN run = 1 .. Len(run) /\ Len(run) # 0 BY DEF S!TypeOK
<1>2. Len(run) \in DOMAIN run /\ run[Len(run)] = Main BY <1>1, SameNames DEF S!Top, Last
<1>3. Main \notin Members BY DEF S!SessAssumption
<1>4. Len(run) = 1 BY <1>2, <1>3 DEF Stack
<1>5. \A i \in DOMAIN run : i = 1 BY <1>1, <1>4
<1>6. \A x \in InSeq(run) : x = Main BY <1>5 DEF InSeq, Stack
<1> QED BY <1>6 DEF Stack

\* Those whose time is up stand in the list of a session.
LEMMA Expires ==
  ASSUME S!SessAssumption, SessInv, NEW c \in Members, S!ExpireNext(c)
  PROVE  \E s \in Sess : \E i \in DOMAIN sess_waiters[s] :
           sess_waiters[s][i] = c /\ S!Shrink(s, RemoveAt(sess_waiters[s], i), FALSE)
<1>1. S!TypeOK /\ Stack /\ Loops /\ Standing /\ Timeouts BY DEF SessInv
<1>2. S!Top = Main /\ phase = "expire" /\ c \in due BY DEF S!ExpireNext
<1>3. c \in Waiting BY <1>1, <1>2 DEF Timeouts, Waiting
<1>4. \A x \in S!Contexts : ~S!InAll(x)
  <2>1. ~S!InAll(Main) BY <1>1, <1>2 DEF Loops
  <2> QED BY <1>1, <1>2, <2>1, Bare
<1>5. \A x \in S!Contexts : c \notin Left(x) BY <1>1, <1>4 DEF Loops, Left, InSeq
<1>6. \E s \in Sess : c \in On(s) BY <1>1, <1>3, <1>5 DEF Standing, Placed
<1>7. \A s \in Sess : c \in On(s) <=> Contains(sess_waiters[s], c)
  <2> TAKE s \in Sess
  <2>1. sess_waiters[s] \in Seq(Members) BY <1>1 DEF S!TypeOK
  <2>2. DOMAIN sess_waiters[s] = 1 .. Len(sess_waiters[s]) BY <2>1
  <2> QED BY <2>2 DEF On, InSeq, Contains
<1> DEFINE s == CHOOSE s \in Sess : Contains(sess_waiters[s], c)
           i == CHOOSE i \in DOMAIN sess_waiters[s] : sess_waiters[s][i] = c
<1>8. s \in Sess /\ c \in On(s) BY <1>6, <1>7
<1>9. S!Shrink(s, RemoveAt(sess_waiters[s], i), FALSE) BY SameNames DEF S!ExpireNext
<1>10. i \in DOMAIN sess_waiters[s] /\ sess_waiters[s][i] = c
  <2> HIDE DEF s
  <2>1. \E j \in DOMAIN sess_waiters[s] : sess_waiters[s][j] = c BY <1>8 DEF On, InSeq
  <2> QED BY <2>1
<1> HIDE DEF s, i
<1> QED BY <1>8, <1>9, <1>10

LEMMA MovesStep ==
  ASSUME S!SessAssumption, SessInv, S!Next
  PROVE  Moves
<1>1. S!TypeOK /\ Stack /\ Loops /\ Standing BY DEF SessInv
<1>2. ASSUME NEW c \in Members, S!Work(c) PROVE Moves
  <2>1. CASE S!Finish(c)
    BY <2>1 DEF S!Finish, S!Runs, Moves, Shrinks, S!InAll, S!SessAssumption
  <2>2. CASE S!ChildEnd(c)
    <3>1. parent[c] \in Members BY <1>1, <2>2 DEF S!TypeOK, S!ChildEnd
    <3> QED
      BY <2>2, <3>1, S!SessAssumption
         DEF S!ChildEnd, S!Runs, Moves, Shrinks, S!InAll, S!SessAssumption
  <2>3. CASE S!End(c)
    <3>1. ~S!InAll(c) BY <1>1, <2>3 DEF Loops, S!End
    <3> QED BY <2>3, <3>1 DEF S!End, Moves, Shrinks, S!InAll
  <2>4. CASE S!Fork(c) BY <2>4 DEF S!Fork, Moves, Shrinks, S!InAll
  <2>5. ASSUME NEW n \in 1 .. 2, S!ForkWait(c, n) PROVE Moves
    BY <2>5 DEF S!ForkWait, S!Runs, Moves, Shrinks, S!InAll, S!SessAssumption
  <2>6. ASSUME NEW s \in Sess, NEW t \in Tags, NEW k \in BOOLEAN, NEW m \in BOOLEAN,
               S!Wait(c, s, t, k, m)
        PROVE  Moves
    BY <2>6 DEF S!Wait, S!Runs, Moves, Shrinks, S!InAll, S!SessAssumption
  <2> QED BY <1>2, <2>1, <2>2, <2>3, <2>4, <2>5, <2>6 DEF S!Work
<1>3. ASSUME NEW x \in S!Contexts, S!Wakes(x) PROVE Moves
  <2>1. ASSUME NEW s \in Sess, NEW t \in Tags, S!Wake(x, s, t) PROVE Moves
    <3>1. Head(sess_waiters[s]) \in Members BY <1>1, <2>1 DEF S!TypeOK, S!Wake
    <3> QED BY <2>1, <3>1 DEF S!Wake, S!WakeUp, Moves, Shrinks, S!InAll
  <2>2. ASSUME NEW s \in Sess, NEW b \in BOOLEAN, S!WakeAll(x, s, b) PROVE Moves
    <3>1. run' = run /\ S!Top = x BY <2>2 DEF S!WakeAll, S!Runs
    <3>2. \A y \in S!Contexts : y # x => all'[y] = all[y] BY <1>1, <2>2 DEF S!WakeAll, S!TypeOK
    <3> QED BY <3>1, <3>2 DEF Moves, S!InAll
  <2>3. ASSUME NEW s \in Sess, S!Unkeep(x, s) PROVE Moves BY <2>3 DEF S!Unkeep, Moves, S!InAll
  <2>4. CASE S!WakeAllNext(x)
    <3>1. Head(all[x].list) \in Members BY <1>1, <2>4 DEF S!TypeOK, S!WakeAllNext
    <3>2. \A y \in S!Contexts : all'[y].on = all[y].on BY <1>1, <2>4 DEF S!WakeAllNext, S!TypeOK
    <3> QED BY <2>4, <3>1, <3>2 DEF S!WakeAllNext, S!WakeUp, Moves, Shrinks, S!InAll
  <2>5. CASE S!WakeAllSpawn(x)
    <3>1. \E c \in Members : Starts(c, Nil) BY <2>5, Started DEF S!WakeAllSpawn
    <3>2. \A y \in S!Contexts : all'[y].on = all[y].on BY <1>1, <2>5 DEF S!WakeAllSpawn, S!TypeOK
    <3> QED BY <3>1, <3>2 DEF Starts, Moves, Shrinks, S!InAll
  <2>6. CASE S!WakeAllEnd(x)
    <3>1. run' = run BY <2>6 DEF S!WakeAllEnd
    <3>2. \A y \in S!Contexts : S!InAll(y)' => S!InAll(y)
      BY <1>1, <2>6 DEF S!WakeAllEnd, S!TypeOK, S!InAll, S!NoAll
    <3> QED BY <3>1, <3>2 DEF Moves
  <2> QED BY <1>3, <2>1, <2>2, <2>3, <2>4, <2>5, <2>6 DEF S!Wakes
<1>4. CASE S!Dispatch
  <2>1. ASSUME NEW p, S!Idle # {}, S!Start(p), all' = all PROVE Moves
    BY <2>1, Started DEF Starts, Moves, Shrinks, S!InAll
  <2>2. CASE S!Spawn BY <1>1, <2>1, <2>2, SomeIdle DEF S!Spawn
  <2>3. CASE S!ExpireEnd \/ S!Dispatched BY <2>3 DEF S!ExpireEnd, S!Dispatched, Moves, S!InAll
  <2>4. CASE S!ForkDrain BY <2>1, <2>4 DEF S!ForkDrain
  <2>5. ASSUME NEW s \in Sess, NEW t \in Tags, S!WakeMiss(s, t) PROVE Moves
    BY <1>1, <2>1, <2>5, SomeIdle DEF S!WakeMiss
  <2>6. ASSUME NEW D, S!Expire(D) PROVE Moves BY <2>6 DEF S!Expire, Moves, S!InAll
  <2>7. ASSUME NEW c \in Members, S!ExpireNext(c) PROVE Moves
    BY <2>7 DEF S!ExpireNext, S!WakeUp, Moves, Shrinks, S!InAll
  <2> QED BY <1>4, <2>2, <2>3, <2>4, <2>5, <2>6, <2>7 DEF S!Dispatch
<1> QED BY <1>2, <1>3, <1>4 DEF S!Next

LEMMA StackStep ==
  ASSUME S!SessAssumption, S!TypeOK, Stack, Moves
  PROVE  Stack' /\ run' \in Seq(S!Contexts) /\ run' # <<>>
<1>1. run \in Seq(S!Contexts) /\ run # <<>> /\ Main \notin Members BY DEF S!TypeOK, S!SessAssumption
<1>2. ASSUME NEW c \in Members, S!Resume(c), Shrinks
      PROVE  Stack' /\ run' \in Seq(S!Contexts) /\ run' # <<>>
  <2>1. c \in S!Contexts BY DEF S!Contexts
  <2>2. /\ run' \in Seq(S!Contexts) /\ run' # <<>>
        /\ InSeq(run') = InSeq(run) \cup {c}
        /\ DOMAIN run' = 1 .. Len(run) + 1 /\ DOMAIN run = 1 .. Len(run) /\ Len(run) \in Nat
        /\ \A i \in DOMAIN run : run'[i] = run[i]
        /\ run'[Len(run) + 1] = c
    BY <1>1, <1>2, <2>1, Pushed DEF S!Resume
  <2>3. 1 \in DOMAIN run BY <1>1
  <2>4. run'[1] = Main BY <2>2, <2>3 DEF Stack
  <2>5. \A i \in DOMAIN run' : i # 1 => run'[i] \in Members BY <2>2 DEF Stack
  <2>6. \A x \in S!Contexts : S!InAll(x)' => x \in InSeq(run') BY <1>2, <2>2 DEF Stack, Shrinks
  <2> QED BY <2>2, <2>4, <2>5, <2>6 DEF Stack
<1>3. ASSUME NEW c \in Members, S!Top = c, S!Yield, ~S!InAll(c), Shrinks
      PROVE  Stack' /\ run' \in Seq(S!Contexts) /\ run' # <<>>
  <2>1. Last(run) = c /\ c # run[1] BY <1>1, <1>3, SameNames DEF S!Top, Stack
  <2>2. /\ run' \in Seq(S!Contexts) /\ run' # <<>>
        /\ \A i \in DOMAIN run' : i \in DOMAIN run /\ run'[i] = run[i]
        /\ 1 \in DOMAIN run'
        /\ InSeq(run) \subseteq InSeq(run') \cup {c}
    BY <1>1, <1>3, <2>1, Popped, SameNames DEF S!Yield
  <2>3. run'[1] = Main /\ \A i \in DOMAIN run' : i # 1 => run'[i] \in Members BY <2>2 DEF Stack
  <2>4. \A x \in S!Contexts : S!InAll(x)' => x \in InSeq(run') BY <1>3, <2>2 DEF Stack, Shrinks
  <2> QED BY <2>2, <2>3, <2>4 DEF Stack
<1>4. ASSUME run' = run, \A x \in S!Contexts : S!InAll(x)' => S!InAll(x) \/ x = S!Top
      PROVE  Stack' /\ run' \in Seq(S!Contexts) /\ run' # <<>>
  <2>1. Len(run) \in DOMAIN run BY <1>1
  <2>2. S!Top \in InSeq(run) BY <2>1, SameNames DEF S!Top, Last, InSeq
  <2> QED BY <1>1, <1>4, <2>2 DEF Stack
<1> QED BY <1>2, <1>3, <1>4 DEF Moves

-----------------------------------------------------------------------------
(* Types, and who is in a wake_all *)

\* What TypeOK says of the rest, the stack aside.
Rest ==
  /\ phase \in {"idle", "drain", "expire"}
  /\ st \in [Members -> {"idle", "run", "wait", "fork", "end"}]
  /\ keep \in [Sess -> BOOLEAN \cup {Nil}] /\ sess_waiters \in [Sess -> Seq(Members)]
  /\ tag \in [Members -> Tags \cup {Nil}] /\ timed \in [Members -> BOOLEAN]
  /\ due \subseteq Members /\ fork_pending \in Seq(Members \cup {Nil})
  /\ waited \in [Members -> Nat] /\ parent \in [Members -> Members \cup {Nil}]
  /\ all \in [S!Contexts -> [on : Sess \cup {Nil}, list : Seq(Members), spawn : BOOLEAN, at : Nat]]
  /\ since \in [Members -> Nat] /\ ops \in 0 .. MaxOps

\* One operation more.
LEMMA OneOp == ASSUME S!SessAssumption, S!TypeOK, S!Op PROVE ops' \in 0 .. MaxOps /\ ops \in Nat
BY DEF S!SessAssumption, S!TypeOK, S!Op

\* c wakes: what changes keeps its type.
LEMMA WakeTypes ==
  ASSUME S!TypeOK, NEW c \in Members, S!WakeUp(c)
  PROVE  /\ st' \in [Members -> {"idle", "run", "wait", "fork", "end"}]
         /\ tag' \in [Members -> Tags \cup {Nil}] /\ timed' \in [Members -> BOOLEAN]
         /\ due' \subseteq Members
BY DEF S!TypeOK, S!WakeUp

LEMMA StartTypes ==
  ASSUME S!TypeOK, NEW p \in Members \cup {Nil}, S!Idle # {}, S!Start(p)
  PROVE  /\ st' \in [Members -> {"idle", "run", "wait", "fork", "end"}]
         /\ parent' \in [Members -> Members \cup {Nil}]
<1>1. PICK c \in Members : Starts(c, p) BY Started
<1> QED BY <1>1 DEF S!TypeOK, Starts

LEMMA HandledType == ASSUME S!TypeOK, NEW x, S!Handled(x)
  PROVE phase' \in {"idle", "drain", "expire"}
BY DEF S!TypeOK, S!Handled

LEMMA ShrinkTypes ==
  ASSUME S!TypeOK, NEW s \in Sess, NEW list \in Seq(Members), NEW kept, S!Shrink(s, list, kept)
  PROVE  keep' \in [Sess -> BOOLEAN \cup {Nil}] /\ sess_waiters' \in [Sess -> Seq(Members)]
BY DEF S!TypeOK, S!Shrink

\* fork_wait for one child or for two.
LEMMA OneOrTwo ==
  ASSUME NEW Els, NEW q \in Seq(Els), NEW c \in Els, NEW n \in 1 .. 2
  PROVE  q \o [i \in 1 .. n |-> c] = IF n = 1 THEN Append(q, c) ELSE Append(Append(q, c), c)
<1>1. CASE n = 1
  <2>1. [i \in 1 .. 1 |-> c] = <<c>> OBVIOUS
  <2>2. q \o <<c>> = Append(q, c) OBVIOUS
  <2> QED BY <1>1, <2>1, <2>2
<1>2. CASE n = 2
  <2>1. [i \in 1 .. 2 |-> c] = <<c, c>> OBVIOUS
  <2>2. q \o <<c, c>> = Append(Append(q, c), c) OBVIOUS
  <2> QED BY <1>2, <2>1, <2>2
<1>3. n = 1 \/ n = 2 OBVIOUS
<1> QED BY <1>1, <1>2, <1>3

LEMMA RestStep ==
  ASSUME S!SessAssumption, SessInv, S!Next
  PROVE  Rest'
<1>1. S!TypeOK /\ Lists /\ Counts BY DEF SessInv, Standing
<1>2. ASSUME NEW c \in Members, S!Work(c) PROVE Rest'
  <2>1. CASE S!Finish(c) \/ S!End(c)
    BY <1>1, <2>1 DEF S!TypeOK, Rest, S!Finish, S!End, S!sessions, S!forks
  <2>2. CASE S!ChildEnd(c)
    <3>1. parent[c] \in Members BY <1>1, <2>2 DEF S!TypeOK, S!ChildEnd
    <3>2. waited[parent[c]] - 1 \in Nat
      <4>1. IsFiniteSet(Children(parent[c])) BY FS_Subset, SameNames DEF S!SessAssumption, Children
      <4>2. c \in Children(parent[c]) BY DEF Children
      <4>3. Cardinality(Children(parent[c])) \in Nat /\ Cardinality(Children(parent[c])) # 0
        BY <4>1, <4>2, FS_CardinalityType, FS_EmptySet
      <4>4. Times(fork_pending, parent[c]) \in Nat BY <1>1, TimesPushed DEF S!TypeOK
      <4>5. waited[parent[c]] = Times(fork_pending, parent[c]) + Cardinality(Children(parent[c]))
        BY <1>1, <3>1 DEF Counts
      <4> HIDE DEF Times, Children
      <4> QED BY <4>3, <4>4, <4>5
    <3>3. waited' \in [Members -> Nat] /\ parent' \in [Members -> Members \cup {Nil}]
      BY <1>1, <2>2, <3>1, <3>2 DEF S!TypeOK, S!ChildEnd
    <3>4. st' \in [Members -> {"idle", "run", "wait", "fork", "end"}]
      BY <1>1, <2>2, <3>1 DEF S!TypeOK, S!ChildEnd
    <3> QED BY <1>1, <2>2, <3>3, <3>4 DEF S!TypeOK, Rest, S!ChildEnd, S!sessions
  <2>3. CASE S!Fork(c)
    <3>1. fork_pending' \in Seq(Members \cup {Nil}) BY <1>1, <2>3 DEF S!TypeOK, S!Fork
    <3>2. ops' \in 0 .. MaxOps BY <1>1, <2>3, OneOp DEF S!Fork
    <3> QED BY <1>1, <2>3, <3>1, <3>2 DEF S!TypeOK, Rest, S!Fork, S!sessions
  <2>4. ASSUME NEW n \in 1 .. 2, S!ForkWait(c, n) PROVE Rest'
    <3>1. fork_pending' \in Seq(Members \cup {Nil})
      <4>1. fork_pending \in Seq(Members \cup {Nil}) /\ c \in Members \cup {Nil}
        BY <1>1 DEF S!TypeOK
      <4>2. fork_pending' = fork_pending \o [i \in 1 .. n |-> c] BY <2>4 DEF S!ForkWait
      <4> QED BY <4>1, <4>2, OneOrTwo
    <3>2. ops' \in 0 .. MaxOps BY <1>1, <2>4, OneOp DEF S!ForkWait
    <3>3. /\ waited' \in [Members -> Nat]
          /\ st' \in [Members -> {"idle", "run", "wait", "fork", "end"}]
      BY <1>1, <2>4 DEF S!TypeOK, S!ForkWait
    <3> QED BY <1>1, <2>4, <3>1, <3>2, <3>3 DEF S!TypeOK, Rest, S!ForkWait, S!sessions
  <2>5. ASSUME NEW s \in Sess, NEW t \in Tags, NEW k \in BOOLEAN, NEW m \in BOOLEAN,
               S!Wait(c, s, t, k, m)
        PROVE  Rest'
    <3>1. ops' \in 0 .. MaxOps /\ ops \in Nat BY <1>1, <2>5, OneOp DEF S!Wait
    <3>2. Append(sess_waiters[s], c) \in Seq(Members) BY <1>1 DEF S!TypeOK
    <3>3. sess_waiters' \in [Sess -> Seq(Members)] BY <1>1, <2>5, <3>2 DEF S!TypeOK, S!Wait
    <3>4. keep' \in [Sess -> BOOLEAN \cup {Nil}] BY <1>1, <2>5 DEF S!TypeOK, S!Wait
    <3>5. since' \in [Members -> Nat] /\ timed' \in [Members -> BOOLEAN]
      BY <1>1, <2>5, <3>1 DEF S!TypeOK, S!Wait
    <3>6. /\ st' \in [Members -> {"idle", "run", "wait", "fork", "end"}]
          /\ tag' \in [Members -> Tags \cup {Nil}]
      BY <1>1, <2>5 DEF S!TypeOK, S!Wait
    <3> QED BY <1>1, <2>5, <3>1, <3>3, <3>4, <3>5, <3>6 DEF S!TypeOK, Rest, S!Wait, S!forks
  <2> QED BY <1>2, <2>1, <2>2, <2>3, <2>4, <2>5 DEF S!Work
<1>3. ASSUME NEW x \in S!Contexts, S!Wakes(x) PROVE Rest'
  <2>1. ASSUME NEW s \in Sess, NEW t \in Tags, S!Wake(x, s, t) PROVE Rest'
    <3>1. Head(sess_waiters[s]) \in Members /\ Tail(sess_waiters[s]) \in Seq(Members)
      BY <1>1, <2>1 DEF S!TypeOK, S!Wake
    <3>2. keep' \in [Sess -> BOOLEAN \cup {Nil}] /\ sess_waiters' \in [Sess -> Seq(Members)]
      BY <1>1, <2>1, <3>1, ShrinkTypes DEF S!Wake
    <3>3. ops' \in 0 .. MaxOps BY <1>1, <2>1, OneOp DEF S!Wake
    <3>4. phase' \in {"idle", "drain", "expire"} BY <1>1, <2>1, HandledType DEF S!Wake
    <3>5. /\ st' \in [Members -> {"idle", "run", "wait", "fork", "end"}]
          /\ tag' \in [Members -> Tags \cup {Nil}] /\ timed' \in [Members -> BOOLEAN]
          /\ due' \subseteq Members
      BY <1>1, <2>1, <3>1, WakeTypes DEF S!Wake
    <3> QED BY <1>1, <2>1, <3>2, <3>3, <3>4, <3>5 DEF S!TypeOK, Rest, S!Wake, S!forks
  <2>2. ASSUME NEW s \in Sess, NEW b \in BOOLEAN, S!WakeAll(x, s, b) PROVE Rest'
    <3>1. ops' \in 0 .. MaxOps /\ ops \in Nat BY <1>1, <2>2, OneOp DEF S!WakeAll
    <3>2. phase' \in {"idle", "drain", "expire"} BY <1>1, <2>2, HandledType DEF S!WakeAll
    <3>3. all' \in [S!Contexts -> [on : Sess \cup {Nil}, list : Seq(Members), spawn : BOOLEAN,
                                 at : Nat]]
      BY <1>1, <2>2, <3>1 DEF S!TypeOK, S!WakeAll
    <3>4. keep' \in [Sess -> BOOLEAN \cup {Nil}] /\ sess_waiters' \in [Sess -> Seq(Members)]
      BY <1>1, <2>2 DEF S!TypeOK, S!WakeAll
    <3> QED BY <1>1, <2>2, <3>1, <3>2, <3>3, <3>4 DEF S!TypeOK, Rest, S!WakeAll, S!forks
  <2>3. ASSUME NEW s \in Sess, S!Unkeep(x, s) PROVE Rest'
    <3>1. ops' \in 0 .. MaxOps BY <1>1, <2>3, OneOp DEF S!Unkeep
    <3>2. phase' \in {"idle", "drain", "expire"} BY <1>1, <2>3, HandledType DEF S!Unkeep
    <3>3. keep' \in [Sess -> BOOLEAN \cup {Nil}] BY <1>1, <2>3 DEF S!TypeOK, S!Unkeep
    <3> QED BY <1>1, <2>3, <3>1, <3>2, <3>3 DEF S!TypeOK, Rest, S!Unkeep, S!forks
  <2>4. CASE S!WakeAllNext(x)
    <3>1. Head(all[x].list) \in Members /\ Tail(all[x].list) \in Seq(Members)
      BY <1>1, <2>4 DEF S!TypeOK, S!WakeAllNext
    <3>2. all' \in [S!Contexts -> [on : Sess \cup {Nil}, list : Seq(Members), spawn : BOOLEAN,
                                 at : Nat]]
      BY <1>1, <2>4, <3>1 DEF S!TypeOK, S!WakeAllNext
    <3>3. /\ st' \in [Members -> {"idle", "run", "wait", "fork", "end"}]
          /\ tag' \in [Members -> Tags \cup {Nil}] /\ timed' \in [Members -> BOOLEAN]
          /\ due' \subseteq Members
      BY <1>1, <2>4, <3>1, WakeTypes DEF S!WakeAllNext
    <3> QED BY <1>1, <2>4, <3>2, <3>3 DEF S!TypeOK, Rest, S!WakeAllNext, S!forks
  <2>5. CASE S!WakeAllSpawn(x)
    <3>1. /\ st' \in [Members -> {"idle", "run", "wait", "fork", "end"}]
          /\ parent' \in [Members -> Members \cup {Nil}]
      BY <1>1, <2>5, StartTypes DEF S!WakeAllSpawn
    <3>2. all' \in [S!Contexts -> [on : Sess \cup {Nil}, list : Seq(Members), spawn : BOOLEAN,
                                 at : Nat]]
      <4>1. all[x] \in [on : Sess \cup {Nil}, list : Seq(Members), spawn : BOOLEAN, at : Nat]
        BY <1>1 DEF S!TypeOK
      <4>2. [all[x] EXCEPT !.spawn = FALSE]
              \in [on : Sess \cup {Nil}, list : Seq(Members), spawn : BOOLEAN, at : Nat]
        BY <4>1
      <4>3. all' = [all EXCEPT ![x] = [all[x] EXCEPT !.spawn = FALSE]]
        BY <1>1, <2>5 DEF S!TypeOK, S!WakeAllSpawn
      <4> QED BY <1>1, <4>2, <4>3 DEF S!TypeOK
    <3> QED BY <1>1, <2>5, <3>1, <3>2 DEF S!TypeOK, Rest, S!WakeAllSpawn, S!sessions
  <2>6. CASE S!WakeAllEnd(x)
    <3>1. /\ keep' \in [Sess -> BOOLEAN \cup {Nil}]
          /\ all' \in [S!Contexts -> [on : Sess \cup {Nil}, list : Seq(Members), spawn : BOOLEAN,
                                    at : Nat]]
      BY <1>1, <2>6 DEF S!TypeOK, S!WakeAllEnd, S!NoAll
    <3> QED BY <1>1, <2>6, <3>1 DEF S!TypeOK, Rest, S!WakeAllEnd, S!forks
  <2> QED BY <1>3, <2>1, <2>2, <2>3, <2>4, <2>5, <2>6 DEF S!Wakes
<1>4. CASE S!Dispatch
  <2>1. ASSUME NEW p \in Members \cup {Nil}, S!Idle # {}, S!Start(p),
               UNCHANGED <<S!sessions, all, waited>>, ops' \in 0 .. MaxOps,
               phase' \in {"idle", "drain", "expire"}, fork_pending' \in Seq(Members \cup {Nil})
        PROVE  Rest'
    <3>1. /\ st' \in [Members -> {"idle", "run", "wait", "fork", "end"}]
          /\ parent' \in [Members -> Members \cup {Nil}]
      BY <1>1, <2>1, StartTypes
    <3> QED BY <1>1, <2>1, <3>1 DEF S!TypeOK, Rest, S!sessions
  <2>2. fork_pending \in Seq(Members \cup {Nil}) /\ ops \in 0 .. MaxOps BY <1>1 DEF S!TypeOK
  <2>3. CASE S!Spawn
    <3>1. S!Idle # {} /\ ops' \in 0 .. MaxOps /\ phase' \in {"idle", "drain", "expire"}
      BY <1>1, <2>3, SomeIdle, OneOp, HandledType DEF S!Spawn
    <3> QED BY <2>1, <2>2, <2>3, <3>1 DEF S!Spawn
  <2>4. CASE S!ExpireEnd \/ S!Dispatched
    BY <1>1, <2>4 DEF S!TypeOK, Rest, S!ExpireEnd, S!Dispatched, S!sessions, S!forks
  <2>5. CASE S!ForkDrain
    <3>1. Head(fork_pending) \in Members \cup {Nil} /\ fork_pending' \in Seq(Members \cup {Nil})
      BY <2>2, <2>5 DEF S!ForkDrain
    <3>2. phase' \in {"idle", "drain", "expire"} BY <1>1, <2>5 DEF S!TypeOK, S!ForkDrain
    <3> QED BY <2>1, <2>2, <2>5, <3>1, <3>2 DEF S!ForkDrain
  <2>6. ASSUME NEW s \in Sess, NEW t \in Tags, S!WakeMiss(s, t) PROVE Rest'
    <3>1. S!Idle # {} /\ ops' \in 0 .. MaxOps /\ phase' \in {"idle", "drain", "expire"}
      BY <1>1, <2>6, SomeIdle, OneOp, HandledType DEF S!WakeMiss
    <3> QED BY <2>1, <2>2, <2>6, <3>1 DEF S!WakeMiss
  <2>7. ASSUME NEW D \in SUBSET Members, S!Expire(D) PROVE Rest'
    <3>1. ops' \in 0 .. MaxOps BY <1>1, <2>7, OneOp DEF S!Expire
    <3> QED BY <1>1, <2>7, <3>1 DEF S!TypeOK, Rest, S!Expire, S!forks
  <2>8. ASSUME NEW c \in Members, S!ExpireNext(c) PROVE Rest'
    <3>0. PICK s \in Sess :
            \E i \in DOMAIN sess_waiters[s] : S!Shrink(s, RemoveAt(sess_waiters[s], i), FALSE)
      BY <2>8, Expires
    <3>1. PICK i \in DOMAIN sess_waiters[s] : S!Shrink(s, RemoveAt(sess_waiters[s], i), FALSE)
      BY <3>0
    <3>2. sess_waiters[s] \in Seq(Members) /\ IsInjective(sess_waiters[s])
      BY <1>1 DEF S!TypeOK, Lists
    <3>3. RemoveAt(sess_waiters[s], i) \in Seq(Members) BY <3>2, Removed
    <3>4. keep' \in [Sess -> BOOLEAN \cup {Nil}] /\ sess_waiters' \in [Sess -> Seq(Members)]
      BY <1>1, <3>1, <3>3, ShrinkTypes
    <3>5. /\ st' \in [Members -> {"idle", "run", "wait", "fork", "end"}]
          /\ tag' \in [Members -> Tags \cup {Nil}] /\ timed' \in [Members -> BOOLEAN]
          /\ due' \subseteq Members
      BY <1>1, <2>8, WakeTypes DEF S!ExpireNext
    <3> QED BY <1>1, <2>8, <3>4, <3>5 DEF S!TypeOK, Rest, S!ExpireNext, S!forks
  <2> QED BY <1>4, <2>3, <2>4, <2>5, <2>6, <2>7, <2>8 DEF S!Dispatch
<1> QED BY <1>2, <1>3, <1>4 DEF S!Next

\* Who is in a wake_all goes on running, the dispatcher with the drain.
LEMMA LoopsKept ==
  ASSUME Loops, \A x \in S!Contexts : all'[x].on = all[x].on /\ all'[x].list = all[x].list,
         S!InAll(Main) => phase' = "drain", \A c \in Members : S!InAll(c) => st'[c] = "run"
  PROVE  Loops'
BY DEF Loops, S!InAll, S!Contexts

LEMMA LoopsStart ==
  ASSUME S!TypeOK, Loops, NEW p, S!Idle # {}, S!Start(p),
         \A x \in S!Contexts : all'[x].on = all[x].on /\ all'[x].list = all[x].list,
         S!InAll(Main) => phase' = "drain"
  PROVE  Loops'
<1>1. PICK c \in Members : Starts(c, p) BY Started
<1>2. \A d \in Members : S!InAll(d) => st'[d] = "run" BY <1>1 DEF Loops, Starts, S!TypeOK
<1> QED BY <1>2, LoopsKept

LEMMA WakeRuns ==
  ASSUME S!TypeOK, Loops, NEW c \in Members, S!WakeUp(c)
  PROVE  \A d \in Members : S!InAll(d) => st'[d] = "run"
BY DEF S!TypeOK, Loops, S!WakeUp

LEMMA LoopsStep ==
  ASSUME S!SessAssumption, SessInv, S!Next
  PROVE  Loops'
<1>1. S!TypeOK /\ Loops BY DEF SessInv
<1>2. /\ Main \notin Members /\ Main \in S!Contexts /\ Members \subseteq S!Contexts
      /\ Nil \notin Sess
      /\ \A x \in S!Contexts : x = Main \/ x \in Members
  BY DEF S!SessAssumption, S!Contexts
<1>3. S!InAll(Main) => phase = "drain" BY <1>1 DEF Loops
<1>4. ASSUME NEW c \in Members, S!Work(c) PROVE Loops'
  <2>1. all' = all /\ phase' = phase
    BY <1>4 DEF S!Work, S!Finish, S!ChildEnd, S!End, S!Fork, S!ForkWait, S!Wait
  <2>2. ASSUME NEW d \in Members, S!InAll(d) PROVE st'[d] = "run"
    <3>1. st[d] = "run" BY <1>1, <2>2 DEF Loops
    <3>2. CASE S!Finish(c) \/ S!Fork(c)
      BY <1>1, <1>2, <2>2, <3>1, <3>2 DEF S!Finish, S!Fork, S!Runs, S!TypeOK
    <3>3. CASE S!ChildEnd(c)
      <4>1. c # d BY <1>2, <2>2, <3>3 DEF S!ChildEnd, S!Runs
      <4>2. st' \in [Members -> {"idle", "run", "wait", "fork", "end"}] /\ parent[c] \in Members
        BY <1>1, <3>3 DEF S!ChildEnd, S!TypeOK
      <4> QED BY <1>1, <3>1, <3>3, <4>1, <4>2 DEF S!ChildEnd, S!TypeOK
    <3>4. CASE S!End(c) BY <1>1, <3>1, <3>4 DEF S!End, S!TypeOK
    <3>5. ASSUME NEW n \in 1 .. 2, S!ForkWait(c, n) PROVE st'[d] = "run"
      BY <1>1, <1>2, <2>2, <3>1, <3>5 DEF S!ForkWait, S!Runs, S!TypeOK
    <3>6. ASSUME NEW s \in Sess, NEW t \in Tags, NEW k \in BOOLEAN, NEW m \in BOOLEAN,
                 S!Wait(c, s, t, k, m)
          PROVE  st'[d] = "run"
      BY <1>1, <1>2, <2>2, <3>1, <3>6 DEF S!Wait, S!Runs, S!TypeOK
    <3> QED BY <1>4, <3>2, <3>3, <3>4, <3>5, <3>6 DEF S!Work
  <2> QED BY <1>1, <1>3, <2>1, <2>2, LoopsKept
<1>5. ASSUME NEW x \in S!Contexts, S!Wakes(x) PROVE Loops'
  <2>1. ASSUME NEW s \in Sess, NEW t \in Tags, S!Wake(x, s, t) PROVE Loops'
    <3>1. Head(sess_waiters[s]) \in Members BY <1>1, <2>1 DEF S!TypeOK, S!Wake
    <3>2. \A d \in Members : S!InAll(d) => st'[d] = "run" BY <1>1, <2>1, <3>1, WakeRuns DEF S!Wake
    <3>3. S!InAll(Main) => phase' = "drain" BY <1>3, <2>1 DEF S!Wake, S!Handled
    <3>4. all' = all BY <2>1 DEF S!Wake
    <3> QED BY <1>1, <3>2, <3>3, <3>4, LoopsKept
  <2>2. ASSUME NEW s \in Sess, NEW b \in BOOLEAN, S!WakeAll(x, s, b) PROVE Loops'
    <3>1. S!Runs(x) /\ phase' = (IF x = Main THEN "drain" ELSE phase) /\ st' = st
      BY <2>2 DEF S!WakeAll, S!Handled
    <3>2. /\ all'[x].on = s /\ s # Nil
          /\ \A y \in S!Contexts : y # x => all'[y] = all[y]
      BY <1>1, <1>2, <2>2 DEF S!WakeAll, S!TypeOK
    <3>3. S!InAll(Main)' => phase' = "drain" BY <1>2, <1>3, <3>1, <3>2 DEF S!InAll
    <3>4. \A c \in Members : S!InAll(c)' => st'[c] = "run"
      BY <1>1, <1>2, <3>1, <3>2 DEF S!InAll, S!Runs, Loops
    <3>5. \A y \in S!Contexts : ~S!InAll(y)' => all'[y].list = <<>> BY <1>1, <3>2 DEF S!InAll, Loops
    <3> QED BY <3>3, <3>4, <3>5 DEF Loops
  <2>3. ASSUME NEW s \in Sess, S!Unkeep(x, s) PROVE Loops'
    <3>1. all' = all /\ st' = st /\ (S!InAll(Main) => phase' = "drain")
      BY <1>3, <2>3 DEF S!Unkeep, S!Handled
    <3>2. \A c \in Members : S!InAll(c) => st'[c] = "run" BY <1>1, <3>1 DEF Loops
    <3> QED BY <1>1, <3>1, <3>2, LoopsKept
  <2>4. CASE S!WakeAllNext(x)
    <3>1. Head(all[x].list) \in Members BY <1>1, <2>4 DEF S!TypeOK, S!WakeAllNext
    <3>2. \A d \in Members : S!InAll(d) => st'[d] = "run"
      BY <1>1, <2>4, <3>1, WakeRuns DEF S!WakeAllNext
    <3>3. /\ \A y \in S!Contexts : all'[y].on = all[y].on /\ (y # x => all'[y] = all[y])
          /\ S!InAll(x) /\ phase' = phase
      BY <1>1, <2>4 DEF S!WakeAllNext, S!TypeOK
    <3> QED BY <1>1, <1>2, <1>3, <3>2, <3>3 DEF Loops, S!InAll
  <2>5. CASE S!WakeAllSpawn(x)
    <3>1. \A y \in S!Contexts : all'[y].on = all[y].on /\ all'[y].list = all[y].list
      BY <1>1, <2>5 DEF S!WakeAllSpawn, S!TypeOK
    <3>2. S!Idle # {} /\ S!Start(Nil) /\ (S!InAll(Main) => phase' = "drain")
      BY <1>3, <2>5 DEF S!WakeAllSpawn
    <3> QED BY <1>1, <3>1, <3>2, LoopsStart
  <2>6. CASE S!WakeAllEnd(x)
    <3>1. /\ st' = st /\ phase' = phase
          /\ \A y \in S!Contexts : all'[y] = IF y = x THEN S!NoAll ELSE all[y]
      BY <1>1, <2>6 DEF S!WakeAllEnd, S!TypeOK
    <3> QED BY <1>1, <1>2, <1>3, <3>1 DEF Loops, S!InAll, S!NoAll
  <2> QED BY <1>5, <2>1, <2>2, <2>3, <2>4, <2>5, <2>6 DEF S!Wakes
<1>6. CASE S!Dispatch
  <2>1. CASE S!Spawn
    <3>1. S!Idle # {} /\ S!Start(Nil) /\ all' = all BY <1>1, <2>1, SomeIdle DEF S!Spawn
    <3>2. ~S!InAll(Main) BY <2>1 DEF S!Spawn, S!Runs
    <3> QED BY <1>1, <3>1, <3>2, LoopsStart
  <2>2. CASE S!ExpireEnd \/ S!Dispatched
    <3>1. all' = all /\ st' = st /\ (S!InAll(Main) => phase' = "drain")
      BY <2>2 DEF S!ExpireEnd, S!Dispatched
    <3>2. \A c \in Members : S!InAll(c) => st'[c] = "run" BY <1>1, <3>1 DEF Loops
    <3> QED BY <1>1, <3>1, <3>2, LoopsKept
  <2>3. CASE S!ForkDrain
    <3>1. /\ S!Idle # {} /\ S!Start(Head(fork_pending)) /\ all' = all /\ ~S!InAll(Main)
      BY <2>3 DEF S!ForkDrain
    <3> QED BY <1>1, <3>1, LoopsStart
  <2>4. ASSUME NEW s \in Sess, NEW t \in Tags, S!WakeMiss(s, t) PROVE Loops'
    <3>1. S!Idle # {} /\ S!Start(Nil) /\ all' = all BY <1>1, <2>4, SomeIdle DEF S!WakeMiss
    <3>2. ~S!InAll(Main) BY <2>4 DEF S!WakeMiss, S!Runs
    <3> QED BY <1>1, <3>1, <3>2, LoopsStart
  <2>5. ASSUME NEW D, S!Expire(D) PROVE Loops'
    <3>1. all' = all /\ st' = st /\ ~S!InAll(Main) BY <2>5 DEF S!Expire, S!Runs
    <3>2. \A c \in Members : S!InAll(c) => st'[c] = "run" BY <1>1, <3>1 DEF Loops
    <3> QED BY <1>1, <3>1, <3>2, LoopsKept
  <2>6. ASSUME NEW c \in Members, S!ExpireNext(c) PROVE Loops'
    <3>1. all' = all /\ phase' = phase /\ S!WakeUp(c) BY <2>6 DEF S!ExpireNext
    <3>2. \A d \in Members : S!InAll(d) => st'[d] = "run" BY <1>1, <3>1, WakeRuns
    <3> QED BY <1>1, <1>3, <3>1, <3>2, LoopsKept
  <2> QED BY <1>6, <2>1, <2>2, <2>3, <2>4, <2>5, <2>6 DEF S!Dispatch
<1> QED BY <1>4, <1>5, <1>6 DEF S!Next

-----------------------------------------------------------------------------
(* The lists of waiters *)

SameLists == \A x \in S!Contexts : all'[x].list = all[x].list

\* What a step does to the lists: nothing,
Undisturbed == sess_waiters' = sess_waiters /\ SameLists /\ Waiting' = Waiting

\* a coroutine comes to a session,
Comes(c, s) ==
  /\ c \notin Waiting /\ SameLists
  /\ sess_waiters' = [sess_waiters EXCEPT ![s] = Append(@, c)]
  /\ Waiting' = Waiting \cup {c}

\* leaves it,
Leaves(c, s) ==
  /\ c \in On(s) /\ SameLists
  /\ On(s)' = On(s) \ {c} /\ IsInjective(sess_waiters'[s])
  /\ \A r \in Sess : r # s => sess_waiters'[r] = sess_waiters[r]
  /\ Waiting' = Waiting \ {c}

\* leaves a wake_all,
Called(c, x) ==
  /\ c \in Left(x) /\ sess_waiters' = sess_waiters
  /\ Left(x)' = Left(x) \ {c} /\ IsInjective(all'[x].list)
  /\ \A y \in S!Contexts : y # x => all'[y].list = all[y].list
  /\ Waiting' = Waiting \ {c}

\* or all of a session go over to a wake_all.
Gathered(x, s) ==
  /\ all[x].list = <<>> /\ all'[x].list = sess_waiters[s] /\ sess_waiters'[s] = <<>>
  /\ \A y \in S!Contexts : y # x => all'[y].list = all[y].list
  /\ \A r \in Sess : r # s => sess_waiters'[r] = sess_waiters[r]
  /\ Waiting' = Waiting

ListKinds ==
  \/ Undisturbed
  \/ \E c \in Members, s \in Sess : Comes(c, s) \/ Leaves(c, s)
  \/ \E c \in Members, x \in S!Contexts : Called(c, x)
  \/ \E x \in S!Contexts, s \in Sess : Gathered(x, s)

LEMMA StartWaits ==
  ASSUME S!TypeOK, NEW p, S!Idle # {}, S!Start(p)
  PROVE  Waiting' = Waiting
<1>1. PICK c \in Members : Starts(c, p) BY Started
<1> QED BY <1>1 DEF S!TypeOK, Starts, Waiting

LEMMA WakeWaits ==
  ASSUME S!TypeOK, NEW c \in Waiting, S!WakeUp(c)
  PROVE  Waiting' = Waiting \ {c}
BY DEF S!TypeOK, S!WakeUp, Waiting

\* Nobody waits or stops waiting for a session whose list is not touched.
LEMMA Quiets ==
  ASSUME UNCHANGED <<sess_waiters, all>>, Waiting' = Waiting
  PROVE  ListKinds
BY DEF ListKinds, Undisturbed, SameLists

LEMMA ListStep ==
  ASSUME S!SessAssumption, SessInv, S!Next
  PROVE  ListKinds
<1>1. S!TypeOK /\ Loops /\ Lists BY DEF SessInv, Standing
<1>2. ASSUME NEW c \in Members, S!Work(c) PROVE ListKinds
  <2>1. c # Main BY DEF S!SessAssumption
  <2>2. CASE S!Finish(c)
    <3>1. Waiting' = Waiting BY <1>1, <2>1, <2>2 DEF S!Finish, S!Runs, Waiting, S!TypeOK
    <3> QED BY <2>2, <3>1, Quiets DEF S!Finish, S!sessions
  <2>3. CASE S!ChildEnd(c)
    <3>1. parent[c] \in Members /\ st[c] = "run"
      BY <1>1, <2>1, <2>3 DEF S!TypeOK, S!ChildEnd, S!Runs
    <3>2. waited[parent[c]] = 1 => st[parent[c]] = "fork"
      BY <3>1 DEF SessInv, Counts
    <3>3. Waiting' = Waiting BY <1>1, <2>3, <3>1, <3>2 DEF S!ChildEnd, Waiting, S!TypeOK
    <3> QED BY <2>3, <3>3, Quiets DEF S!ChildEnd, S!sessions
  <2>4. CASE S!End(c)
    <3>1. Waiting' = Waiting BY <1>1, <2>4 DEF S!End, Waiting, S!TypeOK
    <3> QED BY <2>4, <3>1, Quiets DEF S!End, S!sessions
  <2>5. CASE S!Fork(c)
    <3>1. Waiting' = Waiting BY <2>5 DEF S!Fork, Waiting
    <3> QED BY <2>5, <3>1, Quiets DEF S!Fork, S!sessions
  <2>6. ASSUME NEW n \in 1 .. 2, S!ForkWait(c, n) PROVE ListKinds
    <3>1. Waiting' = Waiting BY <1>1, <2>1, <2>6 DEF S!ForkWait, S!Runs, Waiting, S!TypeOK
    <3> QED BY <2>6, <3>1, Quiets DEF S!ForkWait, S!sessions
  <2>7. ASSUME NEW s \in Sess, NEW t \in Tags, NEW k \in BOOLEAN, NEW m \in BOOLEAN,
               S!Wait(c, s, t, k, m)
        PROVE  ListKinds
    <3>1. st[c] = "run" /\ c \notin Waiting BY <2>1, <2>7 DEF S!Wait, S!Runs, Waiting
    <3>2. Waiting' = Waiting \cup {c} BY <1>1, <2>7, <3>1 DEF S!Wait, Waiting, S!TypeOK
    <3>3. Comes(c, s) BY <2>7, <3>1, <3>2 DEF Comes, S!Wait, SameLists
    <3> QED BY <3>3 DEF ListKinds
  <2> QED BY <1>2, <2>2, <2>3, <2>4, <2>5, <2>6, <2>7 DEF S!Work
<1>3. ASSUME NEW x \in S!Contexts, S!Wakes(x) PROVE ListKinds
  <2>1. ASSUME NEW s \in Sess, NEW t \in Tags, S!Wake(x, s, t) PROVE ListKinds
    <3> DEFINE c == Head(sess_waiters[s])
    <3>1. sess_waiters[s] \in Seq(Members) /\ sess_waiters[s] # <<>> /\ IsInjective(sess_waiters[s])
      BY <1>1, <2>1 DEF S!TypeOK, Lists, S!Wake
    <3>2. /\ c \in Members /\ InSeq(Tail(sess_waiters[s])) = On(s) \ {c} /\ c \in On(s)
          /\ IsInjective(Tail(sess_waiters[s]))
      BY <3>1, HeadTail DEF On
    <3>3. /\ sess_waiters' = [sess_waiters EXCEPT ![s] = Tail(sess_waiters[s])]
          /\ S!WakeUp(c) /\ all' = all
      BY <2>1 DEF S!Wake, S!Shrink
    <3> HIDE DEF c
    <3>4. c \in Waiting BY <1>1, <3>2 DEF Lists
    <3>5. Waiting' = Waiting \ {c} BY <1>1, <3>3, <3>4, WakeWaits
    <3>6. /\ sess_waiters'[s] = Tail(sess_waiters[s])
          /\ \A r \in Sess : r # s => sess_waiters'[r] = sess_waiters[r]
      BY <1>1, <3>3 DEF S!TypeOK
    <3>7. Leaves(c, s) BY <3>2, <3>3, <3>5, <3>6 DEF Leaves, SameLists, On
    <3> QED BY <3>2, <3>7 DEF ListKinds
  <2>2. ASSUME NEW s \in Sess, NEW b \in BOOLEAN, S!WakeAll(x, s, b) PROVE ListKinds
    <3>1. all[x].list = <<>> BY <1>1, <2>2 DEF S!WakeAll, S!Runs, Loops
    <3>2. /\ all'[x].list = sess_waiters[s] /\ sess_waiters'[s] = <<>>
          /\ \A y \in S!Contexts : y # x => all'[y].list = all[y].list
          /\ \A r \in Sess : r # s => sess_waiters'[r] = sess_waiters[r]
      BY <1>1, <2>2 DEF S!WakeAll, S!TypeOK
    <3>3. Waiting' = Waiting BY <2>2 DEF S!WakeAll, Waiting
    <3>4. Gathered(x, s) BY <3>1, <3>2, <3>3 DEF Gathered
    <3> QED BY <3>4 DEF ListKinds
  <2>3. ASSUME NEW s \in Sess, S!Unkeep(x, s) PROVE ListKinds
    <3>1. Waiting' = Waiting BY <2>3 DEF S!Unkeep, Waiting
    <3> QED BY <2>3, <3>1, Quiets DEF S!Unkeep
  <2>4. CASE S!WakeAllNext(x)
    <3> DEFINE c == Head(all[x].list)
    <3>1. all[x].list \in Seq(Members) /\ all[x].list # <<>> /\ IsInjective(all[x].list)
      BY <1>1, <2>4 DEF S!TypeOK, Lists, S!WakeAllNext
    <3>2. /\ c \in Members /\ InSeq(Tail(all[x].list)) = Left(x) \ {c} /\ c \in Left(x)
          /\ IsInjective(Tail(all[x].list))
      BY <3>1, HeadTail DEF Left
    <3>3. /\ all'[x].list = Tail(all[x].list) /\ S!WakeUp(c) /\ sess_waiters' = sess_waiters
          /\ \A y \in S!Contexts : y # x => all'[y].list = all[y].list
      BY <1>1, <2>4 DEF S!WakeAllNext, S!TypeOK
    <3> HIDE DEF c
    <3>4. c \in Waiting BY <1>1, <3>2 DEF Lists
    <3>5. Waiting' = Waiting \ {c} BY <1>1, <3>3, <3>4, WakeWaits
    <3>6. Called(c, x) BY <3>2, <3>3, <3>5 DEF Called, Left
    <3> QED BY <3>2, <3>6 DEF ListKinds
  <2>5. CASE S!WakeAllSpawn(x)
    <3>1. Waiting' = Waiting BY <1>1, <2>5, StartWaits DEF S!WakeAllSpawn
    <3>2. SameLists BY <1>1, <2>5 DEF SameLists, S!WakeAllSpawn, S!TypeOK
    <3> QED BY <2>5, <3>1, <3>2 DEF S!WakeAllSpawn, S!sessions, ListKinds, Undisturbed
  <2>6. CASE S!WakeAllEnd(x)
    <3>1. Waiting' = Waiting BY <2>6 DEF S!WakeAllEnd, Waiting
    <3>2. SameLists BY <1>1, <2>6 DEF SameLists, S!WakeAllEnd, S!TypeOK, S!NoAll
    <3> QED BY <2>6, <3>1, <3>2 DEF S!WakeAllEnd, ListKinds, Undisturbed
  <2> QED BY <1>3, <2>1, <2>2, <2>3, <2>4, <2>5, <2>6 DEF S!Wakes
<1>4. CASE S!Dispatch
  <2>1. CASE S!Spawn
    <3>1. Waiting' = Waiting BY <1>1, <2>1, StartWaits, SomeIdle DEF S!Spawn
    <3> QED BY <2>1, <3>1, Quiets DEF S!Spawn, S!sessions
  <2>2. CASE S!ExpireEnd \/ S!Dispatched
    <3>1. Waiting' = Waiting BY <2>2 DEF S!ExpireEnd, S!Dispatched, Waiting
    <3> QED BY <2>2, <3>1, Quiets DEF S!ExpireEnd, S!Dispatched, S!sessions
  <2>3. CASE S!ForkDrain
    <3>1. Waiting' = Waiting BY <1>1, <2>3, StartWaits DEF S!ForkDrain
    <3> QED BY <2>3, <3>1, Quiets DEF S!ForkDrain, S!sessions
  <2>4. ASSUME NEW s \in Sess, NEW t \in Tags, S!WakeMiss(s, t) PROVE ListKinds
    <3>1. Waiting' = Waiting BY <1>1, <2>4, StartWaits, SomeIdle DEF S!WakeMiss
    <3> QED BY <2>4, <3>1, Quiets DEF S!WakeMiss, S!sessions
  <2>5. ASSUME NEW D, S!Expire(D) PROVE ListKinds
    <3>1. Waiting' = Waiting BY <2>5 DEF S!Expire, Waiting
    <3> QED BY <2>5, <3>1, Quiets DEF S!Expire
  <2>6. ASSUME NEW c \in Members, S!ExpireNext(c) PROVE ListKinds
    <3>1. PICK s \in Sess : \E i \in DOMAIN sess_waiters[s] :
            sess_waiters[s][i] = c /\ S!Shrink(s, RemoveAt(sess_waiters[s], i), FALSE)
      BY <2>6, Expires
    <3>2. PICK i \in DOMAIN sess_waiters[s] :
            sess_waiters[s][i] = c /\ S!Shrink(s, RemoveAt(sess_waiters[s], i), FALSE)
      BY <3>1
    <3> DEFINE r == RemoveAt(sess_waiters[s], i)
    <3>3. sess_waiters[s] \in Seq(Members) /\ IsInjective(sess_waiters[s])
      BY <1>1 DEF S!TypeOK, Lists
    <3>4. InSeq(r) = On(s) \ {c} /\ IsInjective(r) BY <3>2, <3>3, Removed DEF On
    <3>5. sess_waiters' = [sess_waiters EXCEPT ![s] = r] /\ S!WakeUp(c) /\ all' = all
      BY <2>6, <3>2 DEF S!Shrink, S!ExpireNext
    <3>6. c \in On(s) /\ c \in Waiting BY <1>1, <3>2 DEF On, InSeq, Lists
    <3> HIDE DEF r
    <3>7. Waiting' = Waiting \ {c} BY <1>1, <3>5, <3>6, WakeWaits
    <3>8. sess_waiters'[s] = r /\ \A q \in Sess : q # s => sess_waiters'[q] = sess_waiters[q]
      BY <1>1, <3>5 DEF S!TypeOK
    <3>9. Leaves(c, s) BY <3>4, <3>5, <3>6, <3>7, <3>8 DEF Leaves, SameLists, On
    <3> QED BY <3>9 DEF ListKinds
  <2> QED BY <1>4, <2>1, <2>2, <2>3, <2>4, <2>5, <2>6 DEF S!Dispatch
<1> QED BY <1>2, <1>3, <1>4 DEF S!Next

\* Each kind keeps the lists apart and every waiter in one.
LEMMA StandingStep ==
  ASSUME S!TypeOK, Standing, ListKinds
  PROVE  Standing'
<1>1. Lists /\ Apart /\ Placed BY DEF Standing
<1>2. CASE Undisturbed
  <2>1. /\ \A s \in Sess : On(s)' = On(s) /\ sess_waiters'[s] = sess_waiters[s]
        /\ \A x \in S!Contexts : Left(x)' = Left(x) /\ all'[x].list = all[x].list
    BY <1>2 DEF Undisturbed, SameLists, On, Left
  <2>2. Waiting' = Waiting BY <1>2 DEF Undisturbed
  <2> QED BY <1>1, <2>1, <2>2 DEF Standing, Lists, Apart, Placed
<1>3. ASSUME NEW c \in Members, NEW s \in Sess, Comes(c, s) PROVE Standing'
  <2>1. /\ \A r \in Sess : r # s => On(r)' = On(r) /\ sess_waiters'[r] = sess_waiters[r]
        /\ \A x \in S!Contexts : Left(x)' = Left(x) /\ all'[x].list = all[x].list
    BY <1>3 DEF Comes, SameLists, On, Left, S!TypeOK
  <2>2. sess_waiters[s] \in Seq(Members) /\ sess_waiters'[s] = Append(sess_waiters[s], c)
    BY <1>3 DEF Comes, S!TypeOK
  <2>3. On(s)' = On(s) \cup {c} BY <2>2, Pushed DEF On
  <2>4. /\ c \notin Waiting /\ Waiting' = Waiting \cup {c}
        /\ \A r \in Sess : On(r) \subseteq Waiting
        /\ \A x \in S!Contexts : Left(x) \subseteq Waiting
    BY <1>1, <1>3 DEF Comes, Lists
  <2>5. IsInjective(sess_waiters'[s])
    <3>1. IsInjective(sess_waiters[s]) /\ c \notin InSeq(sess_waiters[s])
      BY <1>1, <2>4 DEF Lists, On
    <3>2. /\ DOMAIN sess_waiters'[s] = 1 .. Len(sess_waiters[s]) + 1
          /\ DOMAIN sess_waiters[s] = 1 .. Len(sess_waiters[s]) /\ Len(sess_waiters[s]) \in Nat
          /\ \A i \in DOMAIN sess_waiters[s] : sess_waiters'[s][i] = sess_waiters[s][i]
          /\ sess_waiters'[s][Len(sess_waiters[s]) + 1] = c
      BY <2>2, Pushed
    <3> QED BY <3>1, <3>2 DEF IsInjective, InSeq
  <2>6. Lists' BY <1>1, <2>1, <2>3, <2>4, <2>5 DEF Lists
  <2>7. Apart' BY <1>1, <2>1, <2>3, <2>4 DEF Apart
  <2>8. Placed' BY <1>1, <2>1, <2>3, <2>4 DEF Placed
  <2> QED BY <2>6, <2>7, <2>8 DEF Standing
<1>4. ASSUME NEW c \in Members, NEW s \in Sess, Leaves(c, s) PROVE Standing'
  <2>1. /\ \A r \in Sess : r # s => On(r)' = On(r) /\ sess_waiters'[r] = sess_waiters[r]
        /\ \A x \in S!Contexts : Left(x)' = Left(x) /\ all'[x].list = all[x].list
    BY <1>4 DEF Leaves, SameLists, On, Left
  <2>2. /\ On(s)' = On(s) \ {c} /\ c \in On(s) /\ Waiting' = Waiting \ {c}
        /\ IsInjective(sess_waiters'[s])
    BY <1>4 DEF Leaves
  <2>3. /\ \A r \in Sess : r # s => c \notin On(r)
        /\ \A x \in S!Contexts : c \notin Left(x)
    BY <1>1, <2>2 DEF Apart
  <2>4. Lists' BY <1>1, <2>1, <2>2, <2>3 DEF Lists
  <2>5. Apart' BY <1>1, <2>1, <2>2 DEF Apart
  <2>6. Placed' BY <1>1, <2>1, <2>2 DEF Placed
  <2> QED BY <2>4, <2>5, <2>6 DEF Standing
<1>5. ASSUME NEW c \in Members, NEW x \in S!Contexts, Called(c, x) PROVE Standing'
  <2>1. /\ \A r \in Sess : On(r)' = On(r) /\ sess_waiters'[r] = sess_waiters[r]
        /\ \A y \in S!Contexts : y # x => Left(y)' = Left(y) /\ all'[y].list = all[y].list
    BY <1>5 DEF Called, On, Left
  <2>2. /\ Left(x)' = Left(x) \ {c} /\ c \in Left(x) /\ Waiting' = Waiting \ {c}
        /\ IsInjective(all'[x].list)
    BY <1>5 DEF Called
  <2>3. /\ \A r \in Sess : c \notin On(r)
        /\ \A y \in S!Contexts : y # x => c \notin Left(y)
    BY <1>1, <2>2 DEF Apart
  <2>4. Lists' BY <1>1, <2>1, <2>2, <2>3 DEF Lists
  <2>5. Apart' BY <1>1, <2>1, <2>2 DEF Apart
  <2>6. Placed' BY <1>1, <2>1, <2>2 DEF Placed
  <2> QED BY <2>4, <2>5, <2>6 DEF Standing
<1>6. ASSUME NEW x \in S!Contexts, NEW s \in Sess, Gathered(x, s) PROVE Standing'
  <2>1. /\ \A r \in Sess : r # s => On(r)' = On(r) /\ sess_waiters'[r] = sess_waiters[r]
        /\ \A y \in S!Contexts : y # x => Left(y)' = Left(y) /\ all'[y].list = all[y].list
    BY <1>6 DEF Gathered, On, Left
  <2>2. /\ Left(x) = {} /\ Left(x)' = On(s) /\ On(s)' = {} /\ Waiting' = Waiting
        /\ all'[x].list = sess_waiters[s] /\ sess_waiters'[s] = <<>>
    BY <1>6 DEF Gathered, On, Left, InSeq
  <2>3. IsInjective(<<>>) BY DEF IsInjective
  <2>4. Lists' BY <1>1, <2>1, <2>2, <2>3 DEF Lists
  <2>5. Apart' BY <1>1, <2>1, <2>2 DEF Apart
  <2>6. Placed' BY <1>1, <2>1, <2>2 DEF Placed
  <2> QED BY <2>4, <2>5, <2>6 DEF Standing
<1> QED BY <1>2, <1>3, <1>4, <1>5, <1>6 DEF ListKinds

-----------------------------------------------------------------------------
(* The entries of the sessions *)

\* Of one session.
Entry(s) ==
  /\ sess_waiters[s] # <<>> => keep[s] # Nil
  /\ keep[s] # Nil /\ sess_waiters[s] = <<>> =>
       keep[s] = TRUE \/ \E x \in S!Contexts : all[x].on = s

LEMMA EntriesKept ==
  ASSUME Entries, UNCHANGED <<keep, sess_waiters>>, \A x \in S!Contexts : all'[x].on = all[x].on
  PROVE  Entries'
BY DEF Entries

\* The list of s changes, and its entry with it; whoever is in a wake_all stays there.
LEMMA EntriesShrink ==
  ASSUME S!SessAssumption, S!TypeOK, Entries, NEW s \in Sess, NEW list, NEW kept,
         S!Shrink(s, list, kept),
         sess_waiters[s] # <<>>, kept = FALSE \/ kept = keep[s], all' = all
  PROVE  Entries'
<1>1. keep[s] \in BOOLEAN BY DEF Entries, S!TypeOK
<1>2. kept \in BOOLEAN BY <1>1
<1>3. /\ sess_waiters'[s] = list
      /\ list # <<>> => keep'[s] = keep[s]
      /\ list = <<>> => keep'[s] = (IF kept THEN keep[s] ELSE Nil)
      /\ \A r \in Sess : r # s => sess_waiters'[r] = sess_waiters[r] /\ keep'[r] = keep[r]
  BY DEF S!Shrink, S!TypeOK
<1>4. Nil \notin BOOLEAN BY DEF S!SessAssumption
<1>5. \A r \in Sess : Entry(r) BY DEF Entries, Entry
<1>6. Entry(s)'
  <2>1. CASE list # <<>> BY <1>1, <1>3, <1>4, <2>1 DEF Entry
  <2>2. CASE list = <<>> /\ kept = TRUE BY <1>1, <1>3, <1>4, <2>2 DEF Entry
  <2>3. CASE list = <<>> /\ kept = FALSE BY <1>3, <2>3 DEF Entry
  <2> QED BY <1>2, <2>1, <2>2, <2>3
<1>7. \A r \in Sess : r # s => Entry(r)' BY <1>3, <1>5 DEF Entry
<1> QED BY <1>6, <1>7 DEF Entries, Entry

LEMMA EntriesStep ==
  ASSUME S!SessAssumption, SessInv, S!Next
  PROVE  Entries'
<1>1. S!TypeOK /\ Loops /\ Lists /\ Entries BY DEF SessInv, Standing
<1>2. Nil \notin BOOLEAN /\ Nil \notin Sess BY DEF S!SessAssumption
<1>3. \A r \in Sess : Entry(r) BY <1>1 DEF Entries, Entry
<1>4. ASSUME \A r \in Sess : Entry(r)' PROVE Entries' BY <1>4 DEF Entries, Entry
<1>5. ASSUME NEW c \in Members, S!Work(c) PROVE Entries'
  <2>1. CASE S!Finish(c) \/ S!ChildEnd(c) \/ S!End(c) \/ S!Fork(c)
    BY <1>1, <2>1, EntriesKept DEF S!Finish, S!ChildEnd, S!End, S!Fork, S!sessions
  <2>2. ASSUME NEW n \in 1 .. 2, S!ForkWait(c, n) PROVE Entries'
    BY <1>1, <2>2, EntriesKept DEF S!ForkWait, S!sessions
  <2>3. ASSUME NEW s \in Sess, NEW t \in Tags, NEW k \in BOOLEAN, NEW m \in BOOLEAN,
               S!Wait(c, s, t, k, m)
        PROVE  Entries'
    <3>1. /\ sess_waiters'[s] = Append(sess_waiters[s], c)
          /\ keep'[s] = (IF keep[s] = Nil THEN k ELSE keep[s])
          /\ \A r \in Sess : r # s => sess_waiters'[r] = sess_waiters[r] /\ keep'[r] = keep[r]
          /\ all' = all
      BY <1>1, <2>3 DEF S!Wait, S!TypeOK
    <3>2. sess_waiters'[s] # <<>> /\ keep'[s] # Nil
      <4>1. sess_waiters[s] \in Seq(Members) BY <1>1 DEF S!TypeOK
      <4>2. Append(sess_waiters[s], c) # <<>> BY <4>1
      <4> QED BY <1>2, <3>1, <4>2
    <3>3. \A r \in Sess : Entry(r)' BY <1>3, <3>1, <3>2 DEF Entry
    <3> QED BY <1>4, <3>3
  <2> QED BY <1>5, <2>1, <2>2, <2>3 DEF S!Work
<1>6. ASSUME NEW x \in S!Contexts, S!Wakes(x) PROVE Entries'
  <2>1. ASSUME NEW s \in Sess, NEW t \in Tags, S!Wake(x, s, t) PROVE Entries'
    BY <1>1, <2>1, EntriesShrink DEF S!Wake
  <2>2. ASSUME NEW s \in Sess, NEW b \in BOOLEAN, S!WakeAll(x, s, b) PROVE Entries'
    <3>1. /\ sess_waiters'[s] = <<>> /\ all'[x].on = s /\ all[x].on = Nil
          /\ \A r \in Sess : r # s => sess_waiters'[r] = sess_waiters[r] /\ keep'[r] = keep[r]
          /\ \A y \in S!Contexts : y # x => all'[y] = all[y]
      BY <1>1, <2>2 DEF S!WakeAll, S!Runs, S!InAll, S!TypeOK
    <3>2. Entry(s)' BY <3>1 DEF Entry
    <3>3. \A r \in Sess : r # s => Entry(r)' BY <1>2, <1>3, <3>1 DEF Entry
    <3> QED BY <1>4, <3>2, <3>3
  <2>3. ASSUME NEW s \in Sess, S!Unkeep(x, s) PROVE Entries'
    <3>1. /\ sess_waiters' = sess_waiters /\ all' = all
          /\ keep'[s] = (IF sess_waiters[s] = <<>> THEN Nil ELSE FALSE)
          /\ \A r \in Sess : r # s => keep'[r] = keep[r]
      BY <1>1, <2>3 DEF S!Unkeep, S!TypeOK
    <3>2. \A r \in Sess : Entry(r)' BY <1>2, <1>3, <3>1 DEF Entry
    <3> QED BY <1>4, <3>2
  <2>4. CASE S!WakeAllNext(x)
    <3>1. \A y \in S!Contexts : all'[y].on = all[y].on BY <1>1, <2>4 DEF S!WakeAllNext, S!TypeOK
    <3> QED BY <1>1, <2>4, <3>1, EntriesKept DEF S!WakeAllNext
  <2>5. CASE S!WakeAllSpawn(x)
    <3>1. \A y \in S!Contexts : all'[y].on = all[y].on BY <1>1, <2>5 DEF S!WakeAllSpawn, S!TypeOK
    <3> QED BY <1>1, <2>5, <3>1, EntriesKept DEF S!WakeAllSpawn, S!sessions
  <2>6. CASE S!WakeAllEnd(x)
    <3>1. PICK s \in Sess : s = all[x].on BY <1>1, <2>6 DEF S!WakeAllEnd, S!InAll, S!TypeOK
    <3>2. /\ sess_waiters' = sess_waiters
          /\ keep'[s] = (IF sess_waiters[s] = <<>> THEN Nil ELSE keep[s])
          /\ \A r \in Sess : r # s => keep'[r] = keep[r]
          /\ \A y \in S!Contexts : y # x => all'[y] = all[y]
      BY <1>1, <2>6, <3>1 DEF S!WakeAllEnd, S!TypeOK
    <3>4. Entry(s)'
      <4>1. CASE sess_waiters[s] = <<>> BY <3>2, <4>1 DEF Entry
      <4>2. CASE sess_waiters[s] # <<>>
        <5>1. keep[s] # Nil BY <1>3, <3>1, <4>2 DEF Entry
        <5> QED BY <3>2, <4>2, <5>1 DEF Entry
      <4> QED BY <4>1, <4>2
    <3>5. ASSUME NEW r \in Sess, r # s PROVE Entry(r)'
      <4>1. sess_waiters'[r] = sess_waiters[r] /\ keep'[r] = keep[r] BY <3>2, <3>5
      <4>2. \A y \in S!Contexts : all[y].on = r => all'[y].on = r BY <3>1, <3>2, <3>5
      <4>3. Entry(r) BY <1>3
      <4> QED BY <4>1, <4>2, <4>3 DEF Entry
    <3> QED BY <1>4, <3>4, <3>5
  <2> QED BY <1>6, <2>1, <2>2, <2>3, <2>4, <2>5, <2>6 DEF S!Wakes
<1>7. CASE S!Dispatch
  <2>1. CASE S!Spawn \/ S!ExpireEnd \/ S!ForkDrain \/ S!Dispatched
    BY <1>1, <2>1, EntriesKept DEF S!Spawn, S!ExpireEnd, S!ForkDrain, S!Dispatched, S!sessions
  <2>2. ASSUME NEW s \in Sess, NEW t \in Tags, S!WakeMiss(s, t) PROVE Entries'
    BY <1>1, <2>2, EntriesKept DEF S!WakeMiss, S!sessions
  <2>3. ASSUME NEW D, S!Expire(D) PROVE Entries' BY <1>1, <2>3, EntriesKept DEF S!Expire
  <2>4. ASSUME NEW c \in Members, S!ExpireNext(c) PROVE Entries'
    <3>1. PICK s \in Sess :
            \E i \in DOMAIN sess_waiters[s] : S!Shrink(s, RemoveAt(sess_waiters[s], i), FALSE)
      BY <2>4, Expires
    <3>2. PICK i \in DOMAIN sess_waiters[s] : S!Shrink(s, RemoveAt(sess_waiters[s], i), FALSE)
      BY <3>1
    <3>3. sess_waiters[s] # <<>> BY <3>2
    <3>4. all' = all BY <2>4 DEF S!ExpireNext
    <3> QED BY <1>1, <3>2, <3>3, <3>4, EntriesShrink
  <2> QED BY <1>7, <2>1, <2>2, <2>3, <2>4 DEF S!Dispatch
<1> QED BY <1>5, <1>6, <1>7 DEF S!Next

-----------------------------------------------------------------------------
(* Timeouts, and since when a coroutine waits *)

\* Whoever is left in a wake_all was there before, and it is the same wake_all.
SameCalls ==
  \A x \in S!Contexts, c \in Members : c \in Left(x)' => c \in Left(x) /\ all'[x].at = all[x].at

\* Nobody begins to wait or stops; the expiry may have found out whose time is up.
Rests ==
  /\ since' = since /\ timed' = timed /\ Waiting' = Waiting /\ SameCalls
  /\ due' \subseteq due \cup {c \in Members : timed[c]}

\* c begins to wait,
Sleeps(c) ==
  /\ c \notin Waiting /\ Waiting' = Waiting \cup {c} /\ SameCalls /\ due' = due
  /\ \A d \in Members : d # c => timed'[d] = timed[d] /\ since'[d] = since[d]
  /\ since'[c] = ops /\ ops' = ops + 1

\* or stops,
Awakes(c) ==
  /\ since' = since /\ Waiting' = Waiting \ {c} /\ SameCalls /\ due' = due \ {c}
  /\ timed' = [timed EXCEPT ![c] = FALSE]

\* or a wake_all begins.
CallsAll(x, s) ==
  /\ since' = since /\ timed' = timed /\ Waiting' = Waiting /\ due' = due
  /\ Left(x)' = On(s) /\ all'[x].at = ops
  /\ \A y \in S!Contexts : y # x => all'[y] = all[y]

ClockKinds ==
  /\ ops' \in {ops, ops + 1}
  /\ \/ Rests
     \/ \E c \in Members : Sleeps(c) \/ Awakes(c)
     \/ \E x \in S!Contexts, s \in Sess : CallsAll(x, s)

\* With the lists as they are.
LEMMA CallsKept ==
  ASSUME \A x \in S!Contexts : /\ all'[x].list = all[x].list
                               /\ Left(x) # {} => all'[x].at = all[x].at
  PROVE  SameCalls
BY DEF SameCalls, Left, InSeq

LEMMA RestsKept ==
  ASSUME UNCHANGED <<sess_waiters, all, timed, due, since>>, Waiting' = Waiting,
         ops' \in {ops, ops + 1}
  PROVE  ClockKinds
<1>1. SameCalls BY CallsKept
<1> QED BY <1>1 DEF ClockKinds, Rests

LEMMA AwakesKept ==
  ASSUME S!TypeOK, NEW c \in Members, S!WakeUp(c), since' = since, ops' \in {ops, ops + 1},
         SameCalls
  PROVE  ClockKinds
<1>1. Waiting' = Waiting \ {c} BY DEF S!TypeOK, S!WakeUp, Waiting
<1>2. Awakes(c) BY <1>1 DEF Awakes, S!WakeUp
<1> QED BY <1>2 DEF ClockKinds

LEMMA ClockStep ==
  ASSUME S!SessAssumption, SessInv, S!Next
  PROVE  ClockKinds
<1>1. S!TypeOK /\ Loops /\ Lists BY DEF SessInv, Standing
<1>2. ASSUME NEW c \in Members, S!Work(c) PROVE ClockKinds
  <2>1. c # Main BY DEF S!SessAssumption
  <2>2. CASE S!Finish(c)
    <3>1. Waiting' = Waiting BY <1>1, <2>1, <2>2 DEF S!Finish, S!Runs, Waiting, S!TypeOK
    <3> QED BY <2>2, <3>1, RestsKept DEF S!Finish, S!sessions
  <2>3. CASE S!ChildEnd(c)
    <3>1. parent[c] \in Members /\ st[c] = "run"
      BY <1>1, <2>1, <2>3 DEF S!TypeOK, S!ChildEnd, S!Runs
    <3>2. waited[parent[c]] = 1 => st[parent[c]] = "fork"
      BY <3>1 DEF SessInv, Counts
    <3>3. Waiting' = Waiting BY <1>1, <2>3, <3>1, <3>2 DEF S!ChildEnd, Waiting, S!TypeOK
    <3> QED BY <2>3, <3>3, RestsKept DEF S!ChildEnd, S!sessions
  <2>4. CASE S!End(c)
    <3>1. Waiting' = Waiting BY <1>1, <2>4 DEF S!End, Waiting, S!TypeOK
    <3> QED BY <2>4, <3>1, RestsKept DEF S!End, S!sessions
  <2>5. CASE S!Fork(c)
    <3>1. Waiting' = Waiting BY <2>5 DEF S!Fork, Waiting
    <3> QED BY <2>5, <3>1, RestsKept DEF S!Fork, S!Op, S!sessions
  <2>6. ASSUME NEW n \in 1 .. 2, S!ForkWait(c, n) PROVE ClockKinds
    <3>1. Waiting' = Waiting BY <1>1, <2>1, <2>6 DEF S!ForkWait, S!Runs, Waiting, S!TypeOK
    <3> QED BY <2>6, <3>1, RestsKept DEF S!ForkWait, S!Op, S!sessions
  <2>7. ASSUME NEW s \in Sess, NEW t \in Tags, NEW k \in BOOLEAN, NEW m \in BOOLEAN,
               S!Wait(c, s, t, k, m)
        PROVE  ClockKinds
    <3>1. c \notin Waiting BY <2>1, <2>7 DEF S!Wait, S!Runs, Waiting
    <3>2. Waiting' = Waiting \cup {c} BY <1>1, <2>7 DEF S!Wait, Waiting, S!TypeOK
    <3>3. SameCalls BY <2>7, CallsKept DEF S!Wait
    <3>4. /\ \A d \in Members : d # c => timed'[d] = timed[d] /\ since'[d] = since[d]
          /\ since'[c] = ops /\ ops' = ops + 1 /\ due' = due
      BY <1>1, <2>7 DEF S!Wait, S!Op, S!TypeOK
    <3>5. Sleeps(c) BY <3>1, <3>2, <3>3, <3>4 DEF Sleeps
    <3> QED BY <3>4, <3>5 DEF ClockKinds
  <2> QED BY <1>2, <2>2, <2>3, <2>4, <2>5, <2>6, <2>7 DEF S!Work
<1>3. ASSUME NEW x \in S!Contexts, S!Wakes(x) PROVE ClockKinds
  <2>1. ASSUME NEW s \in Sess, NEW t \in Tags, S!Wake(x, s, t) PROVE ClockKinds
    <3>1. Head(sess_waiters[s]) \in Members BY <1>1, <2>1 DEF S!TypeOK, S!Wake
    <3>2. SameCalls BY <2>1, CallsKept DEF S!Wake
    <3> QED BY <1>1, <2>1, <3>1, <3>2, AwakesKept DEF S!Wake, S!Op
  <2>2. ASSUME NEW s \in Sess, NEW b \in BOOLEAN, S!WakeAll(x, s, b) PROVE ClockKinds
    <3>1. /\ all'[x].list = sess_waiters[s] /\ all'[x].at = ops
          /\ \A y \in S!Contexts : y # x => all'[y] = all[y]
      BY <1>1, <2>2 DEF S!WakeAll, S!TypeOK
    <3>2. Left(x)' = On(s) BY <3>1 DEF Left, On
    <3>3. Waiting' = Waiting BY <2>2 DEF S!WakeAll, Waiting
    <3>4. CallsAll(x, s) BY <2>2, <3>1, <3>2, <3>3 DEF CallsAll, S!WakeAll
    <3> QED BY <2>2, <3>4 DEF ClockKinds, S!WakeAll, S!Op
  <2>3. ASSUME NEW s \in Sess, S!Unkeep(x, s) PROVE ClockKinds
    <3>1. Waiting' = Waiting BY <2>3 DEF S!Unkeep, Waiting
    <3> QED BY <2>3, <3>1, RestsKept DEF S!Unkeep, S!Op
  <2>4. CASE S!WakeAllNext(x)
    <3>1. all[x].list \in Seq(Members) /\ all[x].list # <<>> /\ IsInjective(all[x].list)
      BY <1>1, <2>4 DEF S!TypeOK, Lists, S!WakeAllNext
    <3>2. /\ Head(all[x].list) \in Members
          /\ InSeq(Tail(all[x].list)) \subseteq Left(x)
      BY <3>1, HeadTail DEF Left
    <3>3. /\ all'[x].list = Tail(all[x].list) /\ all'[x].at = all[x].at
          /\ \A y \in S!Contexts : y # x => all'[y] = all[y]
      BY <1>1, <2>4 DEF S!WakeAllNext, S!TypeOK
    <3>4. SameCalls BY <3>2, <3>3 DEF SameCalls, Left
    <3> QED BY <1>1, <2>4, <3>2, <3>4, AwakesKept DEF S!WakeAllNext
  <2>5. CASE S!WakeAllSpawn(x)
    <3>1. Waiting' = Waiting BY <1>1, <2>5, StartWaits DEF S!WakeAllSpawn
    <3>2. \A y \in S!Contexts : all'[y].list = all[y].list /\ all'[y].at = all[y].at
      BY <1>1, <2>5 DEF S!WakeAllSpawn, S!TypeOK
    <3>3. SameCalls BY <3>2, CallsKept
    <3> QED BY <2>5, <3>1, <3>3 DEF S!WakeAllSpawn, S!sessions, ClockKinds, Rests
  <2>6. CASE S!WakeAllEnd(x)
    <3>1. Waiting' = Waiting BY <2>6 DEF S!WakeAllEnd, Waiting
    <3>2. /\ all'[x].list = <<>> /\ all[x].list = <<>>
          /\ \A y \in S!Contexts : y # x => all'[y] = all[y]
      BY <1>1, <2>6 DEF S!WakeAllEnd, S!TypeOK, S!NoAll
    <3>3. SameCalls BY <3>2 DEF SameCalls, Left, InSeq
    <3> QED BY <2>6, <3>1, <3>3 DEF S!WakeAllEnd, ClockKinds, Rests
  <2> QED BY <1>3, <2>1, <2>2, <2>3, <2>4, <2>5, <2>6 DEF S!Wakes
<1>4. CASE S!Dispatch
  <2>1. CASE S!Spawn
    <3>1. Waiting' = Waiting BY <1>1, <2>1, StartWaits, SomeIdle DEF S!Spawn
    <3> QED BY <2>1, <3>1, RestsKept DEF S!Spawn, S!Op, S!sessions
  <2>2. CASE S!ExpireEnd \/ S!Dispatched
    <3>1. Waiting' = Waiting BY <2>2 DEF S!ExpireEnd, S!Dispatched, Waiting
    <3> QED BY <2>2, <3>1, RestsKept DEF S!ExpireEnd, S!Dispatched, S!sessions
  <2>3. CASE S!ForkDrain
    <3>1. Waiting' = Waiting BY <1>1, <2>3, StartWaits DEF S!ForkDrain
    <3> QED BY <2>3, <3>1, RestsKept DEF S!ForkDrain, S!sessions
  <2>4. ASSUME NEW s \in Sess, NEW t \in Tags, S!WakeMiss(s, t) PROVE ClockKinds
    <3>1. Waiting' = Waiting BY <1>1, <2>4, StartWaits, SomeIdle DEF S!WakeMiss
    <3> QED BY <2>4, <3>1, RestsKept DEF S!WakeMiss, S!Op, S!sessions
  <2>5. ASSUME NEW D, S!Expire(D) PROVE ClockKinds
    <3>1. Waiting' = Waiting BY <2>5 DEF S!Expire, Waiting
    <3>2. SameCalls BY <2>5, CallsKept DEF S!Expire
    <3> QED BY <2>5, <3>1, <3>2 DEF S!Expire, S!Op, ClockKinds, Rests
  <2>6. ASSUME NEW c \in Members, S!ExpireNext(c) PROVE ClockKinds
    <3>1. SameCalls BY <2>6, CallsKept DEF S!ExpireNext
    <3> QED BY <1>1, <2>6, <3>1, AwakesKept DEF S!ExpireNext
  <2> QED BY <1>4, <2>1, <2>2, <2>3, <2>4, <2>5, <2>6 DEF S!Dispatch
<1> QED BY <1>2, <1>3, <1>4 DEF S!Next

\* No kind leaves a timeout behind, or a waiter that is younger than its wake_all.
LEMMA TimeoutsStep ==
  ASSUME Timeouts, S!TypeOK, ClockKinds
  PROVE  Timeouts'
<1>1. /\ \A c \in Members : timed[c] => c \in Waiting
      /\ \A c \in Members : c \in due => timed[c]
  BY DEF Timeouts, Waiting
<1>2. ASSUME /\ \A c \in Members : timed'[c] => c \in Waiting'
             /\ \A c \in Members : c \in due' => timed'[c]
      PROVE  Timeouts'
  BY <1>2 DEF Timeouts, Waiting
<1>3. CASE Rests BY <1>1, <1>2, <1>3 DEF Rests
<1>4. ASSUME NEW c \in Members, Sleeps(c) PROVE Timeouts' BY <1>1, <1>2, <1>4 DEF Sleeps
<1>5. ASSUME NEW c \in Members, Awakes(c) PROVE Timeouts'
  <2>1. timed'[c] = FALSE /\ \A d \in Members : d # c => timed'[d] = timed[d]
    BY <1>5 DEF Awakes, S!TypeOK
  <2>2. Waiting' = Waiting \ {c} /\ due' = due \ {c} BY <1>5 DEF Awakes
  <2> QED BY <1>1, <1>2, <2>1, <2>2
<1>6. ASSUME NEW x \in S!Contexts, NEW s \in Sess, CallsAll(x, s) PROVE Timeouts'
  BY <1>1, <1>2, <1>6 DEF CallsAll
<1> QED BY <1>3, <1>4, <1>5, <1>6 DEF ClockKinds

LEMMA AgesStep ==
  ASSUME Ages, Lists, S!TypeOK, ClockKinds
  PROVE  Ages'
<1>1. /\ \A c \in Members : since[c] \in Nat
      /\ ops \in Nat /\ ops' \in Nat /\ ops' >= ops
  BY DEF S!TypeOK, ClockKinds
<1>2. Waiting \subseteq Members BY DEF Waiting
<1>3. \A x \in S!Contexts : Left(x) \subseteq Waiting BY DEF Lists
<1>4. ASSUME since' = since, Waiting' \subseteq Waiting, SameCalls PROVE Ages'
  <2>1. \A c \in Waiting' : since'[c] < ops' BY <1>1, <1>2, <1>4 DEF Ages
  <2>2. \A x \in S!Contexts, c \in Members : c \in Left(x)' => since'[c] < all'[x].at
    BY <1>4 DEF Ages, SameCalls
  <2> QED BY <2>1, <2>2 DEF Ages
<1>5. CASE Rests BY <1>4, <1>5 DEF Rests
<1>6. ASSUME NEW c \in Members, Sleeps(c) PROVE Ages'
  <2>1. /\ c \notin Waiting /\ Waiting' = Waiting \cup {c} /\ SameCalls
        /\ \A d \in Members : d # c => since'[d] = since[d]
        /\ since'[c] = ops /\ ops' = ops + 1
    BY <1>6 DEF Sleeps
  <2>2. \A d \in Waiting' : since'[d] < ops'
    <3>1. since'[c] < ops' BY <1>1, <2>1
    <3>2. \A d \in Waiting : since'[d] < ops' BY <1>1, <1>2, <2>1 DEF Ages
    <3> QED BY <2>1, <3>1, <3>2
  <2>3. \A x \in S!Contexts, d \in Members : d \in Left(x)' => since'[d] < all'[x].at
    BY <1>3, <2>1 DEF Ages, SameCalls
  <2> QED BY <2>2, <2>3 DEF Ages
<1>7. ASSUME NEW c \in Members, Awakes(c) PROVE Ages' BY <1>4, <1>7 DEF Awakes
<1>8. ASSUME NEW x \in S!Contexts, NEW s \in Sess, CallsAll(x, s) PROVE Ages'
  <2>1. /\ since' = since /\ Waiting' = Waiting /\ Left(x)' = On(s) /\ all'[x].at = ops
        /\ \A y \in S!Contexts : y # x => all'[y] = all[y]
    BY <1>8 DEF CallsAll
  <2>2. \A d \in Waiting' : since'[d] < ops' BY <1>1, <1>2, <2>1 DEF Ages
  <2>3. \A d \in Left(x)' : since'[d] < all'[x].at BY <2>1 DEF Ages, Lists
  <2>4. ASSUME NEW y \in S!Contexts, y # x, NEW d \in Members, d \in Left(y)'
        PROVE  since'[d] < all'[y].at
    <3>1. all'[y] = all[y] /\ d \in Left(y) BY <2>1, <2>4 DEF Left
    <3> QED BY <2>1, <3>1 DEF Ages
  <2> QED BY <2>2, <2>3, <2>4 DEF Ages
<1> QED BY <1>5, <1>6, <1>7, <1>8 DEF ClockKinds

-----------------------------------------------------------------------------
(* Forks and their children *)

Begun == {c \in Members : st[c] = "fork"}
Out == {c \in Members : st[c] \in {"idle", "end"}}

\* What a step does to the counts: nothing, and who stops running was nobody's child;
Settled ==
  /\ S!forks' = S!forks /\ Begun' = Begun
  /\ \A c \in Out' : c \in Out \/ parent[c] = Nil

\* a fork that nobody waits for is queued;
Forks ==
  /\ fork_pending' = Append(fork_pending, Nil)
  /\ waited' = waited /\ parent' = parent /\ Begun' = Begun /\ Out' = Out

\* c waits for n children that are queued;
Awaits(c, n) ==
  /\ c \notin Begun /\ fork_pending' = fork_pending \o [i \in 1 .. n |-> c]
  /\ waited' = [waited EXCEPT ![c] = n] /\ parent' = parent
  /\ Begun' = Begun \cup {c} /\ Out' = Out

\* the first of the queue starts as c;
Begins(c) ==
  /\ c \in Out /\ fork_pending # <<>> /\ fork_pending' = Tail(fork_pending)
  /\ waited' = waited /\ parent' = [parent EXCEPT ![c] = Head(fork_pending)]
  /\ Begun' = Begun /\ Out' = Out \ {c}

\* or the child c of p ends.
Leads(c, p) ==
  /\ c \notin Begun /\ parent[c] = p
  /\ fork_pending' = fork_pending /\ parent' = [parent EXCEPT ![c] = Nil]
  /\ waited' = [waited EXCEPT ![p] = @ - 1]
  /\ Begun' = (IF waited[p] = 1 THEN Begun \ {p} ELSE Begun)
  /\ Out' \subseteq Out \cup {c}

ForkKinds ==
  \/ Settled
  \/ Forks
  \/ \E c \in Members : \/ Begins(c)
                        \/ \E n \in 1 .. 2 : Awaits(c, n)
                        \/ \E p \in Members : Leads(c, p)

\* The counts of one coroutine.
Counted(c) ==
  /\ waited[c] = Times(fork_pending, c) + Cardinality(Children(c))
  /\ c \in Begun <=> waited[c] > 0

\* The children of a coroutine are finitely many.
LEMMA FewChildren ==
  ASSUME S!SessAssumption
  PROVE  \A c : IsFiniteSet(Children(c)) /\ Cardinality(Children(c)) \in Nat
<1> TAKE c
<1>1. IsFiniteSet(Children(c)) BY FS_Subset, SameNames DEF S!SessAssumption, Children
<1> QED BY <1>1, FS_CardinalityType

LEMMA CountsParts ==
  ASSUME Counts
  PROVE  (\A c \in Members : Counted(c)) /\ (\A c \in Out : parent[c] = Nil)
<1>1. \A c \in Members : c \in Begun <=> st[c] = "fork" BY DEF Begun
<1>2. \A c \in Out : c \in Members /\ st[c] \in {"idle", "end"} BY DEF Out
<1> HIDE DEF Begun, Out, Times, Children
<1> QED BY <1>1, <1>2 DEF Counts, Counted

LEMMA CountsWhole ==
  ASSUME \A c \in Members : Counted(c)', \A c \in Out' : parent'[c] = Nil
  PROVE  Counts'
<1>1. \A c \in Members : c \in Begun' <=> st'[c] = "fork" BY DEF Begun
<1>2. \A c \in Members : c \in Out' <=> st'[c] \in {"idle", "end"} BY DEF Out
<1> HIDE DEF Begun, Out, Times, Children
<1> QED BY <1>1, <1>2 DEF Counts, Counted

\* Each kind keeps the counts.
LEMMA SettledCounts ==
  ASSUME Counts, Settled
  PROVE  Counts'
<1>1. (\A c \in Members : Counted(c)) /\ (\A c \in Out : parent[c] = Nil) BY CountsParts
<1>2. \A c \in Members : Counted(c)' BY <1>1 DEF Counted, Settled, S!forks, Times, Children
<1>3. \A c \in Out' : parent'[c] = Nil BY <1>1 DEF Settled, S!forks
<1> QED BY <1>2, <1>3, CountsWhole

LEMMA ForksCounts ==
  ASSUME S!SessAssumption, S!TypeOK, Counts, Forks
  PROVE  Counts'
<1>1. (\A c \in Members : Counted(c)) /\ (\A c \in Out : parent[c] = Nil) BY CountsParts
<1>2. ASSUME NEW c \in Members PROVE Counted(c)'
  <2>1. Nil # c BY DEF S!SessAssumption
  <2>2. fork_pending \in Seq(Members \cup {Nil}) BY DEF S!TypeOK
  <2>3. Times(fork_pending, c) \in Nat /\ Times(fork_pending', c) = Times(fork_pending, c)
    <3>1. Times(Append(fork_pending, Nil), c)
            = Times(fork_pending, c) + (IF Nil = c THEN 1 ELSE 0)
      BY <2>2, TimesPushed
    <3>2. Times(fork_pending, c) \in Nat BY <2>2, TimesPushed
    <3> HIDE DEF Times
    <3> QED BY <2>1, <3>1, <3>2 DEF Forks
  <2>4. Children(c)' = Children(c) BY DEF Forks, Children
  <2> HIDE DEF Times, Children
  <2> QED BY <1>1, <2>3, <2>4 DEF Counted, Forks
<1>3. \A c \in Out' : parent'[c] = Nil BY <1>1 DEF Forks
<1> QED BY <1>2, <1>3, CountsWhole

LEMMA AwaitsCounts ==
  ASSUME S!SessAssumption, S!TypeOK, Counts, NEW c \in Members, NEW n \in 1 .. 2, Awaits(c, n)
  PROVE  Counts'
<1>1. (\A d \in Members : Counted(d)) /\ (\A d \in Out : parent[d] = Nil) BY CountsParts
<1>2. fork_pending \in Seq(Members \cup {Nil}) /\ c \in Members \cup {Nil} BY DEF S!TypeOK
<1>3. \A d : /\ Times(fork_pending, d) \in Nat
             /\ Times(fork_pending', d) = Times(fork_pending, d) + (IF c = d THEN n ELSE 0)
  <2>1. fork_pending' = IF n = 1 THEN Append(fork_pending, c)
                        ELSE Append(Append(fork_pending, c), c)
    BY <1>2, OneOrTwo DEF Awaits
  <2>2. Append(fork_pending, c) \in Seq(Members \cup {Nil}) BY <1>2
  <2>3. ASSUME NEW d
        PROVE  /\ Times(fork_pending, d) \in Nat
               /\ Times(Append(fork_pending, c), d)
                    = Times(fork_pending, d) + (IF c = d THEN 1 ELSE 0)
               /\ Times(Append(Append(fork_pending, c), c), d)
                    = Times(Append(fork_pending, c), d) + (IF c = d THEN 1 ELSE 0)
    <3> DEFINE q == Append(fork_pending, c)
    <3>1. /\ Times(fork_pending, d) \in Nat
          /\ Times(q, d) = Times(fork_pending, d) + (IF c = d THEN 1 ELSE 0)
      BY <1>2, TimesPushed
    <3>2. q \in Seq(Members \cup {Nil}) BY <2>2
    <3> HIDE DEF q
    <3>3. Times(Append(q, c), d) = Times(q, d) + (IF c = d THEN 1 ELSE 0)
      BY <1>2, <3>2, TimesPushed
    <3> QED BY <3>1, <3>3 DEF q
  <2>4. n = 1 \/ n = 2 OBVIOUS
  <2> HIDE DEF Times
  <2>5. CASE n = 1 BY <2>1, <2>3, <2>5
  <2>6. CASE n = 2 BY <2>1, <2>3, <2>6
  <2> QED BY <2>4, <2>5, <2>6
<1>4. \A d \in Members : Children(d)' = Children(d) /\ Cardinality(Children(d)) \in Nat
  BY FewChildren DEF Awaits, Children
<1>5. /\ waited'[c] = n /\ \A d \in Members : d # c => waited'[d] = waited[d]
      /\ waited[c] \in Nat /\ c \notin Begun /\ Begun' = Begun \cup {c}
  BY DEF Awaits, S!TypeOK
<1> HIDE DEF Times, Children
<1>6. Counted(c)'
  <2>1. waited[c] = 0 /\ waited[c] = Times(fork_pending, c) + Cardinality(Children(c))
    BY <1>1, <1>5 DEF Counted
  <2>2. Times(fork_pending, c) = 0 /\ Cardinality(Children(c)) = 0 BY <1>3, <1>4, <2>1
  <2>3. Times(fork_pending', c) = n BY <1>3, <2>2
  <2>4. Cardinality(Children(c)') = 0 BY <1>4, <2>2
  <2> QED BY <1>5, <2>3, <2>4 DEF Counted
<1>7. ASSUME NEW d \in Members, d # c PROVE Counted(d)'
  <2>1. Times(fork_pending', d) = Times(fork_pending, d) BY <1>3, <1>7
  <2> QED BY <1>1, <1>4, <1>5, <1>7, <2>1 DEF Counted
<1>8. \A d \in Out' : parent'[d] = Nil BY <1>1 DEF Awaits
<1> QED BY <1>6, <1>7, <1>8, CountsWhole

LEMMA BeginsCounts ==
  ASSUME S!SessAssumption, S!TypeOK, Counts, NEW c \in Members, Begins(c)
  PROVE  Counts'
<1> DEFINE p == Head(fork_pending)
<1>1. (\A d \in Members : Counted(d)) /\ (\A d \in Out : parent[d] = Nil) BY CountsParts
<1>2. fork_pending \in Seq(Members \cup {Nil}) /\ fork_pending # <<>> BY DEF S!TypeOK, Begins
<1>3. \A d : /\ Times(fork_pending', d) \in Nat
             /\ Times(fork_pending, d) = Times(fork_pending', d) + (IF p = d THEN 1 ELSE 0)
  BY <1>2, TimesTail DEF Begins
<1>4. /\ parent[c] = Nil /\ parent'[c] = p /\ \A d \in Members : d # c => parent'[d] = parent[d]
  BY <1>1 DEF Begins, S!TypeOK
<1> HIDE DEF p
<1>5. ASSUME NEW d \in Members PROVE Counted(d)'
  <2>1. Nil # d BY DEF S!SessAssumption
  <2>2. IsFiniteSet(Children(d)) /\ Cardinality(Children(d)) \in Nat BY FewChildren
  <2>3. c \notin Children(d) BY <1>4, <2>1 DEF Children
  <2>4. waited'[d] = waited[d] /\ (d \in Begun' <=> d \in Begun) BY DEF Begins
  <2>5. CASE p = d
    <3>1. Children(d)' = Children(d) \cup {c} BY <1>4, <2>5 DEF Children
    <3>2. Cardinality(Children(d)') = Cardinality(Children(d)) + 1
      BY <2>2, <2>3, <3>1, FS_AddElement
    <3>3. /\ Times(fork_pending', d) \in Nat
          /\ Times(fork_pending, d) = Times(fork_pending', d) + 1
      BY <1>3, <2>5
    <3> HIDE DEF Times, Children
    <3> QED BY <1>1, <2>2, <2>4, <3>2, <3>3 DEF Counted
  <2>6. CASE p # d
    <3>1. Children(d)' = Children(d) BY <1>4, <2>1, <2>6 DEF Children
    <3>2. Times(fork_pending, d) = Times(fork_pending', d)
      <4>1. Times(fork_pending', d) \in Nat /\ Times(fork_pending, d) = Times(fork_pending', d) + 0
        BY <1>3, <2>6
      <4> HIDE DEF Times
      <4> QED BY <4>1
    <3> HIDE DEF Times, Children
    <3> QED BY <1>1, <2>4, <3>1, <3>2 DEF Counted
  <2> QED BY <2>5, <2>6
<1>6. \A d \in Out' : parent'[d] = Nil BY <1>1, <1>4 DEF Begins, Out
<1> QED BY <1>5, <1>6, CountsWhole

LEMMA LeadsCounts ==
  ASSUME S!SessAssumption, S!TypeOK, Counts, NEW c \in Members, NEW p \in Members, Leads(c, p)
  PROVE  Counts'
<1>1. (\A d \in Members : Counted(d)) /\ (\A d \in Out : parent[d] = Nil) BY CountsParts
<1>2. /\ parent[c] = p /\ parent'[c] = Nil
      /\ \A d \in Members : d # c => parent'[d] = parent[d]
      /\ waited'[p] = waited[p] - 1 /\ \A d \in Members : d # p => waited'[d] = waited[d]
      /\ waited[p] \in Nat
  BY DEF Leads, S!TypeOK
<1>3. fork_pending' = fork_pending BY DEF Leads
<1>4. Nil \notin Members BY DEF S!SessAssumption
<1>5. \A d \in Members : Times(fork_pending, d) \in Nat BY TimesPushed DEF S!TypeOK
<1>6. Counted(p)'
  <2>1. c \in Children(p) /\ Children(p)' = Children(p) \ {c} BY <1>2, <1>4 DEF Children
  <2>2. IsFiniteSet(Children(p)) /\ Cardinality(Children(p)) \in Nat BY FewChildren
  <2>3. Cardinality(Children(p)') = Cardinality(Children(p)) - 1 BY <2>1, <2>2, FS_RemoveElement
  <2>4. Begun' = (IF waited[p] = 1 THEN Begun \ {p} ELSE Begun) BY DEF Leads
  <2>5. Cardinality(Children(p)) # 0 BY <2>1, <2>2, FS_EmptySet
  <2> HIDE DEF Times, Children
  <2>6. /\ waited[p] = Times(fork_pending, p) + Cardinality(Children(p))
        /\ p \in Begun <=> waited[p] > 0
    BY <1>1 DEF Counted
  <2>7. waited'[p] = Times(fork_pending, p) + Cardinality(Children(p)')
    BY <1>2, <1>5, <2>2, <2>3, <2>6
  <2>8. waited[p] > 0 BY <1>5, <2>2, <2>5, <2>6
  <2>9. p \in Begun' <=> waited'[p] > 0
    <3>1. CASE waited[p] = 1 BY <1>2, <2>4, <3>1
    <3>2. CASE waited[p] # 1 BY <1>2, <2>4, <2>6, <2>8, <3>2
    <3> QED BY <3>1, <3>2
  <2> QED BY <1>3, <2>7, <2>9 DEF Counted
<1>7. ASSUME NEW d \in Members, d # p PROVE Counted(d)'
  <2>1. Children(d)' = Children(d) BY <1>2, <1>4, <1>7 DEF Children
  <2>2. waited'[d] = waited[d] BY <1>2, <1>7
  <2>3. d \in Begun' <=> d \in Begun BY <1>7 DEF Leads
  <2> HIDE DEF Times, Children
  <2> QED BY <1>1, <1>3, <2>1, <2>2, <2>3 DEF Counted
<1>8. \A d \in Out' : parent'[d] = Nil BY <1>1, <1>2 DEF Leads, Out
<1> QED BY <1>6, <1>7, <1>8, CountsWhole

\* Without forks in it, a step that starts nobody, or wakes a waiter, or starts one
\* that is no child, leaves the counts as they are.
LEMMA StSettled == ASSUME UNCHANGED <<st, fork_pending, waited, parent>> PROVE ForkKinds
BY DEF ForkKinds, Settled, S!forks, Begun, Out

LEMMA WakeSettled ==
  ASSUME S!TypeOK, NEW c \in Waiting, S!WakeUp(c), UNCHANGED S!forks
  PROVE  ForkKinds
<1>1. c \in Members /\ st[c] = "wait" BY DEF Waiting
<1>2. Begun' = Begun /\ Out' \subseteq Out BY <1>1 DEF S!TypeOK, S!WakeUp, Begun, Out
<1> QED BY <1>2 DEF ForkKinds, Settled

LEMMA StartForks ==
  ASSUME S!TypeOK, NEW p \in Members \cup {Nil}, S!Idle # {}, S!Start(p)
  PROVE  \E c \in Members : /\ c \in Out /\ parent' = [parent EXCEPT ![c] = p]
                          /\ Begun' = Begun /\ Out' = Out \ {c}
<1>1. PICK c \in Members : Starts(c, p) BY Started
<1>2. c \in Out BY <1>1 DEF Starts, Out
<1>3. Begun' = Begun /\ Out' = Out \ {c} BY <1>1 DEF S!TypeOK, Starts, Begun, Out
<1> QED BY <1>1, <1>2, <1>3 DEF Starts

LEMMA StartSettled ==
  ASSUME S!TypeOK, Counts, S!Idle # {}, S!Start(Nil), UNCHANGED <<fork_pending, waited>>
  PROVE  ForkKinds
<1>1. PICK c \in Members : /\ c \in Out /\ parent' = [parent EXCEPT ![c] = Nil]
                         /\ Begun' = Begun /\ Out' = Out \ {c}
  BY StartForks
<1>2. parent[c] = Nil BY <1>1, CountsParts
<1>3. parent' = parent BY <1>1, <1>2 DEF S!TypeOK
<1> QED BY <1>1, <1>3 DEF ForkKinds, Settled, S!forks

LEMMA ForkStep ==
  ASSUME S!SessAssumption, SessInv, S!Next
  PROVE  ForkKinds
<1>1. S!TypeOK /\ Lists /\ Counts BY DEF SessInv, Standing
<1>2. ASSUME NEW c \in Members, S!Work(c) PROVE ForkKinds
  <2>1. c # Main BY DEF S!SessAssumption
  <2>2. CASE S!Finish(c)
    <3>1. st[c] = "run" /\ parent[c] = Nil BY <2>1, <2>2 DEF S!Finish, S!Runs
    <3>2. Begun' = Begun /\ Out' = Out \cup {c}
      BY <1>1, <2>2, <3>1 DEF S!Finish, Begun, Out, S!TypeOK
    <3> QED BY <2>2, <3>1, <3>2 DEF S!Finish, ForkKinds, Settled
  <2>3. CASE S!ChildEnd(c)
    <3> DEFINE p == parent[c]
    <3>1. p \in Members /\ st[c] = "run" BY <1>1, <2>1, <2>3 DEF S!TypeOK, S!ChildEnd, S!Runs
    <3>2. /\ fork_pending' = fork_pending /\ parent' = [parent EXCEPT ![c] = Nil]
          /\ waited' = [waited EXCEPT ![p] = @ - 1]
          /\ IF waited[p] = 1 THEN st' = [st EXCEPT ![c] = "end", ![p] = "run"]
                              ELSE st' = [st EXCEPT ![c] = "idle"]
      BY <2>3 DEF S!ChildEnd
    <3>3. parent[c] = p OBVIOUS
    <3> HIDE DEF p
    <3>4. c \notin Begun BY <3>1 DEF Begun
    <3>5. /\ Begun' = (IF waited[p] = 1 THEN Begun \ {p} ELSE Begun)
          /\ Out' \subseteq Out \cup {c}
      <4>1. CASE waited[p] = 1 BY <1>1, <3>1, <3>2, <4>1 DEF S!TypeOK, Begun, Out
      <4>2. CASE waited[p] # 1 BY <1>1, <3>1, <3>2, <4>2 DEF S!TypeOK, Begun, Out
      <4> QED BY <4>1, <4>2
    <3>6. Leads(c, p) BY <3>2, <3>3, <3>4, <3>5 DEF Leads
    <3> QED BY <3>1, <3>6 DEF ForkKinds
  <2>4. CASE S!End(c)
    <3>1. Begun' = Begun /\ Out' = Out BY <1>1, <2>4 DEF S!End, Begun, Out, S!TypeOK
    <3> QED BY <2>4, <3>1 DEF S!End, ForkKinds, Settled
  <2>5. CASE S!Fork(c)
    <3>1. Begun' = Begun /\ Out' = Out BY <2>5 DEF S!Fork, Begun, Out
    <3> QED BY <2>5, <3>1 DEF S!Fork, ForkKinds, Forks
  <2>6. ASSUME NEW n \in 1 .. 2, S!ForkWait(c, n) PROVE ForkKinds
    <3>1. st[c] = "run" BY <2>1, <2>6 DEF S!ForkWait, S!Runs
    <3>2. c \notin Begun /\ Begun' = Begun \cup {c} /\ Out' = Out
      BY <1>1, <2>6, <3>1 DEF S!ForkWait, Begun, Out, S!TypeOK
    <3>3. Awaits(c, n) BY <2>6, <3>2 DEF S!ForkWait, Awaits
    <3> QED BY <3>3 DEF ForkKinds
  <2>7. ASSUME NEW s \in Sess, NEW t \in Tags, NEW k \in BOOLEAN, NEW m \in BOOLEAN,
               S!Wait(c, s, t, k, m)
        PROVE  ForkKinds
    <3>1. st[c] = "run" BY <2>1, <2>7 DEF S!Wait, S!Runs
    <3>2. Begun' = Begun /\ Out' = Out BY <1>1, <2>7, <3>1 DEF S!Wait, Begun, Out, S!TypeOK
    <3> QED BY <2>7, <3>2 DEF S!Wait, ForkKinds, Settled
  <2> QED BY <1>2, <2>2, <2>3, <2>4, <2>5, <2>6, <2>7 DEF S!Work
<1>3. ASSUME NEW x \in S!Contexts, S!Wakes(x) PROVE ForkKinds
  <2>1. ASSUME NEW s \in Sess, NEW t \in Tags, S!Wake(x, s, t) PROVE ForkKinds
    <3>1. sess_waiters[s] \in Seq(Members) /\ sess_waiters[s] # <<>> /\ IsInjective(sess_waiters[s])
      BY <1>1, <2>1 DEF S!TypeOK, Lists, S!Wake
    <3>2. Head(sess_waiters[s]) \in On(s) BY <3>1, HeadTail DEF On
    <3>3. Head(sess_waiters[s]) \in Waiting BY <1>1, <3>2 DEF Lists
    <3> QED BY <1>1, <2>1, <3>3, WakeSettled DEF S!Wake
  <2>2. ASSUME NEW s \in Sess, NEW b \in BOOLEAN, S!WakeAll(x, s, b) PROVE ForkKinds
    BY <2>2, StSettled DEF S!WakeAll, S!forks
  <2>3. ASSUME NEW s \in Sess, S!Unkeep(x, s) PROVE ForkKinds
    BY <2>3, StSettled DEF S!Unkeep, S!forks
  <2>4. CASE S!WakeAllNext(x)
    <3>1. all[x].list \in Seq(Members) /\ all[x].list # <<>> /\ IsInjective(all[x].list)
      BY <1>1, <2>4 DEF S!TypeOK, Lists, S!WakeAllNext
    <3>2. Head(all[x].list) \in Left(x) BY <3>1, HeadTail DEF Left
    <3>3. Head(all[x].list) \in Waiting BY <1>1, <3>2 DEF Lists
    <3> QED BY <1>1, <2>4, <3>3, WakeSettled DEF S!WakeAllNext
  <2>5. CASE S!WakeAllSpawn(x) BY <1>1, <2>5, StartSettled DEF S!WakeAllSpawn
  <2>6. CASE S!WakeAllEnd(x) BY <2>6, StSettled DEF S!WakeAllEnd, S!forks
  <2> QED BY <1>3, <2>1, <2>2, <2>3, <2>4, <2>5, <2>6 DEF S!Wakes
<1>4. CASE S!Dispatch
  <2>1. CASE S!Spawn BY <1>1, <2>1, StartSettled, SomeIdle DEF S!Spawn
  <2>2. CASE S!ExpireEnd \/ S!Dispatched BY <2>2, StSettled DEF S!ExpireEnd, S!Dispatched, S!forks
  <2>3. CASE S!ForkDrain
    <3>1. Head(fork_pending) \in Members \cup {Nil} BY <1>1, <2>3 DEF S!ForkDrain, S!TypeOK
    <3>2. PICK c \in Members : /\ c \in Out /\ parent' = [parent EXCEPT ![c] = Head(fork_pending)]
                             /\ Begun' = Begun /\ Out' = Out \ {c}
      BY <1>1, <2>3, <3>1, StartForks DEF S!ForkDrain
    <3>3. Begins(c) BY <2>3, <3>2 DEF S!ForkDrain, Begins
    <3> QED BY <3>3 DEF ForkKinds
  <2>4. ASSUME NEW s \in Sess, NEW t \in Tags, S!WakeMiss(s, t) PROVE ForkKinds
    BY <1>1, <2>4, StartSettled, SomeIdle DEF S!WakeMiss
  <2>5. ASSUME NEW D, S!Expire(D) PROVE ForkKinds BY <2>5, StSettled DEF S!Expire, S!forks
  <2>6. ASSUME NEW c \in Members, S!ExpireNext(c) PROVE ForkKinds
    <3>1. c \in Waiting BY <2>6 DEF S!ExpireNext, SessInv, Timeouts, Waiting
    <3> QED BY <1>1, <2>6, <3>1, WakeSettled DEF S!ExpireNext
  <2> QED BY <1>4, <2>1, <2>2, <2>3, <2>4, <2>5, <2>6 DEF S!Dispatch
<1> QED BY <1>2, <1>3, <1>4 DEF S!Next

LEMMA CountsStep ==
  ASSUME S!SessAssumption, S!TypeOK, Counts, ForkKinds
  PROVE  Counts'
BY SettledCounts, ForksCounts, AwaitsCounts, BeginsCounts, LeadsCounts DEF ForkKinds

-----------------------------------------------------------------------------
(* The invariant *)

LEMMA SessInit == ASSUME S!SessAssumption, S!Init PROVE SessInv
<1>1. /\ run = <<Main>> /\ phase = "idle" /\ st = [c \in Members |-> "idle"]
      /\ keep = [s \in Sess |-> Nil] /\ sess_waiters = [s \in Sess |-> <<>>]
      /\ tag = [c \in Members |-> Nil] /\ timed = [c \in Members |-> FALSE] /\ due = {}
      /\ all = [x \in S!Contexts |-> S!NoAll]
      /\ fork_pending = <<>> /\ waited = [c \in Members |-> 0] /\ parent = [c \in Members |-> Nil]
      /\ since = [c \in Members |-> 0] /\ ops = 0
  BY DEF S!Init
<1>2. MaxOps \in Nat /\ Nil \notin Members /\ Nil \notin Sess /\ Main \in S!Contexts
  BY DEF S!SessAssumption, S!Contexts
<1>3. S!TypeOK BY <1>1, <1>2 DEF S!TypeOK, S!NoAll
<1>4. /\ \A x \in S!Contexts : ~S!InAll(x) /\ all[x].list = <<>>
      /\ Waiting = {} /\ \A s \in Sess : sess_waiters[s] = <<>>
  BY <1>1 DEF S!InAll, S!NoAll, Waiting
<1>5. Stack BY <1>1, <1>4 DEF Stack
<1>6. Loops BY <1>4 DEF Loops, S!Contexts
<1>7. Standing BY <1>4 DEF Standing, Lists, Apart, Placed, On, Left, InSeq, IsInjective
<1>8. Entries BY <1>1 DEF Entries
<1>9. Timeouts BY <1>1 DEF Timeouts
<1>10. Ages BY <1>4 DEF Ages, Left, InSeq
<1>11. Counts
  <2>1. ASSUME NEW c \in Members
        PROVE  Times(fork_pending, c) = 0 /\ Cardinality(Children(c)) = 0
    <3>1. {i \in DOMAIN fork_pending : fork_pending[i] = c} = {} BY <1>1
    <3>2. Children(c) = {} BY <1>1, <1>2 DEF Children
    <3> QED BY <3>1, <3>2, FS_EmptySet DEF Times
  <2> HIDE DEF Times, Children
  <2> QED BY <1>1, <2>1 DEF Counts
<1> QED BY <1>3, <1>5, <1>6, <1>7, <1>8, <1>9, <1>10, <1>11 DEF SessInv

LEMMA SessStep == ASSUME S!SessAssumption, SessInv, S!Next PROVE SessInv'
<1>1. S!TypeOK /\ Stack /\ Standing /\ Lists /\ Timeouts /\ Ages /\ Counts BY DEF SessInv, Standing
<1>2. Moves /\ ListKinds /\ ClockKinds /\ ForkKinds BY MovesStep, ListStep, ClockStep, ForkStep
<1>3. Stack' /\ run' \in Seq(S!Contexts) /\ run' # <<>> BY <1>1, <1>2, StackStep
<1>4. S!TypeOK'
  <2>1. Rest' BY RestStep
  <2> QED BY <1>3, <2>1 DEF S!TypeOK, Rest
<1>5. Loops' /\ Entries' BY LoopsStep, EntriesStep
<1>6. Standing' /\ Timeouts' /\ Ages' /\ Counts'
  BY <1>1, <1>2, StandingStep, TimeoutsStep, AgesStep, CountsStep
<1> QED BY <1>3, <1>4, <1>5, <1>6 DEF SessInv

LEMMA SessStutter == ASSUME SessInv, UNCHANGED S!vars PROVE SessInv'
<1>1. UNCHANGED <<run, phase, st, keep, sess_waiters, tag, timed, due, all, fork_pending,
                  waited, parent, since, ops>>
  BY DEF S!vars
<1>2. \A x \in S!Contexts : S!InAll(x)' <=> S!InAll(x) BY <1>1 DEF S!InAll
<1>3. /\ Waiting' = Waiting /\ \A s : On(s)' = On(s)
      /\ \A x : Left(x)' = Left(x)
      /\ \A c : Children(c)' = Children(c)
  BY <1>1 DEF Waiting, On, Left, Children
<1>4. S!TypeOK' BY <1>1 DEF SessInv, S!TypeOK
<1>5. Stack' BY <1>1, <1>2 DEF SessInv, Stack
<1>6. Loops' BY <1>1 DEF SessInv, Loops, S!InAll
<1>7. Lists' /\ Apart' /\ Placed' BY <1>1, <1>3 DEF SessInv, Standing, Lists, Apart, Placed
<1>8. Entries' BY <1>1 DEF SessInv, Entries
<1>9. Timeouts' BY <1>1 DEF SessInv, Timeouts
<1>10. Ages' BY <1>1, <1>3 DEF SessInv, Ages
<1>11. Counts'
  <2>1. \A c : Times(fork_pending', c) = Times(fork_pending, c) BY <1>1
  <2> HIDE DEF Times, Children
  <2> QED BY <1>1, <1>3, <2>1 DEF SessInv, Counts
<1> QED BY <1>4, <1>5, <1>6, <1>7, <1>8, <1>9, <1>10, <1>11 DEF SessInv, Standing

LEMMA SessAlways == ASSUME S!SessAssumption PROVE S!Spec => []SessInv
<1>1. S!Init => SessInv BY SessInit
<1>2. SessInv /\ [S!Next]_(S!vars) => SessInv' BY SessStep, SessStutter
<1> QED BY <1>1, <1>2, PTL DEF S!Spec

\* A waiting coroutine stands in one list, any other in none, and a session that is
\* kept has a reason.
LEMMA InvRegistered == ASSUME S!SessAssumption, SessInv PROVE S!Registered
<1>1. S!TypeOK /\ Lists /\ Apart /\ Placed /\ Entries /\ Timeouts BY DEF SessInv, Standing
<1>2. Nil \notin BOOLEAN BY DEF S!SessAssumption
<1>3. ASSUME NEW c \in Members
      PROVE  LET in_sess == {s \in Sess : S!Contains(sess_waiters[s], c)}
                 in_all == {x \in S!Contexts : S!Contains(all[x].list, c)}
             IN  /\ S!Cardinality(in_sess) + S!Cardinality(in_all)
                      = (IF st[c] = "wait" THEN 1 ELSE 0)
                 /\ \A s \in in_sess : keep[s] # Nil
                 /\ timed[c] => st[c] = "wait"
                 /\ c \in due => timed[c]
  <2> DEFINE in_sess == {s \in Sess : S!Contains(sess_waiters[s], c)}
             in_all == {x \in S!Contexts : S!Contains(all[x].list, c)}
  <2>1. in_sess = {s \in Sess : c \in On(s)}
    <3>1. ASSUME NEW s \in Sess PROVE S!Contains(sess_waiters[s], c) <=> c \in On(s)
      <4>1. sess_waiters[s] \in Seq(Members) BY <1>1 DEF S!TypeOK
      <4>2. DOMAIN sess_waiters[s] = 1 .. Len(sess_waiters[s]) BY <4>1
      <4> QED BY <4>2, SameNames DEF On, InSeq, Contains
    <3> QED BY <3>1
  <2>2. in_all = {x \in S!Contexts : c \in Left(x)}
    <3>1. ASSUME NEW x \in S!Contexts PROVE S!Contains(all[x].list, c) <=> c \in Left(x)
      <4>1. all[x].list \in Seq(Members) BY <1>1 DEF S!TypeOK
      <4>2. DOMAIN all[x].list = 1 .. Len(all[x].list) BY <4>1
      <4> QED BY <4>2, SameNames DEF Left, InSeq, Contains
    <3> QED BY <3>1
  <2>3. \A s \in in_sess : keep[s] # Nil
    <3>1. ASSUME NEW s \in in_sess PROVE keep[s] # Nil
      <4>1. s \in Sess /\ c \in On(s) BY <2>1
      <4>2. sess_waiters[s] # <<>> BY <4>1 DEF On, InSeq
      <4> QED BY <1>1, <4>1, <4>2 DEF Entries
    <3> QED BY <3>1
  <2>4. (timed[c] => st[c] = "wait") /\ (c \in due => timed[c]) BY <1>1 DEF Timeouts
  <2> HIDE DEF in_sess, in_all
  <2>5. S!Cardinality(in_sess) + S!Cardinality(in_all) = (IF st[c] = "wait" THEN 1 ELSE 0)
    <3>1. S!Cardinality({}) = 0 BY FS_EmptySet, SameNames
    <3>2. \A e : S!Cardinality({e}) = 1 BY FS_Singleton, SameNames
    <3>3. CASE st[c] # "wait"
      <4>1. c \notin Waiting BY <3>3 DEF Waiting
      <4>2. in_sess = {} /\ in_all = {} BY <1>1, <2>1, <2>2, <4>1 DEF Lists
      <4> QED BY <3>1, <3>3, <4>2
    <3>4. ASSUME st[c] = "wait", NEW s \in Sess, c \in On(s)
          PROVE  S!Cardinality(in_sess) + S!Cardinality(in_all) = 1
      <4>1. in_sess = {s} /\ in_all = {} BY <1>1, <2>1, <2>2, <3>4 DEF Apart
      <4>2. S!Cardinality(in_sess) = 1 /\ S!Cardinality(in_all) = 0 BY <3>1, <3>2, <4>1
      <4> QED BY <4>2
    <3>5. ASSUME st[c] = "wait", NEW x \in S!Contexts, c \in Left(x)
          PROVE  S!Cardinality(in_sess) + S!Cardinality(in_all) = 1
      <4>1. in_all = {x} /\ in_sess = {} BY <1>1, <2>1, <2>2, <3>5 DEF Apart
      <4>2. S!Cardinality(in_sess) = 0 /\ S!Cardinality(in_all) = 1 BY <3>1, <3>2, <4>1
      <4> QED BY <4>2
    <3>6. c \in Waiting => (\E s \in Sess : c \in On(s)) \/ (\E x \in S!Contexts : c \in Left(x))
      BY <1>1 DEF Placed
    <3>7. c \in Waiting <=> st[c] = "wait" BY DEF Waiting
    <3> QED BY <3>3, <3>4, <3>5, <3>6, <3>7
  <2> QED BY <2>3, <2>4, <2>5 DEF in_sess, in_all
<1>4. \A s \in Sess : keep[s] # Nil /\ sess_waiters[s] = <<>> =>
        keep[s] \/ \E x \in S!Contexts : all[x].on = s
  <2>1. ASSUME NEW s \in Sess, keep[s] = TRUE PROVE keep[s] BY <2>1
  <2> QED BY <1>1, <2>1 DEF Entries
<1> QED BY <1>3, <1>4 DEF S!Registered

\* The children fork_wait counts.
LEMMA InvForkCounted == ASSUME SessInv PROVE S!ForkCounted
<1>1. ASSUME NEW c \in Members
      PROVE  /\ waited[c] = S!Cardinality({i \in DOMAIN fork_pending : fork_pending[i] = c})
                             + S!Cardinality({d \in Members : parent[d] = c})
             /\ st[c] = "fork" <=> waited[c] > 0
  <2>1. /\ S!Cardinality({i \in DOMAIN fork_pending : fork_pending[i] = c})
             = Times(fork_pending, c)
        /\ S!Cardinality({d \in Members : parent[d] = c}) = Cardinality(Children(c))
    BY SameNames DEF Times, Children
  <2> QED BY <2>1 DEF SessInv, Counts
<1> QED BY <1>1 DEF S!ForkCounted

\* What a wake_all wakes.
LEMMA StepOldWaiters == ASSUME S!SessAssumption, SessInv, S!Next PROVE S!WakesOldWaiters
<1>1. S!TypeOK /\ Stack /\ Loops /\ Lists /\ Ages BY DEF SessInv, Standing
<1>2. SUFFICES ASSUME NEW d \in Members, st[d] = "wait", st'[d] # "wait", S!InAll(S!Top)
               PROVE  since[d] < all[S!Top].at
  BY DEF S!WakesOldWaiters
<1>3. ASSUME NEW c \in Members, S!Work(c) PROVE FALSE
  <2>1. CASE S!End(c) BY <1>1, <1>2, <2>1 DEF S!End, Loops
  <2>2. CASE ~S!End(c)
    <3>1. S!Runs(c) BY <1>3, <2>2 DEF S!Work, S!Finish, S!ChildEnd, S!Fork, S!ForkWait, S!Wait
    <3> QED BY <1>2, <3>1 DEF S!Runs
  <2> QED BY <2>1, <2>2
<1>4. ASSUME NEW x \in S!Contexts, S!Wakes(x) PROVE since[d] < all[S!Top].at
  <2>1. ASSUME NEW s \in Sess PROVE /\ \A t \in Tags : ~S!Wake(x, s, t)
                                    /\ \A b \in BOOLEAN : ~S!WakeAll(x, s, b)
                                    /\ ~S!Unkeep(x, s)
    BY <1>2 DEF S!Wake, S!WakeAll, S!Unkeep, S!Runs
  <2>2. CASE S!WakeAllNext(x)
    <3> DEFINE c == Head(all[x].list)
    <3>1. all[x].list \in Seq(Members) /\ all[x].list # <<>> /\ IsInjective(all[x].list)
      BY <1>1, <2>2 DEF S!TypeOK, Lists, S!WakeAllNext
    <3>2. c \in Members /\ c \in Left(x) BY <3>1, HeadTail DEF Left
    <3>3. st' = [st EXCEPT ![c] = "run"] /\ S!Top = x BY <2>2 DEF S!WakeAllNext, S!WakeUp
    <3> HIDE DEF c
    <3>4. d = c BY <1>1, <1>2, <3>2, <3>3 DEF S!TypeOK
    <3> QED BY <1>1, <3>2, <3>3, <3>4 DEF Ages
  <2>3. CASE S!WakeAllSpawn(x)
    <3>1. Waiting' = Waiting BY <1>1, <2>3, StartWaits DEF S!WakeAllSpawn
    <3> QED BY <1>2, <3>1 DEF Waiting
  <2>4. CASE S!WakeAllEnd(x) BY <1>2, <2>4 DEF S!WakeAllEnd
  <2> QED BY <1>4, <2>1, <2>2, <2>3, <2>4 DEF S!Wakes
<1>5. CASE S!Dispatch
  <2>1. S!Top = Main /\ (S!Runs(Main) \/ phase = "expire" \/ ~S!InAll(Main))
    BY <1>5
       DEF S!Dispatch, S!Spawn, S!ExpireEnd, S!ForkDrain, S!Dispatched, S!WakeMiss,
           S!Expire, S!ExpireNext, S!Runs
  <2> QED BY <1>1, <1>2, <2>1 DEF S!Runs, Loops
<1> QED BY <1>3, <1>4, <1>5 DEF S!Next

\* Every variable of the coroutine scheduler stays in its type.
THEOREM SessTypesCorrect == S!Spec => []S!TypeOK
<1>1. SessInv => S!TypeOK BY DEF SessInv
<1> QED BY <1>1, CoroAssumption, SessAlways, PTL

\* Each waiting coroutine is registered once, where an event will find it
\* (coro.c:137-185, 427-431), and no entry stays that nothing removes.
THEOREM RegisteredCorrect == S!Spec => []Registered
<1>1. SessInv => Registered BY CoroAssumption, InvRegistered DEF Registered
<1> QED BY <1>1, CoroAssumption, SessAlways, PTL

\* fork_wait counts its living children, and lasts exactly as long as there are any.
THEOREM ForkCountedCorrect == S!Spec => []ForkCounted
<1>1. SessInv => ForkCounted BY InvForkCounted DEF ForkCounted
<1> QED BY <1>1, CoroAssumption, SessAlways, PTL

\* A wake_all wakes only those who waited before it was called.
THEOREM OnlyOldWaitersCorrect == S!Spec => OnlyOldWaiters
<1>1. SessInv /\ [S!Next]_(S!vars) => [S!WakesOldWaiters]_(S!vars)
  BY CoroAssumption, StepOldWaiters
<1> QED BY <1>1, CoroAssumption, SessAlways, PTL DEF S!Spec, OnlyOldWaiters

-----------------------------------------------------------------------------
(* Serials: the invariant *)

\* The dispatcher is at the bottom of the stack: a coroutine that yields leaves
\* somebody to go on.
Bottom == run[1] = Main

\* Who is in a call knows the lock it called.
Caller == \A c \in Coros : at[c] # "out" => held[c] # Nil

\* Those in a queue, and those a free has taken from it, wait for that lock; they
\* stand there once.
Waits ==
  /\ \A s \in Serials, d \in Coros :
       d \in InSeq(waiters[s]) => at[d] = "queued" /\ held[d] = s
  /\ \A x \in Contexts, d \in Coros :
       d \in InSeq(drain[x].list) =>
         drain[x].on # Nil /\ at[d] = "queued" /\ held[d] = drain[x].on
  /\ \A s \in Serials : IsInjective(waiters[s])
  /\ \A x \in Contexts : IsInjective(drain[x].list)

\* A queue is that of a lock that somebody holds and that is not being freed.
QueueOwned ==
  \A s \in Serials : waiters[s] # <<>> => current[s] # Nil /\ ~closed[s]

\* A free under way is the only one of its lock, and it is on record.
OneFree ==
  /\ \A x \in Contexts : drain[x].on # Nil => draining[drain[x].on]
  /\ \A x, y \in Contexts : drain[x].on # Nil /\ drain[x].on = drain[y].on => x = y
  /\ \A s \in Serials : draining[s] => closed[s]

\* The slot loses a lock that is freed; a new lock has no history.
Slots ==
  /\ \A s \in Serials : closed[s] /\ ~draining[s] => slot # s
  /\ \A s \in Serials : mem[s] = "new" => current[s] = Nil /\ ~closed[s]

Places == Caller /\ Waits /\ QueueOwned /\ OneFree /\ Slots
Safe == Places /\ OneOwner /\ NoUseAfterFree /\ NoLeak /\ OneQueue
IInv == TypeOK /\ Bottom /\ Safe

USE SerialAssumption DEF lock, flags, Contexts

-----------------------------------------------------------------------------
(* Queues: who stands in a sequence that loses its head or gains an element *)

\* Nobody stands in an empty queue, and somebody in any other.
LEMMA EmptyQueue ==
  ASSUME NEW Els, NEW q \in Seq(Els)
  PROVE  /\ InSeq(<<>>) = {} /\ IsInjective(<<>>)
         /\ (q = <<>>) <=> (InSeq(q) = {})
         /\ InSeq(q) \subseteq Els
<1>1. InSeq(<<>>) = {} /\ IsInjective(<<>>) BY DEF InSeq, IsInjective
<1>2. q # <<>> => q[1] \in InSeq(q) BY DEF InSeq
<1>3. InSeq(q) \subseteq Els BY DEF InSeq
<1> QED BY <1>1, <1>2, <1>3

\* One more at the end.
LEMMA AtTheEnd ==
  ASSUME NEW Els, NEW q \in Seq(Els), NEW e \in Els, IsInjective(q), e \notin InSeq(q)
  PROVE  /\ Append(q, e) \in Seq(Els) /\ Append(q, e) # <<>>
         /\ InSeq(Append(q, e)) = InSeq(q) \cup {e}
         /\ IsInjective(Append(q, e))
<1>1. /\ Append(q, e) \in Seq(Els) /\ Append(q, e) # <<>>
      /\ DOMAIN Append(q, e) = 1 .. Len(q) + 1 /\ DOMAIN q = 1 .. Len(q) /\ Len(q) \in Nat
      /\ \A i \in DOMAIN q : Append(q, e)[i] = q[i]
      /\ Append(q, e)[Len(q) + 1] = e
  OBVIOUS
<1>2. InSeq(Append(q, e)) = InSeq(q) \cup {e} BY <1>1 DEF InSeq
<1>3. IsInjective(Append(q, e)) BY <1>1 DEF InSeq, IsInjective
<1> QED BY <1>1, <1>2, <1>3

-----------------------------------------------------------------------------
(* Steps *)

\* A step after which some coroutines are no longer in a call, and nobody else is
\* where it was not.
OnlyReturns ==
  \A d \in Coros : \/ at'[d] = at[d] /\ held'[d] = held[d]
                   \/ at[d] \in {"out", "failed"} /\ at'[d] = "out"

\* What holds of sequences holds of the queues of the locks and of the frees.
LEMMA Queued ==
  ASSUME TypeOK
  PROVE  /\ \A s \in Serials : /\ InSeq(waiters[s]) \subseteq Coros
                               /\ (waiters[s] = <<>>) <=> (InSeq(waiters[s]) = {})
         /\ \A x \in Contexts : /\ InSeq(drain[x].list) \subseteq Coros
                                /\ (drain[x].list = <<>>) <=> (InSeq(drain[x].list) = {})
<1>1. /\ \A s \in Serials : waiters[s] \in Seq(Coros)
      /\ \A x \in Contexts : drain[x].list \in Seq(Coros)
  BY DEF TypeOK
<1>2. ASSUME NEW s \in Serials
      PROVE  /\ InSeq(waiters[s]) \subseteq Coros
             /\ (waiters[s] = <<>>) <=> (InSeq(waiters[s]) = {})
  BY <1>1, EmptyQueue
<1>3. ASSUME NEW x \in Contexts
      PROVE  /\ InSeq(drain[x].list) \subseteq Coros
             /\ (drain[x].list = <<>>) <=> (InSeq(drain[x].list) = {})
  BY <1>1, EmptyQueue
<1> QED BY <1>2, <1>3

\* What is left of a call after discard, or a command that fails, returns at most.
LEMMA DiscardedReturns ==
  ASSUME TypeOK, NEW c \in Coros, Discarded(c) \/ (at[c] = "failed" /\ Return(c))
  PROVE  OnlyReturns
  BY DEF TypeOK, Discarded, Return, OnlyReturns

\* The locks keep their owners, and so do their owners.
LEMMA OwnerKept ==
  ASSUME TypeOK, OneOwner, UNCHANGED <<current, ref, depth>>,
         \A d \in Coros : /\ at'[d] = "in" <=> at[d] = "in"
                          /\ at[d] = "in" => held'[d] = held[d]
  PROVE  OneOwner'
<1>1. \A s \in Serials : current[s] # Nil => current[s] \in Coros
  BY DEF TypeOK
<1>2. \A s \in Serials : current[s] # Nil => at[current[s]] = "in" /\ held[current[s]] = s
  BY DEF OneOwner
<1>3. \A s \in Serials : current'[s] # Nil => at'[current'[s]] = "in" /\ held'[current'[s]] = s
  BY <1>1, <1>2
<1> QED BY <1>3 DEF OneOwner

\* After the step c holds s, n levels deep, and nothing changes for the others.
Holds(c, s, n) ==
  /\ at'[c] = "in" /\ held'[c] = s /\ depth'[c] = n /\ current'[s] = c /\ ref'[s] = n
  /\ \A d \in Coros : d # c => at'[d] = at[d] /\ held'[d] = held[d] /\ depth'[d] = depth[d]
  /\ \A r \in Serials : r # s => current'[r] = current[r] /\ ref'[r] = ref[r]

\* It held s already, or s was free and c in no lock.
LEMMA OwnerHolds ==
  ASSUME TypeOK, OneOwner, Caller, NEW c \in Coros, NEW s \in Serials, NEW n \in Nat, n > 0,
         Holds(c, s, n), current[s] = c \/ (current[s] = Nil /\ at[c] # "in")
  PROVE  OneOwner'
<1>1. /\ at'[c] = "in" /\ held'[c] = s /\ depth'[c] = n /\ current'[s] = c /\ ref'[s] = n
      /\ \A d \in Coros : d # c => at'[d] = at[d] /\ held'[d] = held[d] /\ depth'[d] = depth[d]
      /\ \A r \in Serials : r # s => current'[r] = current[r] /\ ref'[r] = ref[r]
  BY DEF Holds
<1>2. /\ \A d \in Coros : at[d] = "in" => held[d] \in Serials
      /\ \A r \in Serials : current[r] # Nil => current[r] \in Coros
  BY DEF TypeOK, Caller
<1>3. \A d \in Coros : d # c /\ at[d] = "in" => held[d] # s BY DEF OneOwner
<1>4. \A r \in Serials : r # s /\ current[r] # Nil => current[r] # c BY DEF OneOwner
<1>5. \A d \in Coros : at'[d] = "in" <=> depth'[d] > 0 BY <1>1 DEF OneOwner
<1>6. \A d \in Coros : at'[d] = "in" => current'[held'[d]] = d /\ ref'[held'[d]] = depth'[d]
  BY <1>1, <1>2, <1>3 DEF OneOwner
<1>7. \A r \in Serials : current'[r] # Nil => at'[current'[r]] = "in" /\ held'[current'[r]] = r
  <2>1. ASSUME NEW r \in Serials, r # s, current'[r] # Nil
        PROVE  at'[current'[r]] = "in" /\ held'[current'[r]] = r
    <3>1. current'[r] = current[r] /\ current[r] \in Coros /\ current[r] # c
      BY <1>1, <1>2, <1>4, <2>1
    <3>2. at[current[r]] = "in" /\ held[current[r]] = r BY <2>1, <3>1 DEF OneOwner
    <3> QED BY <1>1, <3>1, <3>2
  <2> QED BY <1>1, <2>1
<1>8. \A r \in Serials : current'[r] = Nil => ref'[r] = 0 BY <1>1 DEF OneOwner
<1> QED BY <1>5, <1>6, <1>7, <1>8 DEF OneOwner

\* The queues stay as they are, and so do those that stand in them.
LEMMA Bystanders ==
  ASSUME TypeOK, Waits, OneQueue, Caller, waiters' = waiters,
         \A d \in Coros : at[d] = "queued" \/ at'[d] = "queued" =>
                            at'[d] = at[d] /\ held'[d] = held[d],
         \A x \in Contexts : /\ drain'[x].list = drain[x].list
                             /\ drain[x].list # <<>> => drain'[x].on = drain[x].on,
         \A s \in Serials : waiters[s] # <<>> /\ current[s] # Nil => current'[s] # Nil
  PROVE  Waits' /\ OneQueue'
<1>1. \A x \in Contexts, d \in Coros : d \in InSeq(drain[x].list) => drain[x].list # <<>>
  BY Queued
<1>2. \A s \in Serials, d \in Coros : d \in InSeq(waiters[s]) => waiters[s] # <<>>
  BY Queued
<1>3. Waits'
  <2>1. \A s \in Serials, d \in Coros :
          d \in InSeq(waiters'[s]) => at'[d] = "queued" /\ held'[d] = s
    BY DEF Waits
  <2>2. \A x \in Contexts, d \in Coros :
          d \in InSeq(drain'[x].list) =>
            drain'[x].on # Nil /\ at'[d] = "queued" /\ held'[d] = drain'[x].on
    BY <1>1 DEF Waits
  <2>3. \A x \in Contexts : IsInjective(drain'[x].list) BY DEF Waits
  <2> QED BY <2>1, <2>2, <2>3 DEF Waits
<1>4. ASSUME NEW d \in Coros, at'[d] = "queued"
      PROVE  \/ /\ d \in InSeq(waiters[held[d]]) /\ current'[held[d]] # Nil
                /\ \A x \in Contexts : d \notin InSeq(drain'[x].list)
             \/ /\ d \notin InSeq(waiters[held[d]])
                /\ \E x \in Contexts : drain'[x].on = held[d] /\ d \in InSeq(drain'[x].list)
  <2>1. at[d] = "queued" /\ held[d] \in Serials BY <1>4 DEF TypeOK, Caller
  <2>2. CASE /\ d \in InSeq(waiters[held[d]]) /\ current[held[d]] # Nil
             /\ \A x \in Contexts : d \notin InSeq(drain[x].list)
    BY <2>1, <2>2, <1>2
  <2>3. CASE /\ d \notin InSeq(waiters[held[d]])
             /\ \E x \in Contexts : drain[x].on = held[d] /\ d \in InSeq(drain[x].list)
    BY <2>1, <2>3, <1>1
  <2> QED BY <2>1, <2>2, <2>3 DEF OneQueue
<1>5. OneQueue' BY <1>4 DEF OneQueue
<1> QED BY <1>3, <1>5

\* A step that moves the stack, ends calls that do not hold the lock, or empties
\* the slot of a lock that is being freed.
LEMMA QuietStep ==
  ASSUME IInv, OnlyReturns, UNCHANGED <<mem, lock, flags, waiters, drain>>,
         slot' = slot \/ (slot # Nil /\ closed[slot] /\ slot' = Nil)
  PROVE  Safe'
<1> USE DEF IInv, Safe, Places, TypeOK, OnlyReturns
<1>1. Caller' BY DEF Caller
<1>2. QueueOwned' BY DEF QueueOwned
<1>3. OneFree' BY DEF OneFree
<1>4. Slots' BY DEF Slots
<1>5. OneOwner' BY DEF OneOwner
<1>6. NoUseAfterFree' BY DEF NoUseAfterFree, InDrain
<1>7. NoLeak' BY DEF NoLeak
<1>8. Waits' /\ OneQueue' BY Bystanders
<1> QED BY <1>1, <1>2, <1>3, <1>4, <1>5, <1>6, <1>7, <1>8

\* The lock is free.
LEMMA TakeStep ==
  ASSUME IInv, NEW c \in Coros, NEW o \in Calls, Take(c, o)
  PROVE  Safe'
<1> USE DEF IInv, Safe, Places, TypeOK, Take, Begin
<1>0. TypeOK /\ OneOwner /\ Caller OBVIOUS
<1>1. Caller' BY DEF Caller
<1>2. QueueOwned' BY DEF QueueOwned
<1>3. OneFree' BY DEF OneFree
<1>4. Slots' BY DEF Slots, NoUseAfterFree
<1>5. OneOwner'
  <2>1. slot \in Serials /\ current[slot] = Nil /\ at[c] # "in" /\ ref[slot] = 0 BY DEF OneOwner
  <2>2. Holds(c, slot, 1) BY <2>1 DEF Holds
  <2> HIDE DEF IInv, Safe, Places, TypeOK, Take, Begin
  <2> QED BY <1>0, <2>1, <2>2, OwnerHolds
<1>6. NoUseAfterFree' BY DEF NoUseAfterFree, InDrain
<1>7. NoLeak' BY DEF NoLeak
<1>8. Waits' /\ OneQueue' BY Bystanders
<1> QED BY <1>1, <1>2, <1>3, <1>4, <1>5, <1>6, <1>7, <1>8

\* The lock is being freed.
LEMMA RefuseStep ==
  ASSUME IInv, NEW c \in Coros, NEW o \in Calls, Refuse(c, o)
  PROVE  Safe'
<1> USE DEF IInv, Safe, Places, TypeOK, Refuse, Begin
<1>1. Caller' BY DEF Caller
<1>2. QueueOwned' BY DEF QueueOwned
<1>3. OneFree' BY DEF OneFree
<1>4. Slots' BY DEF Slots
<1>5. OneOwner' BY DEF OneOwner
<1>6. NoUseAfterFree' BY DEF NoUseAfterFree, InDrain
<1>7. NoLeak' BY DEF NoLeak
<1>8. Waits' /\ OneQueue' BY Bystanders
<1> QED BY <1>1, <1>2, <1>3, <1>4, <1>5, <1>6, <1>7, <1>8

\* The slot is empty.
LEMMA CreateStep ==
  ASSUME IInv, NEW c \in Coros, NEW s \in Serials, Create(c, s)
  PROVE  Safe'
<1> USE DEF IInv, Safe, Places, TypeOK, Create, Begin
<1>0. TypeOK /\ OneOwner /\ Caller OBVIOUS
<1>1. Caller' BY DEF Caller
<1>2. QueueOwned' BY DEF QueueOwned
<1>3. OneFree' BY DEF OneFree
<1>4. Slots' BY DEF Slots
<1>5. OneOwner'
  <2>1. current[s] = Nil /\ at[c] # "in" BY DEF Slots
  <2>2. Holds(c, s, 1) BY DEF Holds
  <2> HIDE DEF IInv, Safe, Places, TypeOK, Create, Begin
  <2> QED BY <1>0, <2>1, <2>2, OwnerHolds
<1>6. NoUseAfterFree' BY DEF NoUseAfterFree, InDrain
<1>7. NoLeak' BY DEF NoLeak, Slots
<1>8. Waits' /\ OneQueue' BY Bystanders
<1> QED BY <1>1, <1>2, <1>3, <1>4, <1>5, <1>6, <1>7, <1>8

\* One level in.
LEMMA NestStep ==
  ASSUME IInv, NEW c \in Coros, NEW o \in Calls, Nest(c, o)
  PROVE  Safe'
<1> USE DEF IInv, Safe, Places, TypeOK, Nest
<1>0. TypeOK /\ OneOwner /\ Caller OBVIOUS
<1>1. Caller' BY DEF Caller
<1>2. QueueOwned' BY DEF QueueOwned
<1>3. OneFree' BY DEF OneFree
<1>4. Slots' BY DEF Slots
<1>5. OneOwner'
  <2>1. /\ held[c] \in Serials /\ current[held[c]] = c /\ depth[c] \in Nat
        /\ ref[held[c]] = depth[c] /\ at[c] = "in"
    BY DEF OneOwner, Caller
  <2>2. Holds(c, held[c], depth[c] + 1) BY <2>1 DEF Holds
  <2>3. depth[c] + 1 \in Nat /\ depth[c] + 1 > 0 BY <2>1
  <2> HIDE DEF IInv, Safe, Places, TypeOK, Nest
  <2> QED BY <1>0, <2>1, <2>2, <2>3, OwnerHolds
<1>6. NoUseAfterFree' BY DEF NoUseAfterFree, InDrain
<1>7. NoLeak' BY DEF NoLeak
<1>8. Waits' /\ OneQueue' BY Bystanders
<1> QED BY <1>1, <1>2, <1>3, <1>4, <1>5, <1>6, <1>7, <1>8

\* One level out.
LEMMA LeaveInnerStep ==
  ASSUME IInv, NEW c \in Coros, LeaveInner(c)
  PROVE  Safe'
<1> USE DEF IInv, Safe, Places, TypeOK, LeaveInner
<1>0. TypeOK /\ OneOwner /\ Caller OBVIOUS
<1>1. Caller' BY DEF Caller
<1>2. QueueOwned' BY DEF QueueOwned
<1>3. OneFree' BY DEF OneFree
<1>4. Slots' BY DEF Slots
<1>5. OneOwner'
  <2>1. /\ held[c] \in Serials /\ current[held[c]] = c /\ depth[c] \in Nat /\ depth[c] > 1
        /\ ref[held[c]] = depth[c] /\ at[c] = "in"
    BY DEF OneOwner, Caller
  <2>2. Holds(c, held[c], depth[c] - 1) BY <2>1 DEF Holds
  <2>3. depth[c] - 1 \in Nat /\ depth[c] - 1 > 0 BY <2>1
  <2> HIDE DEF IInv, Safe, Places, TypeOK, LeaveInner
  <2> QED BY <1>0, <2>1, <2>2, <2>3, OwnerHolds
<1>6. NoUseAfterFree' BY DEF NoUseAfterFree, InDrain
<1>7. NoLeak' BY DEF NoLeak
<1>8. Waits' /\ OneQueue' BY Bystanders
<1> QED BY <1>1, <1>2, <1>3, <1>4, <1>5, <1>6, <1>7, <1>8

\* The lock is held: the call joins the queue.
LEMMA QueueStep ==
  ASSUME IInv, NEW c \in Coros, NEW o \in Calls, Queue(c, o)
  PROVE  Safe'
<1> USE DEF IInv, Safe, Places
<1>1. /\ slot \in Serials /\ at[c] = "out" /\ at' = [at EXCEPT ![c] = "queued"]
      /\ held' = [held EXCEPT ![c] = slot] /\ ~closed[slot] /\ current[slot] # Nil
      /\ waiters' = [waiters EXCEPT ![slot] = Append(waiters[slot], c)]
      /\ UNCHANGED <<slot, mem, current, ref, depth, closed, draining, drain>>
  BY DEF Queue, Begin, TypeOK
<1>2. /\ \A s \in Serials : c \notin InSeq(waiters[s])
      /\ \A x \in Contexts : c \notin InSeq(drain[x].list)
  BY <1>1 DEF Waits
<1>3. /\ waiters[slot] \in Seq(Coros) /\ IsInjective(waiters[slot])
      /\ c \notin InSeq(waiters[slot])
  BY <1>1, <1>2 DEF TypeOK, Waits
<1>a. /\ waiters'[slot] = Append(waiters[slot], c)
      /\ \A s \in Serials : s # slot => waiters'[s] = waiters[s]
  BY <1>1 DEF TypeOK
<1>4. /\ waiters'[slot] # <<>> /\ IsInjective(waiters'[slot])
      /\ InSeq(waiters'[slot]) = InSeq(waiters[slot]) \cup {c}
      /\ \A s \in Serials : s # slot => waiters'[s] = waiters[s]
  BY <1>a, <1>3, AtTheEnd
<1>5. Caller' BY <1>1 DEF Caller, TypeOK
<1>6. Waits'
  <2>1. \A s \in Serials, d \in Coros :
          d \in InSeq(waiters'[s]) => at'[d] = "queued" /\ held'[d] = s
    BY <1>1, <1>2, <1>4 DEF Waits, TypeOK
  <2>2. \A x \in Contexts, d \in Coros :
          d \in InSeq(drain'[x].list) =>
            drain'[x].on # Nil /\ at'[d] = "queued" /\ held'[d] = drain'[x].on
    BY <1>1, <1>2 DEF Waits, TypeOK
  <2>3. \A s \in Serials : IsInjective(waiters'[s]) BY <1>4 DEF Waits
  <2> QED BY <2>1, <2>2, <2>3, <1>1 DEF Waits
<1>7. QueueOwned' BY <1>1, <1>4 DEF QueueOwned
<1>8. OneFree' /\ Slots' BY <1>1 DEF OneFree, Slots
<1>9. OneOwner' BY <1>1 DEF OneOwner, TypeOK
<1>10. NoUseAfterFree' /\ NoLeak' BY <1>1 DEF NoUseAfterFree, InDrain, NoLeak, TypeOK
<1>11. OneQueue'
  <2> SUFFICES ASSUME NEW d \in Coros, at'[d] = "queued"
               PROVE  OneQueue!(d)!2'
    BY DEF OneQueue
  <2>1. CASE d = c BY <2>1, <1>1, <1>2, <1>4 DEF TypeOK, OneQueue
  <2>2. CASE d # c
    <3>1. at[d] = "queued" /\ held'[d] = held[d] /\ held[d] \in Serials
      BY <2>2, <1>1 DEF TypeOK, Caller
    <3>2. d \in InSeq(waiters'[held[d]]) <=> d \in InSeq(waiters[held[d]])
      BY <2>2, <3>1, <1>4
    <3> QED BY <3>1, <3>2, <1>1 DEF OneQueue
  <2> QED BY <2>1, <2>2
<1> QED BY <1>5, <1>6, <1>7, <1>8, <1>9, <1>10, <1>11

\* Who holds a lock is not in its queue, and the first in the queue is nowhere else.
LEMMA FirstInQueue ==
  ASSUME TypeOK, Waits, OneQueue, NEW s \in Serials, waiters[s] # <<>>
  PROVE  LET w == Head(waiters[s]) IN
         /\ w \in Coros /\ at[w] = "queued" /\ held[w] = s
         /\ Tail(waiters[s]) \in Seq(Coros) /\ IsInjective(Tail(waiters[s]))
         /\ InSeq(waiters[s]) = InSeq(Tail(waiters[s])) \cup {w}
         /\ w \notin InSeq(Tail(waiters[s]))
         /\ \A r \in Serials : w \in InSeq(waiters[r]) => r = s
         /\ \A x \in Contexts : w \notin InSeq(drain[x].list)
<1> DEFINE w == Head(waiters[s])
<1>1. /\ w \in Coros /\ Tail(waiters[s]) \in Seq(Coros) /\ IsInjective(Tail(waiters[s]))
      /\ InSeq(waiters[s]) = InSeq(Tail(waiters[s])) \cup {w}
      /\ w \notin InSeq(Tail(waiters[s]))
  BY HeadTail DEF TypeOK, Waits
<1> HIDE DEF w
<1>2. at[w] = "queued" /\ held[w] = s BY <1>1 DEF Waits
<1>3. \A r \in Serials : w \in InSeq(waiters[r]) => r = s BY <1>1, <1>2 DEF Waits
<1>4. \A x \in Contexts : w \notin InSeq(drain[x].list) BY <1>1, <1>2 DEF OneQueue
<1> QED BY <1>1, <1>2, <1>3, <1>4 DEF w

\* The lock goes to the first in the queue.
LEMMA HandOverStep ==
  ASSUME IInv, NEW c \in Coros, HandOver(c)
  PROVE  Safe'
<1> USE DEF IInv, Safe, Places
<1> DEFINE s == held[c]
           w == Head(waiters[s])
<1>1. s \in Serials /\ at[c] = "in" /\ waiters[s] # <<>>
  BY DEF HandOver, Caller, TypeOK
<1>2. /\ w \in Coros /\ at[w] = "queued" /\ held[w] = s
      /\ IsInjective(Tail(waiters[s])) /\ w \notin InSeq(Tail(waiters[s]))
      /\ InSeq(waiters[s]) = InSeq(Tail(waiters[s])) \cup {w}
      /\ \A r \in Serials : w \in InSeq(waiters[r]) => r = s
      /\ \A x \in Contexts : w \notin InSeq(drain[x].list)
  BY <1>1, FirstInQueue
<1>3. /\ waiters' = [waiters EXCEPT ![s] = Tail(waiters[s])]
      /\ current' = [current EXCEPT ![s] = w] /\ ref' = [ref EXCEPT ![s] = 1]
      /\ depth' = [depth EXCEPT ![c] = 0, ![w] = 1]
      /\ at' = [at EXCEPT ![c] = "out", ![w] = "in"]
      /\ held' = [held EXCEPT ![c] = Nil]
      /\ UNCHANGED <<slot, mem, closed, draining, drain>>
  BY DEF HandOver
<1> HIDE DEF s, w
<1>4. /\ current[s] = c /\ ~closed[s] /\ current[s] # Nil /\ w # c /\ mem[s] = "live"
  BY <1>1, <1>2 DEF OneOwner, QueueOwned, NoUseAfterFree, s
<1>5. /\ waiters'[s] = Tail(waiters[s])
      /\ \A r \in Serials : r # s => waiters'[r] = waiters[r]
      /\ at'[c] = "out" /\ at'[w] = "in" /\ held'[w] = s
      /\ depth'[c] = 0 /\ depth'[w] = 1
      /\ \A d \in Coros : d # c /\ d # w => depth'[d] = depth[d]
      /\ current'[s] = w /\ ref'[s] = 1
      /\ \A r \in Serials : r # s => current'[r] = current[r] /\ ref'[r] = ref[r]
      /\ \A d \in Coros : d # c /\ d # w => at'[d] = at[d] /\ held'[d] = held[d]
      /\ \A d \in Coros : at'[d] = "queued" => d # c /\ d # w
  BY <1>1, <1>2, <1>3, <1>4 DEF TypeOK
<1>6. \A r \in Serials, d \in Coros :
        d \in InSeq(waiters'[r]) <=> d # w /\ d \in InSeq(waiters[r])
  BY <1>2, <1>5
<1>7. Caller' BY <1>1, <1>5 DEF Caller
<1>8. \A r \in Serials, d \in Coros : d \in InSeq(waiters[r]) => d # c
  BY <1>1 DEF Waits
<1>9. \A x \in Contexts, d \in Coros : d \in InSeq(drain[x].list) => d # c /\ d # w
  BY <1>1, <1>2 DEF Waits
<1>10. Waits'
  <2>1. \A r \in Serials, d \in Coros :
          d \in InSeq(waiters'[r]) => at'[d] = "queued" /\ held'[d] = r
    BY <1>5, <1>6, <1>8 DEF Waits
  <2>2. \A x \in Contexts, d \in Coros :
          d \in InSeq(drain'[x].list) =>
            drain'[x].on # Nil /\ at'[d] = "queued" /\ held'[d] = drain'[x].on
    <3>1. drain' = drain BY <1>3
    <3> QED BY <3>1, <1>5, <1>9 DEF Waits
  <2>3. \A r \in Serials : IsInjective(waiters'[r]) BY <1>2, <1>5 DEF Waits
  <2> QED BY <2>1, <2>2, <2>3, <1>3 DEF Waits
<1>11. QueueOwned' BY <1>2, <1>3, <1>4, <1>5 DEF QueueOwned, TypeOK
<1>12. OneFree' BY <1>3 DEF OneFree
<1>13. Slots' BY <1>3, <1>4 DEF Slots, TypeOK
<1>14. OneOwner'
  <2>1. \A d \in Coros : at'[d] = "in" <=> depth'[d] > 0
    BY <1>5 DEF OneOwner
  <2>2. \A d \in Coros : d # w /\ at'[d] = "in" =>
          /\ at[d] = "in" /\ held'[d] = held[d] /\ depth'[d] = depth[d]
          /\ held[d] \in Serials /\ held[d] # s
    BY <1>4, <1>5 DEF OneOwner, TypeOK, Caller
  <2>3. \A d \in Coros : at'[d] = "in" =>
          current'[held'[d]] = d /\ ref'[held'[d]] = depth'[d]
    BY <1>5, <2>2 DEF OneOwner
  <2>4. ASSUME NEW r \in Serials, r # s, current[r] # Nil
        PROVE  current[r] \in Coros /\ current[r] # c /\ current[r] # w
    <3>1. current[r] \in Coros BY <2>4 DEF TypeOK
    <3>2. at[current[r]] = "in" /\ held[current[r]] = r BY <2>4 DEF OneOwner
    <3> QED BY <3>1, <3>2, <2>4, <1>2 DEF s
  <2>5. \A r \in Serials : current'[r] # Nil =>
          at'[current'[r]] = "in" /\ held'[current'[r]] = r
    BY <1>5, <2>4 DEF OneOwner
  <2>6. \A r \in Serials : current'[r] = Nil => ref'[r] = 0
    BY <1>2, <1>5 DEF OneOwner
  <2> QED BY <2>1, <2>3, <2>5, <2>6 DEF OneOwner
<1>15. NoUseAfterFree'
  <2>1. slot' # Nil => mem'[slot'] = "live" BY <1>3 DEF NoUseAfterFree
  <2>2. ASSUME NEW d \in Coros, at'[d] \in {"in", "queued"}
        PROVE  mem'[held'[d]] = "live"
    <3>1. CASE d = w BY <3>1, <1>3, <1>4, <1>5
    <3>2. CASE d # w
      <4>1. at'[d] = at[d] /\ held'[d] = held[d] BY <2>2, <3>2, <1>5
      <4>2. mem[held[d]] = "live" BY <2>2, <4>1 DEF NoUseAfterFree
      <4> QED BY <4>1, <4>2, <1>3
    <3> QED BY <3>1, <3>2
  <2>3. \A x \in Contexts : drain'[x].on # Nil => mem'[drain'[x].on] = "live"
    BY <1>3 DEF NoUseAfterFree, InDrain
  <2> QED BY <2>1, <2>2, <2>3 DEF NoUseAfterFree, InDrain
<1>16. NoLeak' BY <1>3, <1>4 DEF NoLeak, TypeOK
<1>17. OneQueue'
  <2> SUFFICES ASSUME NEW d \in Coros, at'[d] = "queued"
               PROVE  OneQueue!(d)!2'
    BY DEF OneQueue
  <2>1. at[d] = "queued" /\ held'[d] = held[d] /\ held[d] \in Serials /\ d # w
    BY <1>5 DEF TypeOK, Caller
  <2>2. current[held[d]] # Nil => current'[held[d]] # Nil
    BY <1>2, <1>3, <2>1 DEF TypeOK
  <2> QED BY <2>1, <2>2, <1>3, <1>6 DEF OneQueue
<1> QED BY <1>7, <1>10, <1>11, <1>12, <1>13, <1>14, <1>15, <1>16, <1>17

\* Nobody waits: the lock is free, or its memory is.
LEMMA ReleaseStep ==
  ASSUME IInv, NEW c \in Coros, Release(c)
  PROVE  Safe'
<1> USE DEF IInv, Safe, Places
<1> DEFINE s == held[c]
<1>1. s \in Serials /\ at[c] = "in" /\ waiters[s] = <<>> /\ depth[c] = 1
  BY DEF Release, Caller, TypeOK
<1>2. /\ current' = [current EXCEPT ![s] = Nil] /\ ref' = [ref EXCEPT ![s] = ref[s] - 1]
      /\ depth' = [depth EXCEPT ![c] = 0]
      /\ mem' = IF closed[s] /\ ~draining[s] THEN [mem EXCEPT ![s] = "freed"] ELSE mem
      /\ at' = [at EXCEPT ![c] = "out"] /\ held' = [held EXCEPT ![c] = Nil]
      /\ UNCHANGED <<slot, closed, draining, waiters, drain>>
  BY DEF Release, Return
<1> HIDE DEF s
<1>3. current[s] = c /\ ref[s] = 1 /\ mem[s] = "live"
  BY <1>1 DEF OneOwner, NoUseAfterFree, s
<1>4. /\ at'[c] = "out" /\ depth'[c] = 0
      /\ \A d \in Coros : d # c =>
           at'[d] = at[d] /\ held'[d] = held[d] /\ depth'[d] = depth[d]
      /\ current'[s] = Nil /\ ref'[s] = 0
      /\ \A r \in Serials : r # s =>
           current'[r] = current[r] /\ ref'[r] = ref[r] /\ mem'[r] = mem[r]
      /\ mem'[s] # "new" /\ (mem'[s] = "live" <=> (closed[s] => draining[s]))
  BY <1>1, <1>2, <1>3 DEF TypeOK
<1>5. \A d \in Coros : d # c /\ at[d] = "in" => held[d] \in Serials /\ held[d] # s
  BY <1>3 DEF OneOwner, Caller, TypeOK
<1>6. Caller' BY <1>4 DEF Caller
<1>7. QueueOwned' BY <1>1, <1>2, <1>4 DEF QueueOwned
<1>8. OneFree' BY <1>2 DEF OneFree
<1>9. Slots' BY <1>2, <1>4 DEF Slots
<1>10. OneOwner'
  <2>1. \A d \in Coros : at'[d] = "in" <=> depth'[d] > 0 BY <1>4 DEF OneOwner
  <2>2. \A d \in Coros : at'[d] = "in" =>
          current'[held'[d]] = d /\ ref'[held'[d]] = depth'[d]
    BY <1>4, <1>5 DEF OneOwner
  <2>3. \A r \in Serials : current'[r] # Nil =>
          at'[current'[r]] = "in" /\ held'[current'[r]] = r
    <3>1. \A r \in Serials : r # s /\ current[r] # Nil => current[r] \in Coros \ {c}
      BY <1>1 DEF OneOwner, TypeOK, s
    <3> QED BY <1>4, <3>1 DEF OneOwner
  <2>4. \A r \in Serials : current'[r] = Nil => ref'[r] = 0 BY <1>4 DEF OneOwner
  <2> QED BY <2>1, <2>2, <2>3, <2>4 DEF OneOwner
<1>11. NoUseAfterFree'
  <2>1. closed[s] /\ ~draining[s] =>
          slot # s /\ \A x \in Contexts : drain[x].on # s
    BY <1>1 DEF Slots, OneFree
  <2>2. \A d \in Coros : at[d] = "queued" /\ closed[s] /\ ~draining[s] => held[d] # s
    BY <1>1, <2>1, Queued DEF OneQueue
  <2>3. \A r \in Serials : mem[r] = "live" /\ (r = s => ~(closed[s] /\ ~draining[s])) =>
          mem'[r] = "live"
    BY <1>3, <1>4
  <2>4. slot' # Nil => mem'[slot'] = "live"
    BY <1>2, <2>1, <2>3 DEF NoUseAfterFree, TypeOK
  <2>5. \A d \in Coros : at'[d] \in {"in", "queued"} => mem'[held'[d]] = "live"
    <3>1. \A d \in Coros : at'[d] \in {"in", "queued"} =>
            /\ d # c /\ at[d] \in {"in", "queued"} /\ held'[d] = held[d]
            /\ held[d] \in Serials /\ mem[held[d]] = "live"
      BY <1>4 DEF NoUseAfterFree, Caller, TypeOK
    <3> QED BY <1>5, <2>2, <2>3, <3>1
  <2>6. \A x \in Contexts : drain'[x].on # Nil => mem'[drain'[x].on] = "live"
    BY <1>2, <2>1, <2>3 DEF NoUseAfterFree, InDrain, TypeOK
  <2> QED BY <2>4, <2>5, <2>6 DEF NoUseAfterFree, InDrain
<1>12. NoLeak' BY <1>2, <1>4 DEF NoLeak
<1>13. Waits' /\ OneQueue'
  <2>1. \A d \in Coros : at[d] = "queued" \/ at'[d] = "queued" =>
          at'[d] = at[d] /\ held'[d] = held[d]
    BY <1>1, <1>4
  <2>2. \A r \in Serials : waiters[r] # <<>> /\ current[r] # Nil => current'[r] # Nil
    BY <1>1, <1>4
  <2> QED BY <1>2, <2>1, <2>2, Bystanders
<1> QED BY <1>6, <1>7, <1>8, <1>9, <1>10, <1>11, <1>12, <1>13

\* The free begins: the queue moves to it as a whole.
LEMMA CloseStep ==
  ASSUME IInv, NEW x \in Contexts, NEW s \in Serials, Runs(x), slot = s, ~closed[s],
         Close(x, s)
  PROVE  Safe'
<1> USE DEF IInv, Safe, Places
<1>1. /\ closed' = [closed EXCEPT ![s] = TRUE] /\ draining' = [draining EXCEPT ![s] = TRUE]
      /\ drain' = [drain EXCEPT ![x] = [on |-> s, list |-> waiters[s]]]
      /\ waiters' = [waiters EXCEPT ![s] = <<>>]
      /\ UNCHANGED <<slot, mem, current, ref, depth, at, held>>
  BY DEF Close
<1>2. /\ drain'[x].on = s /\ drain'[x].list = waiters[s] /\ waiters'[s] = <<>>
      /\ \A y \in Contexts : y # x => drain'[y] = drain[y]
      /\ \A r \in Serials : r # s => waiters'[r] = waiters[r]
      /\ closed'[s] /\ draining'[s]
      /\ \A r \in Serials : r # s => closed'[r] = closed[r] /\ draining'[r] = draining[r]
  BY <1>1 DEF TypeOK
<1>3. drain[x].on = Nil BY DEF Runs, InDrain
<1>4. \A y \in Contexts : drain[y].on # s BY DEF OneFree
<1>5. InSeq(<<>>) = {} /\ IsInjective(<<>>) /\ s # Nil BY EmptyQueue DEF TypeOK
<1>6. Caller' BY <1>1 DEF Caller
<1>7. Waits'
  <2>1. \A r \in Serials, d \in Coros :
          d \in InSeq(waiters'[r]) => at'[d] = "queued" /\ held'[d] = r
    BY <1>1, <1>2, <1>5 DEF Waits
  <2>2. \A y \in Contexts, d \in Coros :
          d \in InSeq(drain'[y].list) =>
            drain'[y].on # Nil /\ at'[d] = "queued" /\ held'[d] = drain'[y].on
    BY <1>1, <1>2, <1>5 DEF Waits
  <2>3. /\ \A r \in Serials : IsInjective(waiters'[r])
        /\ \A y \in Contexts : IsInjective(drain'[y].list)
    BY <1>2, <1>5 DEF Waits
  <2> QED BY <2>1, <2>2, <2>3 DEF Waits
<1>8. QueueOwned' BY <1>1, <1>2 DEF QueueOwned
<1>9. OneFree'
  <2>1. \A y \in Contexts : y # x /\ drain[y].on # Nil => drain[y].on \in Serials \ {s}
    BY <1>4 DEF TypeOK
  <2>2. \A y \in Contexts : drain'[y].on # Nil => draining'[drain'[y].on]
    BY <1>2, <2>1 DEF OneFree
  <2>3. \A y, z \in Contexts : drain'[y].on # Nil /\ drain'[y].on = drain'[z].on => y = z
    BY <1>2, <1>4 DEF OneFree
  <2>4. \A r \in Serials : draining'[r] => closed'[r] BY <1>2 DEF OneFree
  <2> QED BY <2>2, <2>3, <2>4 DEF OneFree
<1>10. mem[s] = "live" BY DEF NoUseAfterFree, TypeOK
<1>11. Slots' BY <1>1, <1>2, <1>10 DEF Slots
<1>12. OneOwner' BY <1>1 DEF OneOwner
<1>13. NoUseAfterFree' BY <1>1, <1>2, <1>10 DEF NoUseAfterFree, InDrain
<1>14. NoLeak' BY <1>1, <1>2 DEF NoLeak
<1>15. OneQueue'
  <2> SUFFICES ASSUME NEW d \in Coros, at'[d] = "queued"
               PROVE  OneQueue!(d)!2'
    BY DEF OneQueue
  <2>1. at[d] = "queued" /\ held' = held /\ current' = current /\ held[d] \in Serials
    BY <1>1 DEF TypeOK, Caller
  <2>2. \A y \in Contexts : drain[y].on = held[d] => y # x BY <2>1, <1>3
  <2>3. CASE held[d] = s
    BY <2>1, <2>3, <1>2, <1>4, <1>5 DEF OneQueue
  <2>4. CASE held[d] # s
    <3>1. d \notin InSeq(waiters[s]) BY <2>4 DEF Waits
    <3>2. waiters'[held[d]] = waiters[held[d]] BY <2>1, <2>4, <1>2
    <3> QED BY <2>1, <2>2, <3>1, <3>2, <1>2 DEF OneQueue
  <2> QED BY <2>3, <2>4
<1> QED BY <1>6, <1>7, <1>8, <1>9, <1>11, <1>12, <1>13, <1>14, <1>15

\* The first of those that a free still has to wake is nowhere else.
LEMMA FirstInDrain ==
  ASSUME TypeOK, Waits, OneFree, OneQueue, NEW x \in Contexts, drain[x].list # <<>>
  PROVE  LET w == Head(drain[x].list) IN
         /\ w \in Coros /\ at[w] = "queued" /\ held[w] = drain[x].on /\ held[w] # Nil
         /\ Tail(drain[x].list) \in Seq(Coros) /\ IsInjective(Tail(drain[x].list))
         /\ InSeq(drain[x].list) = InSeq(Tail(drain[x].list)) \cup {w}
         /\ w \notin InSeq(Tail(drain[x].list))
         /\ \A r \in Serials : w \notin InSeq(waiters[r])
         /\ \A y \in Contexts : w \in InSeq(drain[y].list) => y = x
<1> DEFINE w == Head(drain[x].list)
<1>1. drain[x].list \in Seq(Coros) /\ IsInjective(drain[x].list) BY DEF TypeOK, Waits
<1>2. /\ w \in Coros /\ Tail(drain[x].list) \in Seq(Coros) /\ IsInjective(Tail(drain[x].list))
      /\ InSeq(drain[x].list) = InSeq(Tail(drain[x].list)) \cup {w}
      /\ w \notin InSeq(Tail(drain[x].list))
  BY <1>1, HeadTail
<1> HIDE DEF w
<1>3. at[w] = "queued" /\ held[w] = drain[x].on /\ drain[x].on # Nil BY <1>2 DEF Waits
<1>4. \A r \in Serials : w \notin InSeq(waiters[r]) BY <1>2, <1>3 DEF OneQueue, Waits
<1>5. \A y \in Contexts : w \in InSeq(drain[y].list) => y = x
  BY <1>2, <1>3 DEF Waits, OneFree
<1> QED BY <1>2, <1>3, <1>4, <1>5 DEF w

\* A waiter wakes, and finds that it was not given the lock.
LEMMA DrainNextStep ==
  ASSUME IInv, NEW x \in Contexts, DrainNext(x)
  PROVE  Safe'
<1> USE DEF IInv, Safe, Places
<1> DEFINE w == Head(drain[x].list)
<1>1. drain[x].list # <<>> BY DEF DrainNext
<1>2. /\ w \in Coros /\ at[w] = "queued" /\ held[w] # Nil
      /\ IsInjective(Tail(drain[x].list)) /\ w \notin InSeq(Tail(drain[x].list))
      /\ InSeq(drain[x].list) = InSeq(Tail(drain[x].list)) \cup {w}
      /\ \A r \in Serials : w \notin InSeq(waiters[r])
      /\ \A y \in Contexts : w \in InSeq(drain[y].list) => y = x
  BY <1>1, FirstInDrain
<1>3. /\ drain' = [drain EXCEPT ![x].list = Tail(drain[x].list)]
      /\ at' = [at EXCEPT ![w] = "failed"]
      /\ UNCHANGED <<slot, mem, current, ref, depth, closed, draining, waiters, held>>
  BY DEF DrainNext
<1> HIDE DEF w
<1>4. /\ drain'[x].list = Tail(drain[x].list)
      /\ \A y \in Contexts : y # x => drain'[y].list = drain[y].list
      /\ \A y \in Contexts : drain'[y].on = drain[y].on
      /\ at'[w] = "failed" /\ \A d \in Coros : d # w => at'[d] = at[d]
  BY <1>2, <1>3 DEF TypeOK
<1>5. \A y \in Contexts, d \in Coros :
        d \in InSeq(drain'[y].list) <=> d # w /\ d \in InSeq(drain[y].list)
  BY <1>2, <1>4
<1>6. Caller' BY <1>2, <1>3, <1>4 DEF Caller
<1>7. Waits'
  <2>1. \A r \in Serials, d \in Coros :
          d \in InSeq(waiters'[r]) => at'[d] = "queued" /\ held'[d] = r
    BY <1>2, <1>3, <1>4 DEF Waits
  <2>2. \A y \in Contexts, d \in Coros :
          d \in InSeq(drain'[y].list) =>
            drain'[y].on # Nil /\ at'[d] = "queued" /\ held'[d] = drain'[y].on
    BY <1>3, <1>4, <1>5 DEF Waits
  <2>3. /\ \A r \in Serials : IsInjective(waiters'[r])
        /\ \A y \in Contexts : IsInjective(drain'[y].list)
    BY <1>2, <1>3, <1>4 DEF Waits
  <2> QED BY <2>1, <2>2, <2>3 DEF Waits
<1>8. QueueOwned' /\ Slots' BY <1>3 DEF QueueOwned, Slots
<1>9. OneFree' BY <1>3, <1>4 DEF OneFree
<1>10. OneOwner'
  <2>1. \A d \in Coros : /\ at'[d] = "in" <=> at[d] = "in"
                         /\ at[d] = "in" => held'[d] = held[d]
    BY <1>2, <1>3, <1>4
  <2> QED BY <2>1, <1>3, OwnerKept
<1>11. NoUseAfterFree' BY <1>3, <1>4 DEF NoUseAfterFree, InDrain
<1>12. NoLeak' BY <1>3 DEF NoLeak
<1>13. OneQueue'
  <2> SUFFICES ASSUME NEW d \in Coros, at'[d] = "queued"
               PROVE  OneQueue!(d)!2'
    BY DEF OneQueue
  <2>1. at[d] = "queued" /\ d # w BY <1>2, <1>4
  <2> QED BY <2>1, <1>3, <1>4, <1>5 DEF OneQueue
<1> QED BY <1>6, <1>7, <1>8, <1>9, <1>10, <1>11, <1>12, <1>13

\* All are awake: the lock is freed, now or by its owner.
LEMMA DrainEndStep ==
  ASSUME IInv, NEW x \in Contexts, DrainEnd(x)
  PROVE  Safe'
<1> USE DEF IInv, Safe, Places
<1> DEFINE s == drain[x].on
<1>1. s \in Serials /\ s # Nil /\ drain[x].list = <<>> /\ draining[s] /\ closed[s]
  BY DEF DrainEnd, InDrain, TypeOK, OneFree
<1>2. /\ drain' = [drain EXCEPT ![x] = NoDrain]
      /\ draining' = [draining EXCEPT ![s] = FALSE]
      /\ mem' = IF current[s] = Nil THEN [mem EXCEPT ![s] = "freed"] ELSE mem
      /\ slot' = IF slot = s THEN Nil ELSE slot
      /\ UNCHANGED <<current, ref, depth, closed, waiters>>
  BY DEF DrainEnd
<1>3. OnlyReturns
  <2>1. CASE x \in Coros BY <2>1, DiscardedReturns DEF DrainEnd
  <2>2. CASE x \notin Coros BY <2>2 DEF DrainEnd, OnlyReturns
  <2> QED BY <2>1, <2>2
<1> HIDE DEF s
<1>4. /\ drain'[x].on = Nil /\ drain'[x].list = <<>>
      /\ \A y \in Contexts : y # x => drain'[y] = drain[y] /\ drain[y].on # s
      /\ ~draining'[s] /\ \A r \in Serials : r # s => draining'[r] = draining[r]
      /\ \A r \in Serials : r # s => mem'[r] = mem[r]
      /\ mem[s] = "live" /\ mem'[s] # "new" /\ (mem'[s] = "live" <=> current[s] # Nil)
  <2>1. mem[s] = "live" BY <1>1 DEF NoUseAfterFree, InDrain, s
  <2>2. \A y \in Contexts : y # x => drain[y].on # s BY <1>1 DEF OneFree, s
  <2> QED BY <1>1, <1>2, <2>1, <2>2 DEF TypeOK, NoDrain
<1>5. Caller' BY <1>3 DEF Caller, OnlyReturns
<1>6. QueueOwned' BY <1>2 DEF QueueOwned
<1>7. OneFree'
  <2>1. \A y \in Contexts : drain'[y].on # Nil =>
          y # x /\ drain'[y].on = drain[y].on /\ drain[y].on \in Serials \ {s}
    <3>1. \A y \in Contexts : drain[y].on \in Serials \cup {Nil} BY DEF TypeOK
    <3> QED BY <1>4, <3>1
  <2>2. \A r \in Serials : draining'[r] => r # s /\ draining[r] BY <1>4
  <2>3. \A y \in Contexts : drain'[y].on # Nil => draining'[drain'[y].on]
    BY <2>1, <1>4 DEF OneFree
  <2>4. \A y, z \in Contexts : drain'[y].on # Nil /\ drain'[y].on = drain'[z].on => y = z
    BY <2>1 DEF OneFree
  <2>5. \A r \in Serials : draining'[r] => closed'[r] BY <2>2, <1>2 DEF OneFree
  <2> QED BY <2>3, <2>4, <2>5 DEF OneFree
<1>8. Slots' BY <1>1, <1>2, <1>4 DEF Slots
<1>9. OneOwner'
  <2>1. \A d \in Coros : /\ at'[d] = "in" <=> at[d] = "in"
                         /\ at[d] = "in" => held'[d] = held[d]
    BY <1>3 DEF OnlyReturns
  <2> QED BY <1>2, <2>1, OwnerKept
<1>10. \A d \in Coros : at[d] = "queued" /\ held[d] = s => current[s] # Nil
  <2> SUFFICES ASSUME NEW d \in Coros, at[d] = "queued", held[d] = s
               PROVE  current[s] # Nil
    OBVIOUS
  <2>1. InSeq(drain[x].list) = {} BY <1>1, Queued
  <2> QED BY <2>1, <1>4 DEF OneQueue
<1>11. NoUseAfterFree'
  <2>1. slot' # Nil => mem'[slot'] = "live"
    BY <1>2, <1>4 DEF NoUseAfterFree, TypeOK
  <2>2. \A d \in Coros : at'[d] \in {"in", "queued"} =>
          at[d] \in {"in", "queued"} /\ held'[d] = held[d] /\ held[d] \in Serials
    BY <1>3 DEF OnlyReturns, Caller, TypeOK
  <2>3. \A d \in Coros : at[d] = "in" /\ held[d] = s => current[s] # Nil
    BY DEF OneOwner
  <2>4. \A d \in Coros : at'[d] \in {"in", "queued"} => mem'[held'[d]] = "live"
    BY <1>4, <1>10, <2>2, <2>3 DEF NoUseAfterFree
  <2>5. \A y \in Contexts : drain'[y].on # Nil => mem'[drain'[y].on] = "live"
    <3>1. \A y \in Contexts : drain'[y].on # Nil =>
            drain'[y].on = drain[y].on /\ drain[y].on \in Serials \ {s}
      <4>1. \A y \in Contexts : drain[y].on \in Serials \cup {Nil} BY DEF TypeOK
      <4> QED BY <1>4, <4>1
    <3> QED BY <1>4, <3>1 DEF NoUseAfterFree, InDrain
  <2> QED BY <2>1, <2>4, <2>5 DEF NoUseAfterFree, InDrain
<1>12. NoLeak' BY <1>1, <1>2, <1>4 DEF NoLeak
<1>13. Waits' /\ OneQueue'
  <2>1. \A d \in Coros : at[d] = "queued" \/ at'[d] = "queued" =>
          at'[d] = at[d] /\ held'[d] = held[d]
    BY <1>3 DEF OnlyReturns
  <2>2. \A y \in Contexts : /\ drain'[y].list = drain[y].list
                            /\ drain[y].list # <<>> => drain'[y].on = drain[y].on
    BY <1>1, <1>4
  <2> QED BY <1>2, <2>1, <2>2, Bystanders
<1> QED BY <1>5, <1>6, <1>7, <1>8, <1>9, <1>11, <1>12, <1>13

-----------------------------------------------------------------------------
(* Types *)

\* A resume or a yield leaves the dispatcher at the bottom of the stack.
LEMMA StackSteps ==
  ASSUME TypeOK, Bottom
  PROVE  /\ \A c \in Coros : Resume(c) =>
               run' \in Seq(Contexts) /\ run' # <<>> /\ run'[1] = Main
         /\ \A c \in Coros : Top = c /\ Yield =>
               run' \in Seq(Contexts) /\ run' # <<>> /\ run'[1] = Main
<1>1. ASSUME NEW c \in Coros, Resume(c)
      PROVE  run' \in Seq(Contexts) /\ run' # <<>> /\ run'[1] = Main
  BY <1>1 DEF TypeOK, Bottom, Resume
<1>2. ASSUME NEW c \in Coros, Top = c, Yield
      PROVE  run' \in Seq(Contexts) /\ run' # <<>> /\ run'[1] = Main
  <2>1. run \in Seq(Contexts) /\ Len(run) \in Nat /\ Len(run) # 0 BY DEF TypeOK
  <2>2. Len(run) # 1 BY <1>2, <2>1 DEF Top, Last, Bottom
  <2> DEFINE n == Len(run) - 1
  <2>3. run' = SubSeq(run, 1, n) BY <1>2 DEF Yield, Front
  <2>4. n \in Nat /\ n >= 1
    <3>1. \A k \in Nat : k # 0 /\ k # 1 => k - 1 \in Nat /\ k - 1 >= 1 OBVIOUS
    <3> QED BY <2>1, <2>2, <3>1
  <2>a. \A i \in 1 .. n : run[i] \in Contexts BY <2>1
  <2> HIDE DEF n
  <2>5. /\ run' \in Seq(Contexts) /\ Len(run') = IF 1 <= n THEN n - 1 + 1 ELSE 0
        /\ \A i \in 1 .. n - 1 + 1 : run'[i] = run[1 + i - 1]
    BY <2>3, <2>4, <2>a, SubSeqProperties
  <2>6. 1 \in 1 .. n - 1 + 1 /\ 1 + 1 - 1 = 1 /\ n - 1 + 1 = n BY <2>4
  <2>7. run'[1] = run[1 + 1 - 1] BY <2>5, <2>6
  <2> QED BY <2>4, <2>5, <2>6, <2>7 DEF Bottom
<1> QED BY <1>1, <1>2

\* Every step keeps every variable in its type.
LEMMA TypeStep ==
  ASSUME IInv, [Next]_vars
  PROVE  TypeOK' /\ Bottom'
<1> DEFINE Framed == run \in Seq(Contexts) /\ run # <<>> /\ run[1] = Main
<1>0. /\ \A c \in Coros : Resume(c) => Framed'
      /\ \A c \in Coros : Top = c /\ Yield => Framed'
  BY StackSteps DEF IInv
<1>a. TypeOK /\ Bottom BY DEF IInv
<1>b. Caller /\ Waits /\ OneFree /\ OneOwner /\ OneQueue BY DEF IInv, Safe, Places
<1>1. ASSUME NEW x \in Contexts, NEW c \in Coros, Spawn(x, c) PROVE TypeOK' /\ Bottom'
  <2>1. Framed' BY <1>0, <1>1 DEF Spawn
  <2>2. /\ uses' = [uses EXCEPT ![c] = uses[c] + 1]
        /\ UNCHANGED <<slot, mem, lock, flags, waiters, call, at, held, drain>>
    BY <1>1 DEF Spawn
  <2> QED BY <1>a, <2>1, <2>2 DEF TypeOK, Bottom
<1>2. ASSUME NEW c \in Coros, NEW o \in Calls, Refuse(c, o) PROVE TypeOK' /\ Bottom'
  <2>1. /\ call' = [call EXCEPT ![c] = o] /\ held' = [held EXCEPT ![c] = slot] /\ slot # Nil
        /\ at' = [at EXCEPT ![c] = "failed"] /\ uses' = [uses EXCEPT ![c] = uses[c] + 1]
        /\ UNCHANGED <<run, slot, mem, lock, flags, waiters, drain>>
    BY <1>2 DEF Refuse, Begin
  <2>2. /\ call' \in [Coros -> Calls] /\ held' \in [Coros -> Serials \cup {Nil}]
        /\ at' \in [Coros -> {"out", "queued", "in", "failed"}] /\ uses' \in [Coros -> Nat]
    BY <1>a, <2>1 DEF TypeOK
  <2> QED BY <1>a, <2>1, <2>2 DEF TypeOK, Bottom
<1>3. ASSUME NEW c \in Coros, NEW o \in Calls, Take(c, o) PROVE TypeOK' /\ Bottom'
  <2>1. /\ call' = [call EXCEPT ![c] = o] /\ held' = [held EXCEPT ![c] = slot] /\ slot # Nil
        /\ at' = [at EXCEPT ![c] = "in"] /\ uses' = [uses EXCEPT ![c] = uses[c] + 1]
        /\ current' = [current EXCEPT ![slot] = c] /\ ref' = [ref EXCEPT ![slot] = ref[slot] + 1]
        /\ depth' = [depth EXCEPT ![c] = 1]
        /\ UNCHANGED <<run, slot, mem, flags, waiters, drain>>
    BY <1>3 DEF Take, Begin
  <2>2. /\ current' \in [Serials -> Coros \cup {Nil}] /\ ref' \in [Serials -> Nat]
        /\ depth' \in [Coros -> Nat]
    BY <1>a, <2>1 DEF TypeOK
  <2>3. /\ call' \in [Coros -> Calls] /\ held' \in [Coros -> Serials \cup {Nil}]
        /\ at' \in [Coros -> {"out", "queued", "in", "failed"}] /\ uses' \in [Coros -> Nat]
    BY <1>a, <2>1 DEF TypeOK
  <2> QED BY <1>a, <2>1, <2>2, <2>3 DEF TypeOK, Bottom
<1>4. ASSUME NEW c \in Coros, NEW o \in Calls, Queue(c, o) PROVE TypeOK' /\ Bottom'
  <2>1. Framed' BY <1>0, <1>4 DEF Queue, Begin, Runs
  <2>2. waiters' \in [Serials -> Seq(Coros)] BY <1>a, <1>4 DEF Queue, TypeOK
  <2>3. /\ slot # Nil /\ call' = [call EXCEPT ![c] = o] /\ held' = [held EXCEPT ![c] = slot]
        /\ at' = [at EXCEPT ![c] = "queued"] /\ uses' = [uses EXCEPT ![c] = uses[c] + 1]
        /\ UNCHANGED <<slot, mem, lock, flags, drain>>
    BY <1>4 DEF Queue, Begin
  <2>4. /\ call' \in [Coros -> Calls] /\ held' \in [Coros -> Serials \cup {Nil}]
        /\ at' \in [Coros -> {"out", "queued", "in", "failed"}] /\ uses' \in [Coros -> Nat]
    BY <1>a, <2>3 DEF TypeOK
  <2>5. UNCHANGED <<slot, mem, current, ref, depth, closed, draining, drain>> BY <2>3
  <2> QED BY <1>a, <2>1, <2>2, <2>4, <2>5 DEF TypeOK, Bottom
<1>5. ASSUME NEW c \in Coros, NEW o \in Calls, Nest(c, o) PROVE TypeOK' /\ Bottom'
  <2>1. held[c] \in Serials BY <1>a, <1>b, <1>5 DEF Nest, Caller, TypeOK
  <2>2. /\ call' = [call EXCEPT ![c] = IF call[c] = "connect" THEN call[c] ELSE o]
        /\ uses' = [uses EXCEPT ![c] = uses[c] + 1]
        /\ ref' = [ref EXCEPT ![held[c]] = ref[held[c]] + 1]
        /\ depth' = [depth EXCEPT ![c] = depth[c] + 1]
        /\ UNCHANGED <<run, slot, mem, current, flags, waiters, at, held, drain>>
    BY <1>5 DEF Nest
  <2>3. ref' \in [Serials -> Nat] /\ depth' \in [Coros -> Nat] /\ uses' \in [Coros -> Nat]
    BY <1>a, <2>1, <2>2 DEF TypeOK
  <2>4. (IF call[c] = "connect" THEN call[c] ELSE o) \in Calls BY <1>a DEF TypeOK
  <2>5. call' \in [Coros -> Calls] BY <1>a, <2>2, <2>4 DEF TypeOK
  <2> QED BY <1>a, <2>2, <2>3, <2>5 DEF TypeOK, Bottom
<1>6. ASSUME NEW c \in Coros, NEW s \in Serials, Create(c, s) PROVE TypeOK' /\ Bottom'
  BY <1>a, <1>6 DEF Create, Begin, Calls, TypeOK, Bottom
<1>7. ASSUME NEW c \in Coros, Suspend(c) PROVE TypeOK' /\ Bottom'
  <2>1. Framed' BY <1>0, <1>7 DEF Suspend, Runs
  <2>2. /\ uses' = [uses EXCEPT ![c] = uses[c] + 1]
        /\ UNCHANGED <<slot, mem, lock, flags, waiters, call, at, held, drain>>
    BY <1>7 DEF Suspend
  <2> QED BY <1>a, <2>1, <2>2 DEF TypeOK, Bottom
<1>8. ASSUME NEW c \in Coros, LeaveInner(c) PROVE TypeOK' /\ Bottom'
  <2>1. ref[held[c]] - 1 \in Nat /\ depth[c] - 1 \in Nat
    BY <1>a, <1>b, <1>8 DEF LeaveInner, OneOwner, TypeOK
  <2> QED BY <1>a, <1>8, <2>1 DEF LeaveInner, TypeOK, Bottom
<1>9. ASSUME NEW c \in Coros, Release(c) PROVE TypeOK' /\ Bottom'
  <2>1. ref[held[c]] - 1 \in Nat
    BY <1>b, <1>9 DEF Release, OneOwner
  <2> QED BY <1>a, <1>9, <2>1 DEF Release, Return, Calls, TypeOK, Bottom
<1>10. ASSUME NEW c \in Coros, HandOver(c) PROVE TypeOK' /\ Bottom'
  <2>1. Head(waiters[held[c]]) \in Coros /\ Tail(waiters[held[c]]) \in Seq(Coros)
    BY <1>a, <1>b, <1>10, FirstInQueue DEF HandOver, Caller, TypeOK
  <2>2. Framed' BY <1>0, <1>10, <2>1 DEF HandOver
  <2>3. /\ waiters' \in [Serials -> Seq(Coros)] /\ current' \in [Serials -> Coros \cup {Nil}]
        /\ ref' \in [Serials -> Nat]
    BY <1>a, <1>10, <2>1 DEF HandOver, TypeOK
  <2>4. /\ depth' \in [Coros -> Nat] /\ held' \in [Coros -> Serials \cup {Nil}]
        /\ at' \in [Coros -> {"out", "queued", "in", "failed"}] /\ call' \in [Coros -> Calls]
    BY <1>a, <1>10, <2>1 DEF HandOver, Calls, TypeOK
  <2>5. UNCHANGED <<slot, mem, flags, drain, uses>> BY <1>10 DEF HandOver
  <2> QED BY <1>a, <2>2, <2>3, <2>4, <2>5 DEF TypeOK, Bottom
<1>11. ASSUME NEW c \in Coros, DiscardOther(c) \/ DiscardClosed(c) PROVE TypeOK' /\ Bottom'
  <2>1. slot' \in Serials \cup {Nil}
    BY <1>a, <1>11 DEF DiscardOther, DiscardClosed, TypeOK
  <2>2. UNCHANGED <<run, mem, lock, flags, waiters, drain, uses>>
    BY <1>11 DEF DiscardOther, DiscardClosed
  <2>3. Discarded(c) BY <1>11 DEF DiscardOther, DiscardClosed
  <2>4. /\ call' \in [Coros -> Calls] /\ held' \in [Coros -> Serials \cup {Nil}]
        /\ at' \in [Coros -> {"out", "queued", "in", "failed"}]
    BY <1>a, <2>3 DEF Discarded, Return, Calls, TypeOK
  <2> QED BY <1>a, <2>1, <2>2, <2>4 DEF TypeOK, Bottom
<1>12. ASSUME NEW x \in Contexts, Close(x, slot), slot # Nil PROVE TypeOK' /\ Bottom'
  BY <1>a, <1>12 DEF Close, TypeOK, Bottom
<1>13. ASSUME NEW c \in Coros, Fail(c) PROVE TypeOK' /\ Bottom'
  BY <1>a, <1>13 DEF Fail, Return, Calls, TypeOK, Bottom
<1>14. ASSUME NEW c \in Coros, Finish(c) PROVE TypeOK' /\ Bottom'
  <2>1. Framed' BY <1>0, <1>14 DEF Finish, Runs
  <2>2. UNCHANGED <<slot, mem, lock, flags, waiters, call, at, held, drain, uses>>
    BY <1>14 DEF Finish
  <2> QED BY <1>a, <2>1, <2>2 DEF TypeOK, Bottom
<1>15. ASSUME NEW x \in Contexts, DrainNext(x) PROVE TypeOK' /\ Bottom'
  <2>1. Head(drain[x].list) \in Coros /\ Tail(drain[x].list) \in Seq(Coros)
    BY <1>a, <1>b, <1>15, FirstInDrain DEF DrainNext
  <2>2. Framed' BY <1>0, <1>15, <2>1 DEF DrainNext
  <2>3. drain' \in [Contexts -> [on : Serials \cup {Nil}, list : Seq(Coros)]]
    <3> DEFINE rest == [drain[x] EXCEPT !.list = Tail(drain[x].list)]
    <3>1. drain \in [Contexts -> [on : Serials \cup {Nil}, list : Seq(Coros)]] BY <1>a DEF TypeOK
    <3>2. rest \in [on : Serials \cup {Nil}, list : Seq(Coros)] BY <2>1, <3>1
    <3>3. drain' = [drain EXCEPT ![x] = rest] BY <1>15, <3>1 DEF DrainNext
    <3> HIDE DEF rest
    <3> QED BY <3>1, <3>2, <3>3
  <2>4. at' \in [Coros -> {"out", "queued", "in", "failed"}]
    BY <1>a, <1>15, <2>1 DEF DrainNext, TypeOK
  <2>5. UNCHANGED <<slot, mem, lock, flags, waiters, call, held, uses>> BY <1>15 DEF DrainNext
  <2> QED BY <1>a, <2>2, <2>3, <2>4, <2>5 DEF TypeOK, Bottom
<1>16. ASSUME NEW x \in Contexts, DrainEnd(x) PROVE TypeOK' /\ Bottom'
  BY <1>a, <1>16 DEF DrainEnd, NoDrain, Discarded, Return, Calls, TypeOK, Bottom
<1>17. ASSUME NEW x \in Contexts, NEW c \in Coros, Answer(x, c) PROVE TypeOK' /\ Bottom'
  <2>1. Framed' BY <1>0, <1>17 DEF Answer
  <2>2. UNCHANGED <<slot, mem, lock, flags, waiters, call, at, held, drain, uses>>
    BY <1>17 DEF Answer
  <2> QED BY <1>a, <2>1, <2>2 DEF TypeOK, Bottom
<1>18. CASE /\ MainQuit /\ slot' = Nil
            /\ UNCHANGED <<run, mem, lock, flags, waiters, call, at, held, drain, uses>>
  BY <1>a, <1>18 DEF TypeOK, Bottom
<1>19. CASE UNCHANGED vars BY <1>a, <1>19 DEF vars, TypeOK, Bottom
<1>20. ASSUME NEW c \in Coros, Discard(c) PROVE TypeOK' /\ Bottom'
  BY <1>b, <1>12, <1>20 DEF Discard, Discards, Caller
<1>21. CASE MainQuit BY <1>12, <1>18, <1>21 DEF MainQuit
<1> QED
  BY <1>1, <1>2, <1>3, <1>4, <1>5, <1>6, <1>7, <1>8, <1>9, <1>10, <1>11, <1>13, <1>14, <1>15,
     <1>16, <1>17, <1>19, <1>20, <1>21 DEF Next, Enter, Leave, Free, Drain, Calls

-----------------------------------------------------------------------------
(* The invariant *)

\* Initially no call is under way.
LEMMA InitOK == Init => IInv
<1> SUFFICES ASSUME Init PROVE IInv
  OBVIOUS
<1> USE DEF Init
<1>1. InSeq(<<>>) = {} /\ IsInjective(<<>>) BY DEF InSeq, IsInjective
<1>2. TypeOK /\ Bottom BY DEF TypeOK, Bottom, NoDrain, Calls
<1>3. Caller /\ QueueOwned /\ OneFree /\ Slots
  BY DEF Caller, QueueOwned, OneFree, Slots, NoDrain
<1>4. Waits BY <1>1 DEF Waits, NoDrain
<1>5. OneOwner /\ NoLeak /\ OneQueue BY DEF OneOwner, NoLeak, OneQueue
<1>6. NoUseAfterFree BY DEF NoUseAfterFree, InDrain, NoDrain
<1> QED BY <1>2, <1>3, <1>4, <1>5, <1>6 DEF IInv, Safe, Places

\* Every step keeps the invariant: one case per action.
LEMMA StepOK == IInv /\ [Next]_vars => IInv'
<1> SUFFICES ASSUME IInv, [Next]_vars PROVE IInv'
  OBVIOUS
<1>1. TypeOK' /\ Bottom' BY TypeStep
<1>2. ASSUME UNCHANGED <<slot, mem, lock, flags, waiters, at, held, drain>>
      PROVE  Safe'
  BY <1>2, QuietStep DEF OnlyReturns
<1>3. ASSUME NEW c \in Coros, Suspend(c) \/ Finish(c) PROVE Safe'
  BY <1>2, <1>3 DEF Suspend, Finish
<1>4. ASSUME NEW c \in Coros, Enter(c) PROVE Safe'
  BY <1>4, TakeStep, RefuseStep, QueueStep, CreateStep, NestStep DEF Enter, Calls
<1>5. ASSUME NEW c \in Coros, Leave(c) PROVE Safe'
  BY <1>5, LeaveInnerStep, ReleaseStep, HandOverStep DEF Leave
<1>6. ASSUME NEW c \in Coros, Free(c) PROVE Safe'
  <2>1. CASE DiscardOther(c)
    BY <2>1, QuietStep, DiscardedReturns DEF DiscardOther, IInv
  <2>2. CASE DiscardClosed(c)
    <3>1. held[c] # Nil BY <1>6, <2>2 DEF DiscardClosed, Discards, IInv, Safe, Places, Caller
    <3> QED BY <2>2, <3>1, QuietStep, DiscardedReturns DEF DiscardClosed, IInv
  <2>3. CASE Discard(c)
    <3>1. slot \in Serials
      BY <2>3 DEF Discard, Discards, IInv, Safe, Places, Caller, TypeOK
    <3> QED BY <2>3, <3>1, CloseStep DEF Discard
  <2> QED BY <1>6, <2>1, <2>2, <2>3 DEF Free
<1>7. ASSUME NEW c \in Coros, Fail(c) PROVE Safe'
  BY <1>7, QuietStep, DiscardedReturns DEF Fail, IInv
<1>8. ASSUME NEW x \in Contexts, Drain(x) PROVE Safe'
  BY <1>8, DrainNextStep, DrainEndStep DEF Drain
<1>9. ASSUME NEW x \in Contexts, NEW c \in Coros, Spawn(x, c) \/ Answer(x, c) PROVE Safe'
  BY <1>2, <1>9 DEF Spawn, Answer
<1>10. ASSUME MainQuit PROVE Safe'
  <2>1. slot \in Serials BY <1>10 DEF MainQuit, IInv, TypeOK
  <2>2. CASE ~closed[slot] /\ Close(Main, slot)
    <3>1. Main \in Contexts /\ Runs(Main) BY <1>10 DEF MainQuit
    <3> QED BY <2>1, <2>2, <3>1, CloseStep
  <2>3. CASE closed[slot] /\ slot' = Nil
             /\ UNCHANGED <<run, mem, lock, flags, waiters, call, at, held, drain, uses>>
    <3>1. OnlyReturns BY <2>3 DEF OnlyReturns
    <3>2. slot # Nil BY <1>10 DEF MainQuit
    <3> QED BY <2>3, <3>1, <3>2, QuietStep
  <2> QED BY <1>10, <2>2, <2>3 DEF MainQuit
<1>11. ASSUME UNCHANGED vars PROVE Safe'
  <2>1. UNCHANGED <<slot, mem, lock, flags, waiters, at, held, drain>> BY <1>11 DEF vars
  <2> QED BY <1>2, <2>1
<1>12. Safe'
  BY <1>3, <1>4, <1>5, <1>6, <1>7, <1>8, <1>9, <1>10, <1>11 DEF Next
<1> QED BY <1>1, <1>12 DEF IInv

\* The inductive invariant holds in every reachable state.
LEMMA Inductive == Spec => []IInv
  BY InitOK, StepOK, PTL DEF Spec

\* Every variable of the lock stays in its type, for any number of coroutines
\* and locks.
THEOREM SerialTypesCorrect == Spec => []TypeOK
<1>1. IInv => TypeOK BY DEF IInv
<1> QED BY <1>1, Inductive, PTL

\* The lock has one owner, whose depth is its count (coro_serial_enter and _leave).
THEOREM OneOwnerCorrect == Spec => []OneOwner
<1>1. IInv => OneOwner BY DEF IInv, Safe
<1> QED BY <1>1, Inductive, PTL

\* Nobody touches a lock that coro_serial_free or the last leave has freed.
THEOREM NoUseAfterFreeCorrect == Spec => []NoUseAfterFree
<1>1. IInv => NoUseAfterFree BY DEF IInv, Safe
<1> QED BY <1>1, Inductive, PTL

\* A closed lock is kept only while somebody has still to free it: none leaks.
THEOREM NoLeakCorrect == Spec => []NoLeak
<1>1. IInv => NoLeak BY DEF IInv, Safe
<1> QED BY <1>1, Inductive, PTL

\* A waiting coroutine stands in one queue, and its wake is on its way.
THEOREM OneQueueCorrect == Spec => []OneQueue
<1>1. IInv => OneQueue BY DEF IInv, Safe
<1> QED BY <1>1, Inductive, PTL

\* Once coro_serial_free has closed the lock, nobody gets it any more.
THEOREM ClosedForGoodCorrect == Spec => ClosedForGood
<1>1. ASSUME IInv, [Next]_vars
      PROVE  [\A s \in Serials : closed[s] => current'[s] \in {current[s], Nil}]_vars
  <2> USE DEF IInv, Safe, Places
  <2>1. CASE current' = current BY <2>1
  <2>2. ASSUME NEW c \in Coros, NEW o \in Calls, Take(c, o)
        PROVE  \A s \in Serials : closed[s] => current'[s] \in {current[s], Nil}
    BY <1>1, <2>2 DEF Take, TypeOK
  <2>3. ASSUME NEW c \in Coros, NEW r \in Serials, Create(c, r)
        PROVE  \A s \in Serials : closed[s] => current'[s] \in {current[s], Nil}
    BY <1>1, <2>3 DEF Create, TypeOK, Slots
  <2>4. ASSUME NEW c \in Coros, Release(c)
        PROVE  \A s \in Serials : closed[s] => current'[s] \in {current[s], Nil}
    BY <1>1, <2>4 DEF Release, TypeOK
  <2>5. ASSUME NEW c \in Coros, HandOver(c)
        PROVE  \A s \in Serials : closed[s] => current'[s] \in {current[s], Nil}
    <3>1. held[c] \in Serials /\ waiters[held[c]] # <<>>
      BY <1>1, <2>5 DEF HandOver, Caller, TypeOK
    <3> QED BY <1>1, <2>5, <3>1 DEF HandOver, QueueOwned, TypeOK
  <2>6. \/ current' = current
        \/ \E c \in Coros : \/ \E o \in Calls : Take(c, o)
                            \/ \E s \in Serials : Create(c, s)
                            \/ Release(c) \/ HandOver(c)
    <3>1. CASE UNCHANGED vars BY <3>1 DEF vars
    <3>2. ASSUME NEW c \in Coros, Suspend(c) \/ Fail(c) \/ Finish(c)
          PROVE  current' = current
      BY <3>2 DEF Suspend, Fail, Finish
    <3>3. ASSUME NEW c \in Coros, NEW o \in Calls, Refuse(c, o) \/ Queue(c, o) \/ Nest(c, o)
          PROVE  current' = current
      BY <3>3 DEF Refuse, Queue, Nest
    <3>4. ASSUME NEW c \in Coros, LeaveInner(c) \/ Free(c) PROVE current' = current
      BY <3>4 DEF LeaveInner, Free, DiscardOther, DiscardClosed, Discard, Close
    <3>5. ASSUME NEW x \in Contexts, Drain(x) \/ \E c \in Coros : Spawn(x, c) \/ Answer(x, c)
          PROVE  current' = current
      BY <3>5 DEF Drain, DrainNext, DrainEnd, Spawn, Answer
    <3>6. MainQuit => current' = current BY DEF MainQuit, Close
    <3> QED BY <1>1, <3>1, <3>2, <3>3, <3>4, <3>5, <3>6 DEF Next, Enter, Leave, Calls
  <2> QED BY <2>1, <2>2, <2>3, <2>4, <2>5, <2>6
<1> QED BY <1>1, Inductive, PTL DEF Spec, ClosedForGood
=============================================================================
