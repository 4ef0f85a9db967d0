---------------------------- MODULE AtomicsProofs ----------------------------
(***************************************************************************)
(* Proofs about what is built from atomic variables: the distributed lock  *)
(* (RwLockDistr), for any number of threads and slots and any depth of     *)
(* nested read locks, and the ring Mpq (in Ring as R), for any number of   *)
(* producers, consumers and observers, any capacity and any width of the   *)
(* counters that the run does not turn over.                               *)
(*                                                                         *)
(* The ring.  Positions are counted from a turn before the first, Ofs, so  *)
(* that they can be compared although their words wrap.  Each slot is, in  *)
(* its turn, claimed, published or given back, and its sequence number     *)
(* says which; every claim is one producer's and every published cell that *)
(* is being taken one consumer's.  What is counted, Pushed and Gone, then  *)
(* tells how long the queue is, and each position what is in it.           *)
(***************************************************************************)
EXTENDS RwLockDistr, Ring, FiniteSetTheorems, SequenceTheorems, TLAPS

-----------------------------------------------------------------------------
(* The distributed lock *)

\* A thread's slot is given to it, and raised while the thread reads or is
\* between its two steps of the handshake.
SlotHeld ==
  \A th \in Threads : slot[th] # None =>
    /\ in_use[slot[th]] = 1
    /\ pc[th] \in {"check", "yield", "reading"} => active[slot[th]] = 1

\* Where a thread is says whether it has a slot, and how deep it reads.
PlaceOK ==
  \A th \in Threads :
    /\ pc[th] \in {"raise", "check", "yield", "spin", "reading"} => slot[th] # None
    /\ pc[th] \in {"raise", "check", "yield", "spin"} => depth[th] = 1
    /\ pc[th] = "reading" => depth[th] >= 1
    /\ pc[th] \in {"idle", "fallback", "flag", "scan", "writing", "unlock"} => depth[th] = 0
    /\ pc[th] = "fallback" => th \in readers

\* The fallback lock has one writer and no reader meanwhile; the flag is up only
\* for that writer.
WriterOK ==
  /\ \A w \in Threads : pc[w] \in {"flag", "scan", "writing", "unlock"} => writer = w
  /\ \A w \in Threads : pc[w] \in {"scan", "writing"} => write_flag = 1
  /\ writer # None => readers = {}

\* The slots a writer has passed have no reader, and get none.
Passed ==
  \A w, th \in Threads :
    /\ pc[w] = "scan" /\ pc[th] = "reading" => slot[th] >= at[w]
    /\ pc[w] = "scan" => at[w] < NSlots
    /\ pc[w] = "writing" => pc[th] # "reading"

IInv == TypeOK /\ SlotsApart /\ SlotHeld /\ PlaceOK /\ WriterOK /\ Passed

USE DEF Goto, pool, fallback

LEMMA InitInv == Init => IInv
  BY RwLockAssumption DEF Init, IInv, TypeOK, SlotsApart, SlotHeld, PlaceOK, WriterOK, Passed,
        Labels, Slots

\* One step keeps the types.
LEMMA TypeStep ==
  ASSUME TypeOK, NEW th \in Threads, Begin(th) \/ Proceed(th), PlaceOK, WriterOK, Passed
  PROVE  TypeOK'
<1> USE RwLockAssumption DEF TypeOK, Labels, Slots, PlaceOK, WriterOK, Passed
<1>1. CASE Register(th) BY <1>1 DEF Register
<1>2. CASE Unregister(th) BY <1>2 DEF Unregister
<1>3. CASE ReadLock(th) BY <1>3 DEF ReadLock
<1>4. CASE ReadNested(th) BY <1>4 DEF ReadNested
<1>5. CASE ReadFallback(th) BY <1>5 DEF ReadFallback
<1>6. CASE WriteLock(th) BY <1>6 DEF WriteLock
<1>7. CASE Raise(th) BY <1>7 DEF Raise
<1>8. CASE Check(th) BY <1>8 DEF Check
<1>9. CASE Yield(th) BY <1>9 DEF Yield
<1>10. CASE Spin(th) BY <1>10 DEF Spin
<1>11. CASE ReadUnlock(th) BY <1>11 DEF ReadUnlock
<1>12. CASE ReadFallbackEnd(th) BY <1>12 DEF ReadFallbackEnd
<1>13. CASE WriteFlag(th) BY <1>13 DEF WriteFlag
<1>14. CASE Scan(th) BY <1>14 DEF Scan
<1>15. CASE WriteUnlock(th) BY <1>15 DEF WriteUnlock
<1>16. CASE WriteUnlockEnd(th) BY <1>16 DEF WriteUnlockEnd
<1> QED BY <1>1, <1>2, <1>3, <1>4, <1>5, <1>6, <1>7, <1>8, <1>9, <1>10, <1>11, <1>12, <1>13,
           <1>14, <1>15, <1>16 DEF Begin, Proceed

\* Only Register gives a slot, and only one that nobody has.
LEMMA SlotsApartStep ==
  ASSUME TypeOK, SlotsApart, SlotHeld, NEW th \in Threads, Begin(th) \/ Proceed(th)
  PROVE  SlotsApart'
<1> USE RwLockAssumption DEF TypeOK, Slots, SlotsApart, SlotHeld
<1>1. CASE Register(th) BY <1>1 DEF Register
<1>2. CASE Unregister(th) BY <1>2 DEF Unregister
<1>3. CASE UNCHANGED slot BY <1>3
<1>4. Register(th) \/ Unregister(th) \/ UNCHANGED slot
  BY DEF Begin, Proceed, ReadLock, ReadNested, ReadFallback, WriteLock, Raise, Check, Yield, Spin,
         ReadUnlock, ReadFallbackEnd, WriteFlag, Scan, WriteUnlock, WriteUnlockEnd
<1> QED BY <1>1, <1>2, <1>3, <1>4

\* A slot is raised before the flag is looked at, and cleared last.
LEMMA SlotHeldStep ==
  ASSUME TypeOK, SlotsApart, SlotHeld, PlaceOK, NEW th \in Threads, Begin(th) \/ Proceed(th)
  PROVE  SlotHeld'
<1> USE RwLockAssumption DEF TypeOK, Slots, Labels, SlotsApart, SlotHeld, PlaceOK
<1>1. CASE Register(th) BY <1>1 DEF Register
<1>2. CASE Unregister(th) BY <1>2 DEF Unregister
<1>3. CASE ReadLock(th) BY <1>3 DEF ReadLock
<1>4. CASE ReadNested(th) BY <1>4 DEF ReadNested
<1>5. CASE ReadFallback(th) BY <1>5 DEF ReadFallback
<1>6. CASE WriteLock(th) BY <1>6 DEF WriteLock
<1>7. CASE Raise(th) BY <1>7 DEF Raise
<1>8. CASE Check(th) BY <1>8 DEF Check
<1>9. CASE Yield(th) BY <1>9 DEF Yield
<1>10. CASE Spin(th) BY <1>10 DEF Spin
<1>11. CASE ReadUnlock(th) BY <1>11 DEF ReadUnlock
<1>12. CASE ReadFallbackEnd(th) BY <1>12 DEF ReadFallbackEnd
<1>13. CASE WriteFlag(th) BY <1>13 DEF WriteFlag
<1>14. CASE Scan(th) BY <1>14 DEF Scan
<1>15. CASE WriteUnlock(th) BY <1>15 DEF WriteUnlock
<1>16. CASE WriteUnlockEnd(th) BY <1>16 DEF WriteUnlockEnd
<1> QED BY <1>1, <1>2, <1>3, <1>4, <1>5, <1>6, <1>7, <1>8, <1>9, <1>10, <1>11, <1>12, <1>13,
           <1>14, <1>15, <1>16 DEF Begin, Proceed

\* Depth and slot follow the thread's place.
LEMMA PlaceStep ==
  ASSUME TypeOK, PlaceOK, NEW th \in Threads, Begin(th) \/ Proceed(th)
  PROVE  PlaceOK'
<1> USE RwLockAssumption DEF TypeOK, Slots, Labels, PlaceOK
<1>1. CASE Register(th) BY <1>1 DEF Register
<1>2. CASE Unregister(th) BY <1>2 DEF Unregister
<1>3. CASE ReadLock(th) BY <1>3 DEF ReadLock
<1>4. CASE ReadNested(th) BY <1>4 DEF ReadNested
<1>5. CASE ReadFallback(th) BY <1>5 DEF ReadFallback
<1>6. CASE WriteLock(th) BY <1>6 DEF WriteLock
<1>7. CASE Raise(th) BY <1>7 DEF Raise
<1>8. CASE Check(th) BY <1>8 DEF Check
<1>9. CASE Yield(th) BY <1>9 DEF Yield
<1>10. CASE Spin(th) BY <1>10 DEF Spin
<1>11. CASE ReadUnlock(th) BY <1>11 DEF ReadUnlock
<1>12. CASE ReadFallbackEnd(th) BY <1>12 DEF ReadFallbackEnd
<1>13. CASE WriteFlag(th) BY <1>13 DEF WriteFlag
<1>14. CASE Scan(th) BY <1>14 DEF Scan
<1>15. CASE WriteUnlock(th) BY <1>15 DEF WriteUnlock
<1>16. CASE WriteUnlockEnd(th) BY <1>16 DEF WriteUnlockEnd
<1> QED BY <1>1, <1>2, <1>3, <1>4, <1>5, <1>6, <1>7, <1>8, <1>9, <1>10, <1>11, <1>12, <1>13,
           <1>14, <1>15, <1>16 DEF Begin, Proceed

\* The fallback lock is what makes writers wait for each other.
LEMMA WriterStep ==
  ASSUME TypeOK, PlaceOK, WriterOK, NEW th \in Threads, Begin(th) \/ Proceed(th)
  PROVE  WriterOK'
<1> USE RwLockAssumption DEF TypeOK, Labels, PlaceOK, WriterOK
<1>1. CASE Register(th) BY <1>1 DEF Register
<1>2. CASE Unregister(th) BY <1>2 DEF Unregister
<1>3. CASE ReadLock(th) BY <1>3 DEF ReadLock
<1>4. CASE ReadNested(th) BY <1>4 DEF ReadNested
<1>5. CASE ReadFallback(th) BY <1>5 DEF ReadFallback
<1>6. CASE WriteLock(th) BY <1>6 DEF WriteLock
<1>7. CASE Raise(th) BY <1>7 DEF Raise
<1>8. CASE Check(th) BY <1>8 DEF Check
<1>9. CASE Yield(th) BY <1>9 DEF Yield
<1>10. CASE Spin(th) BY <1>10 DEF Spin
<1>11. CASE ReadUnlock(th) BY <1>11 DEF ReadUnlock
<1>12. CASE ReadFallbackEnd(th) BY <1>12 DEF ReadFallbackEnd
<1>13. CASE WriteFlag(th) BY <1>13 DEF WriteFlag
<1>14. CASE Scan(th) BY <1>14 DEF Scan
<1>15. CASE WriteUnlock(th) BY <1>15 DEF WriteUnlock
<1>16. CASE WriteUnlockEnd(th) BY <1>16 DEF WriteUnlockEnd
<1> QED BY <1>1, <1>2, <1>3, <1>4, <1>5, <1>6, <1>7, <1>8, <1>9, <1>10, <1>11, <1>12, <1>13,
           <1>14, <1>15, <1>16 DEF Begin, Proceed

\* A reader that gets in saw the flag down; a writer passes a slot only when it is down.
LEMMA PassedStep ==
  ASSUME TypeOK, SlotHeld, PlaceOK, WriterOK, Passed, NEW th \in Threads, Begin(th) \/ Proceed(th)
  PROVE  Passed'
<1> USE RwLockAssumption DEF TypeOK, Slots, Labels, SlotHeld, PlaceOK, WriterOK, Passed
<1>1. CASE Register(th) BY <1>1 DEF Register
<1>2. CASE Unregister(th) BY <1>2 DEF Unregister
<1>3. CASE ReadLock(th) BY <1>3 DEF ReadLock
<1>4. CASE ReadNested(th) BY <1>4 DEF ReadNested
<1>5. CASE ReadFallback(th) BY <1>5 DEF ReadFallback
<1>6. CASE WriteLock(th) BY <1>6 DEF WriteLock
<1>7. CASE Raise(th) BY <1>7 DEF Raise
<1>8. CASE Check(th) BY <1>8 DEF Check
<1>9. CASE Yield(th) BY <1>9 DEF Yield
<1>10. CASE Spin(th) BY <1>10 DEF Spin
<1>11. CASE ReadUnlock(th) BY <1>11 DEF ReadUnlock
<1>12. CASE ReadFallbackEnd(th) BY <1>12 DEF ReadFallbackEnd
<1>13. CASE WriteFlag(th) BY <1>13 DEF WriteFlag
<1>14. CASE Scan(th)
  <2>1. pc[th] = "scan" /\ active[at[th]] = 0 /\ at[th] < NSlots /\ at[th] \in Slots
    BY <1>14 DEF Scan
  <2>2. UNCHANGED slot /\ at' = [at EXCEPT ![th] = @ + 1]
        /\ pc' = [pc EXCEPT ![th] = IF at[th] + 1 = NSlots THEN "writing" ELSE "scan"]
    BY <1>14 DEF Scan
  <2>3. ASSUME NEW r \in Threads, pc[r] = "reading" PROVE slot[r] \in Slots /\ slot[r] >= at[th] + 1
    <3>1. slot[r] \in Slots /\ active[slot[r]] = 1 BY <2>3
    <3>2. slot[r] >= at[th] /\ slot[r] # at[th] BY <2>1, <2>3, <3>1
    <3> QED BY <2>1, <3>1, <3>2
  <2> QED BY <2>1, <2>2, <2>3
<1>15. CASE WriteUnlock(th) BY <1>15 DEF WriteUnlock
<1>16. CASE WriteUnlockEnd(th) BY <1>16 DEF WriteUnlockEnd
<1> QED BY <1>1, <1>2, <1>3, <1>4, <1>5, <1>6, <1>7, <1>8, <1>9, <1>10, <1>11, <1>12, <1>13,
           <1>14, <1>15, <1>16 DEF Begin, Proceed

\* The invariant is inductive.
LEMMA StepInv == IInv /\ [Next]_vars => IInv'
<1> SUFFICES ASSUME IInv, [Next]_vars PROVE IInv' OBVIOUS
<1> USE DEF IInv
<1>1. CASE UNCHANGED vars
  BY <1>1 DEF vars, TypeOK, SlotsApart, SlotHeld, PlaceOK, WriterOK, Passed
<1>2. CASE Next
  <2>1. PICK th \in Threads : Begin(th) \/ Proceed(th) BY <1>2 DEF Next
  <2> QED BY <2>1, TypeStep, SlotsApartStep, SlotHeldStep, PlaceStep, WriterStep, PassedStep
<1> QED BY <1>1, <1>2

LEMMA Always == Spec => []IInv
  BY InitInv, StepInv, PTL DEF Spec

\* A writer is alone in the lock: what the invariant says at "writing".
LEMMA InvExclusive == IInv => Exclusive
<1> SUFFICES ASSUME IInv, NEW w \in Threads, pc[w] = "writing", NEW th \in Threads \ {w}
             PROVE  ~Reads(th) /\ pc[th] # "writing"
  BY DEF Exclusive
<1> USE RwLockAssumption DEF IInv, TypeOK, Labels
<1>1. writer = w /\ readers = {} BY DEF WriterOK
<1>2. pc[th] # "writing" BY <1>1 DEF WriterOK
<1>3. pc[th] # "reading" BY DEF Passed
<1>4. pc[th] # "fallback" BY <1>1 DEF PlaceOK
<1>5. depth[th] <= 1
  <2>1. pc[th] # "reading" => depth[th] \in {0, 1} BY DEF PlaceOK
  <2> QED BY <1>3, <2>1
<1> QED BY <1>2, <1>3, <1>4, <1>5 DEF Reads

\* TypeOK holds for any number of threads, slots and nested locks.
THEOREM RwTypesCorrect == Spec => []TypeOK
<1>1. IInv => TypeOK BY DEF IInv
<1> QED BY <1>1, Always, PTL

\* No reader of either kind, and no second writer, is ever in beside a writer
\* (rwlock_distr.c:100-111, 135-143).
THEOREM ExclusiveCorrect == Spec => []Exclusive
  BY InvExclusive, Always, PTL

\* A slot has one owner (rwlock_distr.c:64-71).
THEOREM SlotsApartCorrect == Spec => []SlotsApart
<1>1. IInv => SlotsApart BY DEF IInv
<1> QED BY <1>1, Always, PTL

HIDE DEF Goto, pool, fallback

-----------------------------------------------------------------------------
(* Division, with the divisor a variable *)

\* Quotient and remainder.
LEMMA DivMod ==
  ASSUME NEW a \in Nat, NEW u \in Nat \ {0}
  PROVE  a \div u \in Nat /\ a % u \in 0 .. u - 1 /\ a = u * (a \div u) + (a % u)
OBVIOUS

\* A remainder is a number.
LEMMA ModNat ==
  ASSUME NEW a \in Nat, NEW u \in Nat \ {0}
  PROVE  a % u \in Nat
<1>1. a % u \in 0 .. u - 1 BY DivMod
<1>2. 0 .. u - 1 \subseteq Nat OBVIOUS
<1> QED BY <1>1, <1>2

\* Multiples of u less than u apart.
LEMMA Multiples ==
  ASSUME NEW x \in Nat, NEW y \in Nat, NEW u \in Nat \ {0}, u * x < u * y + u
  PROVE  x <= y
OBVIOUS

\* The quotient is the only q with u * q <= a < u * q + u.
LEMMA DivUnique ==
  ASSUME NEW a \in Nat, NEW u \in Nat \ {0}, NEW q \in Nat, u * q <= a, a < u * q + u
  PROVE  a \div u = q
<1> DEFINE d == a \div u  r == a % u
<1>1. d \in Nat /\ r \in 0 .. u - 1 /\ a = u * d + r BY DivMod
<1> HIDE DEF d, r
<1>2. d <= q BY <1>1, Multiples
<1>3. q <= d BY <1>1, Multiples
<1> QED BY <1>1, <1>2, <1>3 DEF d

\* A multiple has no remainder.
LEMMA MultipleMod ==
  ASSUME NEW u \in Nat \ {0}, NEW q \in Nat
  PROVE  (u * q) % u = 0 /\ (u * q) \div u = q
<1>1. u * q \in Nat OBVIOUS
<1>2. (u * q) \div u = q BY <1>1, DivUnique
<1>3. u * q = u * q + ((u * q) % u) /\ (u * q) % u \in 0 .. u - 1
  <2>1. u * q = u * ((u * q) \div u) + ((u * q) % u) BY <1>1, DivMod
  <2> QED BY <2>1, <1>1, <1>2, DivMod
<1> QED BY <1>1, <1>2, <1>3

\* Numbers less than s apart with the same remainder are the same.
LEMMA ModApart ==
  ASSUME NEW a \in Nat, NEW b \in Nat, NEW s \in Nat \ {0}, a % s = b % s, a <= b, b < a + s
  PROVE  a = b
<1> DEFINE p == a \div s  q == b \div s  r == a % s
<1>1. p \in Nat /\ q \in Nat /\ r \in Nat /\ a = s * p + r /\ b = s * q + r
  <2>1. p \in Nat /\ r \in 0 .. s - 1 /\ a = s * p + r BY DivMod
  <2>2. q \in Nat /\ b = s * q + (b % s) BY DivMod
  <2>3. 0 .. s - 1 \subseteq Nat OBVIOUS
  <2> QED BY <2>1, <2>2, <2>3
<1> HIDE DEF p, q, r
<1>2. p <= q BY <1>1, Multiples
<1>3. q <= p BY <1>1, Multiples
<1> QED BY <1>1, <1>2, <1>3

-----------------------------------------------------------------------------
(* The ring: its words *)

\* How many claims the run may see, and what the assumption on the constants gives.
Claimable == MaxPush * Cardinality(Producers)

\* The operators of FiniteSets are those of the instance.
LEMMA SameSets ==
  ASSUME NEW S
  PROVE  (R!IsFiniteSet(S) <=> IsFiniteSet(S)) /\ R!Cardinality(S) = Cardinality(S)
<1>1. R!IsFiniteSet(S) <=> IsFiniteSet(S) BY DEF R!IsFiniteSet, IsFiniteSet
<1>2. R!Cardinality(S) = Cardinality(S) BY DEF R!Cardinality, Cardinality
<1> QED BY <1>1, <1>2

LEMMA RingSetting ==
  /\ Cap \in Nat /\ Cap >= 2 /\ Word \in Nat /\ Start \in Nat /\ Start < Word
  /\ Claimable \in Nat /\ 2 * (Claimable + Cap) < Word
  /\ Word % Cap = 0 /\ Start % Cap = 0
  /\ MaxPush \in Nat /\ MaxBatch \in Nat /\ MaxBatch >= 1 /\ MaxBatch <= Cap
<1>1. IsFiniteSet(Producers) BY RingAssumption, SameSets DEF R!MpqAssumption
<1>2. Cardinality(Producers) \in Nat BY <1>1, FS_CardinalityType
<1>3. MaxPush \in Nat BY RingAssumption DEF R!MpqAssumption
<1>4. Claimable \in Nat BY <1>2, <1>3 DEF Claimable
<1>5. R!Cardinality(Producers) = Cardinality(Producers) BY SameSets
<1>6. 2 * (Claimable + Cap) < Word BY <1>5, RingAssumption DEF R!MpqAssumption, Claimable
<1> QED BY <1>3, <1>4, <1>6, RingAssumption DEF R!MpqAssumption

\* A remainder, where the number is no more than twice beyond the divisor.
LEMMA ModTwice ==
  ASSUME NEW a \in Nat, NEW u \in Nat \ {0}, a < 3 * u
  PROVE  a % u = IF a < u THEN a ELSE IF a < 2 * u THEN a - u ELSE a - 2 * u
<1>1. a = u * (a \div u) + (a % u) /\ a \div u \in Nat /\ a % u \in 0 .. u - 1 BY DivMod
<1>2. CASE a < u
  <2>1. a \div u = 0 BY <1>2, DivUnique
  <2> QED BY <1>1, <1>2, <2>1
<1>3. CASE u <= a /\ a < 2 * u
  <2>1. a \div u = 1 BY <1>3, DivUnique
  <2> QED BY <1>1, <1>3, <2>1
<1>4. CASE 2 * u <= a
  <2>1. a \div u = 2 BY <1>4, DivUnique
  <2> QED BY <1>1, <1>4, <2>1
<1> QED BY <1>2, <1>3, <1>4

\* A multiple of the divisor more has the same remainder.
LEMMA ModShift ==
  ASSUME NEW a \in Nat, NEW b \in Nat, NEW u \in Nat \ {0}, b % u = 0
  PROVE  (a + b) % u = a % u
<1> DEFINE p == a \div u  q == b \div u  r == a % u
<1>1. p \in Nat /\ r \in 0 .. u - 1 /\ a = u * p + r BY DivMod
<1>2. q \in Nat /\ b = u * q + (b % u) BY DivMod
<1> HIDE DEF p, q, r
<1>3. a + b = u * (p + q) + r /\ p + q \in Nat /\ r \in Nat
  <2>1. b = u * q /\ r \in Nat BY <1>1, <1>2
  <2>2. u * (p + q) = u * p + u * q BY <1>1, <1>2
  <2>3. u * p \in Nat /\ u * q \in Nat BY <1>1, <1>2
  <2> QED BY <2>1, <2>2, <2>3, <1>1, <1>2
<1>4. u * (p + q) \in Nat BY <1>3
<1>5. u * (p + q) <= a + b /\ a + b < u * (p + q) + u BY <1>1, <1>3, <1>4
<1>6. (a + b) \div u = p + q BY <1>3, <1>5, DivUnique
<1>7. a + b = u * ((a + b) \div u) + ((a + b) % u) /\ (a + b) % u \in 0 .. u - 1 BY DivMod
<1>8. (a + b) % u = r BY <1>3, <1>4, <1>6, <1>7
<1> QED BY <1>8 DEF r

\* How far a word is from where the counters began, with a turn of the ring in front.
Ofs(a) == (a + Word - Start + Cap) % Word

\* The word that far.
WordAt(x) == (x + Start + Word - Cap) % Word

LEMMA OfsType ==
  ASSUME NEW a \in R!Words
  PROVE  Ofs(a) \in 0 .. Word - 1 /\ Ofs(a) \in Nat
<1>1. a + Word - Start + Cap \in Nat /\ Word \in Nat \ {0} BY RingSetting DEF R!Words
<1>2. PICK y \in Nat : y = a + Word - Start + Cap BY <1>1
<1>3. y % Word \in 0 .. Word - 1 BY <1>1, DivMod
<1>4. Ofs(a) \in 0 .. Word - 1 BY <1>2, <1>3 DEF Ofs
<1> QED BY <1>1, <1>4

\* The two are inverses.
LEMMA OfsWordAt ==
  ASSUME NEW x \in 0 .. Word - 1
  PROVE  WordAt(x) \in R!Words /\ Ofs(WordAt(x)) = x
<1> DEFINE y == x + Start + Word - Cap  w == WordAt(x)
<1>1. y \in Nat /\ y < 3 * Word /\ Word \in Nat \ {0} BY RingSetting
<1>2. w = IF y < Word THEN y ELSE IF y < 2 * Word THEN y - Word ELSE y - 2 * Word
  BY <1>1, ModTwice DEF WordAt
<1>3. w \in R!Words BY <1>1, <1>2, RingSetting DEF R!Words
<1>4. w + Word - Start + Cap \in Nat /\ w + Word - Start + Cap < 3 * Word
  BY <1>3, RingSetting DEF R!Words
<1> DEFINE z == w + Word - Start + Cap
<1>5. Ofs(w) = IF z < Word THEN z ELSE IF z < 2 * Word THEN z - Word ELSE z - 2 * Word
  BY <1>4, <1>1, ModTwice DEF Ofs
<1>6. Ofs(w) = x
  <2> HIDE DEF w
  <2> QED BY <1>2, <1>5, RingSetting
<1> QED BY <1>3, <1>6

\* Words that far are the same.
LEMMA OfsApart ==
  ASSUME NEW a \in R!Words, NEW b \in R!Words, Ofs(a) = Ofs(b)
  PROVE  a = b
<1> DEFINE y == a + Word - Start + Cap  z == b + Word - Start + Cap
<1>1. y \in Nat /\ y < 3 * Word /\ z \in Nat /\ z < 3 * Word /\ Word \in Nat \ {0}
  BY RingSetting DEF R!Words
<1>4. y % Word = z % Word BY DEF Ofs
<1> HIDE DEF y, z
<1>5. y = a + Word - Start + Cap /\ z = b + Word - Start + Cap BY DEF y, z
<1>6. y < z + Word /\ z < y + Word BY <1>5, RingSetting DEF R!Words
<1>7. y = z
  <2>1. CASE y <= z BY <2>1, <1>1, <1>4, <1>6, ModApart
  <2>2. CASE z <= y
    <3>1. z = y BY <2>2, <1>1, <1>4, <1>6, ModApart
    <3> QED BY <3>1
  <2> QED BY <2>1, <2>2, <1>1
<1> QED BY <1>5, <1>7, RingSetting DEF R!Words

\* Adding to a counter, as long as the run is short.
LEMMA OfsPlus ==
  ASSUME NEW a \in R!Words, NEW i \in Nat, Ofs(a) + i < Word
  PROVE  R!Plus(a, i) \in R!Words /\ Ofs(R!Plus(a, i)) = Ofs(a) + i
<1> DEFINE y == a + Word - Start + Cap
<1>1. y \in Nat /\ y < 3 * Word /\ Word \in Nat \ {0} BY RingSetting DEF R!Words
<1>2. Ofs(a) = IF y < Word THEN y ELSE IF y < 2 * Word THEN y - Word ELSE y - 2 * Word
  BY <1>1, ModTwice DEF Ofs
<1>3. i \in Nat /\ i < Word /\ a + i \in Nat /\ a + i < 3 * Word
  BY <1>2, OfsType, RingSetting DEF R!Words
<1> DEFINE b == R!Plus(a, i)  z == b + Word - Start + Cap
<1>4. b = IF a + i < Word THEN a + i ELSE a + i - Word
  <2>1. b = (a + i) % Word BY DEF R!Plus
  <2>2. a + i < 2 * Word BY <1>1, <1>3, RingSetting DEF R!Words
  <2>3. (a + i) % Word = IF a + i < Word THEN a + i ELSE a + i - Word
    <3>1. \A n \in Nat : n < 2 * Word => n % Word = IF n < Word THEN n ELSE n - Word
      <4> SUFFICES ASSUME NEW n \in Nat, n < 2 * Word
                   PROVE  n % Word = IF n < Word THEN n ELSE n - Word
        OBVIOUS
      <4>1. n < 3 * Word BY <1>1
      <4> QED BY <4>1, <1>1, ModTwice
    <3>2. a + i \in Nat /\ a + i < 2 * Word BY <1>3, <2>2
    <3>3. a \in Nat BY RingSetting DEF R!Words
    <3> QED BY <3>1, <3>2, <3>3, <1>1
  <2> QED BY <2>1, <2>2, <2>3
<1>5. b \in R!Words BY <1>3, <1>4, RingSetting DEF R!Words
<1>6. z \in Nat /\ z < 3 * Word BY <1>5, RingSetting DEF R!Words
<1>7. Ofs(b) = IF z < Word THEN z ELSE IF z < 2 * Word THEN z - Word ELSE z - 2 * Word
  BY <1>1, <1>6, ModTwice DEF Ofs
<1>8. Ofs(a) \in 0 .. Word - 1 /\ Ofs(b) \in 0 .. Word - 1 BY <1>5, OfsType
<1>9. Ofs(b) = Ofs(a) + i
  <2> HIDE DEF b
  <2> QED BY <1>2, <1>3, <1>4, <1>7, <1>8, RingSetting DEF R!Words
<1> QED BY <1>5, <1>9

\* The signed difference of two counters.
LEMMA OfsDiff ==
  ASSUME NEW a \in R!Words, NEW b \in R!Words,
         2 * (Ofs(a) - Ofs(b)) < Word, 2 * (Ofs(b) - Ofs(a)) < Word
  PROVE  R!Diff(a, b) = Ofs(a) - Ofs(b)
<1> DEFINE y == a + Word - Start + Cap  z == b + Word - Start + Cap  d == a - b + Word
<1>1. y \in Nat /\ y < 3 * Word /\ z \in Nat /\ z < 3 * Word /\ Word \in Nat \ {0}
  BY RingSetting DEF R!Words
<1>2. Ofs(a) = IF y < Word THEN y ELSE IF y < 2 * Word THEN y - Word ELSE y - 2 * Word
  BY <1>1, ModTwice DEF Ofs
<1>3. Ofs(b) = IF z < Word THEN z ELSE IF z < 2 * Word THEN z - Word ELSE z - 2 * Word
  BY <1>1, ModTwice DEF Ofs
<1>4. d \in Nat /\ d < 2 * Word BY RingSetting DEF R!Words
<1>5. d % Word = IF d < Word THEN d ELSE d - Word
  <2>1. d < 3 * Word BY <1>1, <1>4
  <2>2. d % Word = IF d < Word THEN d ELSE IF d < 2 * Word THEN d - Word ELSE d - 2 * Word
    BY <1>1, <1>4, <2>1, ModTwice
  <2> QED BY <1>4, <2>2
<1> DEFINE m == d % Word
<1>6. R!Diff(a, b) = IF 2 * m < Word THEN m ELSE m - Word BY DEF R!Diff
<1> HIDE DEF m
<1>7. m = IF d < Word THEN d ELSE d - Word BY <1>5 DEF m
<1> QED BY <1>2, <1>3, <1>6, <1>7, RingSetting DEF R!Words

\* The slot of a word.
LEMMA OfsSlot ==
  ASSUME NEW a \in R!Words
  PROVE  R!Slot(a) = Ofs(a) % Cap /\ R!Slot(a) \in 0 .. Cap - 1
<1> DEFINE y == a + Word - Start + Cap
<1>1. y \in Nat /\ y < 3 * Word /\ Word \in Nat \ {0} /\ a \in Nat /\ Cap \in Nat \ {0}
  BY RingSetting DEF R!Words
<1>2. Ofs(a) = IF y < Word THEN y ELSE IF y < 2 * Word THEN y - Word ELSE y - 2 * Word
  BY <1>1, ModTwice DEF Ofs
<1>3. Ofs(a) \in Nat BY OfsType
<1>4. Cap % Cap = 0 BY <1>1, ModTwice
<1>5. (a + Word) % Cap = a % Cap /\ (a + Word + Cap) % Cap = a % Cap
  <2>1. (a + Word) % Cap = a % Cap BY <1>1, RingSetting, ModShift
  <2>2. a + Word \in Nat BY <1>1
  <2> QED BY <2>1, <2>2, <1>1, <1>4, ModShift
<1>6. y % Cap = a % Cap
  <2>1. y + Start = a + Word + Cap /\ Start \in Nat BY <1>1, RingSetting
  <2>2. (y + Start) % Cap = y % Cap BY <1>1, <2>1, RingSetting, ModShift
  <2> QED BY <1>5, <2>1, <2>2
<1>7. Ofs(a) % Cap = y % Cap
  <2>1. CASE y = Ofs(a) BY <2>1
  <2>a. (Ofs(a) + Word) % Cap = Ofs(a) % Cap BY <1>3, <1>1, RingSetting, ModShift
  <2>2. CASE y = Ofs(a) + Word BY <2>2, <2>a
  <2>3. CASE y = Ofs(a) + Word + Word
    <3>1. Ofs(a) + Word \in Nat BY <1>1, <1>3
    <3>2. (Ofs(a) + Word + Word) % Cap = (Ofs(a) + Word) % Cap BY <3>1, <1>1, RingSetting, ModShift
    <3> QED BY <2>3, <2>a, <3>2
  <2> QED BY <2>1, <2>2, <2>3, <1>1, <1>2, <1>3
<1>8. R!Slot(a) = a % Cap BY DEF R!Slot
<1> QED BY <1>1, <1>6, <1>7, <1>8, DivMod

\* Words less than a turn of the ring apart have different slots.
LEMMA SlotsDiffer ==
  ASSUME NEW a \in R!Words, NEW b \in R!Words, R!Slot(a) = R!Slot(b),
         Ofs(a) < Ofs(b) + Cap, Ofs(b) < Ofs(a) + Cap
  PROVE  a = b
<1>1. Ofs(a) \in Nat /\ Ofs(b) \in Nat /\ Cap \in Nat \ {0} BY OfsType, RingSetting
<1>2. Ofs(a) % Cap = Ofs(b) % Cap BY OfsSlot
<1>3. Ofs(a) = Ofs(b)
  <2>1. CASE Ofs(a) <= Ofs(b) BY <2>1, <1>1, <1>2, ModApart
  <2>2. CASE Ofs(b) <= Ofs(a)
    <3>1. Ofs(b) = Ofs(a) BY <2>2, <1>1, <1>2, ModApart
    <3> QED BY <3>1
  <2> QED BY <2>1, <2>2, <1>1
<1> QED BY <1>3, OfsApart

\* A turn of the ring later it is the same slot.
LEMMA SlotAgain ==
  ASSUME NEW a \in R!Words, NEW b \in R!Words, Ofs(b) = Ofs(a) + Cap
  PROVE  R!Slot(a) = R!Slot(b)
<1>1. Ofs(a) \in Nat /\ Cap \in Nat \ {0} /\ Cap % Cap = 0 BY OfsType, RingSetting, ModTwice
<1>2. Ofs(b) % Cap = Ofs(a) % Cap BY <1>1, ModShift
<1> QED BY <1>2, OfsSlot

\* Every slot is that of one of the last words before any.
LEMMA SlotWithin ==
  ASSUME NEW a \in R!Words, NEW x \in Nat, x + Cap <= Word
  PROVE  \E b \in R!Words : R!Slot(b) = R!Slot(a) /\ x <= Ofs(b) /\ Ofs(b) < x + Cap
<1> DEFINE s == Ofs(a) % Cap  m == x \div Cap  r == x % Cap
<1>1. Cap \in Nat \ {0} /\ Ofs(a) \in Nat BY RingSetting, OfsType
<1>2. s \in 0 .. Cap - 1 /\ m \in Nat /\ r \in 0 .. Cap - 1 /\ x = Cap * m + r BY <1>1, DivMod
<1>3. \E y \in Nat : x <= y /\ y < x + Cap /\ y % Cap = s
  <2> HIDE DEF s, m, r
  <2>1. Cap * m \in Nat /\ s \in Nat /\ Cap * (m + 1) = Cap * m + Cap BY <1>1, <1>2
  <2>2. s % Cap = s BY <1>1, <1>2, <2>1, ModTwice
  <2>3. (Cap * m) % Cap = 0 /\ (Cap * m + Cap) % Cap = 0
    <3>1. \A n \in Nat : (Cap * n) % Cap = 0
      <4> SUFFICES ASSUME NEW n \in Nat PROVE (Cap * n) % Cap = 0
        OBVIOUS
      <4>1. Cap * n \in Nat /\ Cap * n <= Cap * n /\ Cap * n < Cap * n + Cap BY <1>1
      <4>2. (Cap * n) \div Cap = n BY <1>1, <4>1, DivUnique
      <4>3. Cap * n = Cap * ((Cap * n) \div Cap) + ((Cap * n) % Cap) /\ (Cap * n) % Cap \in 0 .. Cap - 1
        BY <1>1, <4>1, DivMod
      <4> QED BY <4>1, <4>2, <4>3
    <3> QED BY <3>1, <2>1, <1>2
  <2>4. (s + Cap * m) % Cap = s /\ (s + (Cap * m + Cap)) % Cap = s
    <3>1. Cap * m + Cap \in Nat BY <2>1, <1>1
    <3> QED BY <3>1, <2>1, <2>2, <2>3, <1>1, ModShift
  <2>5. CASE r <= s
    <3>1. s + Cap * m \in Nat /\ x <= s + Cap * m /\ s + Cap * m < x + Cap BY <2>5, <2>1, <1>1, <1>2
    <3> QED BY <3>1, <2>4
  <2>6. CASE s < r
    <3>1. s + (Cap * m + Cap) \in Nat /\ x <= s + (Cap * m + Cap) /\ s + (Cap * m + Cap) < x + Cap
      BY <2>6, <2>1, <1>1, <1>2
    <3> QED BY <3>1, <2>4
  <2> QED BY <2>5, <2>6, <1>2
<1>4. PICK y \in Nat : x <= y /\ y < x + Cap /\ y % Cap = s BY <1>3
<1>5. y \in 0 .. Word - 1 BY <1>4, <1>1, RingSetting
<1>6. WordAt(y) \in R!Words /\ Ofs(WordAt(y)) = y BY <1>5, OfsWordAt
<1> QED BY <1>4, <1>6, OfsSlot

-----------------------------------------------------------------------------
(* The ring: its invariant *)

\* How far the counters are, and the oldest position not taken (R!Front).
Pushed == Ofs(enq)
Popped == Ofs(deq)
Gone == IF \E c \in Consumers : m_pc[c] = "bfree"
        THEN Popped + m_k[CHOOSE c \in Consumers : m_pc[c] = "bfree"]
        ELSE Popped

\* The positions of the last turn, one for each slot; and what has become of one: it is
\* still its producer's, it holds a value, or its slot has been given back.
InTurn(a) == a \in R!Words /\ Pushed <= Ofs(a) + Cap /\ Ofs(a) < Pushed
Claimed(a) == R!SeqAt(a) = a
Published(a) == R!SeqAt(a) = R!Plus(a, 1)
GivenBack(a) == R!SeqAt(a) = R!Plus(a, Cap)
DataAt(a) == m_data[R!Slot(a)]

\* Who uses the queue at all, and how: the sets never change.
Users == {c \in Consumers : m_pc[c] # "off"}
Batching == {"bseq", "bcopy", "bfree"}
Writing(p) == m_pc[p] \in {"write", "publish"}

RingPlaces ==
  /\ \A p \in Producers :
       /\ m_pc[p] \in {"idle", "reload", "seq", "full", "cas", "write", "publish"}
       /\ m_pc[p] # "idle" => m_sent[p] < MaxPush
  /\ \A c \in Consumers :
       /\ m_pc[c] \in {"off", "idle", "reload", "seq", "cas", "copy", "advance", "free", "why",
                       "inflight", "empty", "bseq", "bcopy", "bfree"}
       /\ m_pc[c] = "advance" \/ m_pc[c] \in Batching => R!Single
       /\ m_pc[c] = "cas" => ~R!Single
       /\ m_pc[c] \in Batching => m_want[c] >= 1 /\ m_k[c] <= m_want[c] /\ freed[c] <= m_k[c]
       /\ m_pc[c] = "bcopy" => m_k[c] < m_want[c]
  /\ \A o \in Observers : m_pc[o] \in {"idle", "look", "inflight", "empty"}
  /\ IsFiniteSet(Users)

\* The counters in their order, at most a turn apart; one claim for each push.
Claims == {v \in Producers \X (1 .. MaxPush) :
             v[2] <= m_sent[v[1]] \/ (Writing(v[1]) /\ v[2] = m_sent[v[1]] + 1)}
Counters ==
  /\ Cap <= Popped /\ Popped <= Gone /\ Gone <= Pushed /\ Pushed <= Gone + Cap
  /\ Pushed = Cap + Cardinality(Claims)

\* What each slot is doing in its turn.
Cycle ==
  \A a \in R!Words : InTurn(a) =>
    /\ Claimed(a) \/ Published(a) \/ GivenBack(a)
    /\ Gone <= Ofs(a) => ~GivenBack(a)
    /\ Ofs(a) < Gone => ~Claimed(a)
    /\ Published(a) => DataAt(a) # Void

\* A claim is of one producer, until it publishes; one about to claim finds the slot free.
Writers ==
  \A p \in Producers :
    /\ Writing(p) => InTurn(m_pos[p]) /\ Claimed(m_pos[p])
    /\ m_pc[p] = "publish" => DataAt(m_pos[p]) = R!Value(p)
    /\ \A r \in Producers : Writing(p) /\ Writing(r) /\ m_pos[p] = m_pos[r] => p = r
Pushers ==
  \A p \in Producers :
    /\ m_pc[p] \in {"seq", "cas"} => Cap <= Ofs(m_pos[p]) /\ Ofs(m_pos[p]) <= Pushed
    /\ m_pc[p] = "cas" /\ m_pos[p] = enq => R!SeqAt(enq) = enq

\* What a consumer knows of deq: the only one, and one of several.
Poppers ==
  \A c \in Consumers :
    /\ m_pc[c] \in {"seq", "why", "cas"} => Cap <= Ofs(m_pos[c]) /\ Ofs(m_pos[c]) <= Popped
    /\ R!Single /\ m_pc[c] \in {"seq", "why", "copy", "advance"} \cup Batching => m_pos[c] = deq
    /\ m_pc[c] = "cas" /\ m_pos[c] = deq => InTurn(deq) /\ Published(deq)
    /\ m_pc[c] = "free" \/ (m_pc[c] = "copy" /\ ~R!Single) => Ofs(m_pos[c]) < Popped

\* The cells a consumer has taken, or reads, and not given back: nobody else's.
Holds(c, a) ==
  \/ m_pc[c] \in {"copy", "advance", "free"} /\ a = m_pos[c]
  \/ m_pc[c] = "bseq" /\ Popped <= Ofs(a) /\ Ofs(a) < Popped + m_k[c]
  \/ m_pc[c] = "bcopy" /\ Popped <= Ofs(a) /\ Ofs(a) <= Popped + m_k[c]
  \/ m_pc[c] = "bfree" /\ Popped + freed[c] <= Ofs(a) /\ Ofs(a) < Popped + m_k[c]
Holders ==
  \A c \in Consumers, a \in R!Words : Holds(c, a) =>
    /\ InTurn(a) /\ Published(a)
    /\ \A d \in Consumers : Holds(d, a) => c = d

\* What has been copied: what is gone, unless its consumer has still to copy it; and of
\* what is not gone only what a single consumer has read, as it still is.
GoneCopied ==
  \A a \in R!Words : Cap <= Ofs(a) /\ Ofs(a) < Gone /\ copied[a] = Void =>
    \E c \in Consumers : m_pc[c] = "copy" /\ ~R!Single /\ m_pos[c] = a
FreshCopied ==
  \A a \in R!Words : Gone <= Ofs(a) /\ copied[a] # Void =>
    InTurn(a) /\ Published(a) /\ copied[a] = DataAt(a)
HeldCopied ==
  \A c \in Consumers, a \in R!Words : Holds(c, a) /\ copied[a] # Void => copied[a] = DataAt(a)
ReadCopied ==
  \A c \in Consumers :
    /\ m_pc[c] = "advance" => copied[m_pos[c]] # Void
    /\ m_pc[c] \in Batching => \A a \in R!Words :
         Popped <= Ofs(a) /\ Ofs(a) < Popped + m_k[c] => copied[a] # Void

\* An observer's deq is no later than the one there is.
Lookers ==
  \A o \in Observers : m_pc[o] = "look" => Cap <= Ofs(m_pos[o]) /\ Ofs(m_pos[o]) <= Popped

RingInv ==
  /\ R!TypeOK /\ RingPlaces /\ Counters /\ Cycle /\ Writers /\ Pushers /\ Poppers /\ Holders
  /\ GoneCopied /\ FreshCopied /\ HeldCopied /\ ReadCopied /\ Lookers

-----------------------------------------------------------------------------
(* The ring: its steps, by what they change *)

\* Nothing of the others changes.
ProducersSame == \A r \in Producers : m_pc'[r] = m_pc[r] /\ m_pos'[r] = m_pos[r]
ConsumersSame ==
  /\ \A d \in Consumers : m_pc'[d] = m_pc[d] /\ m_pos'[d] = m_pos[d]
  /\ m_want' = m_want /\ m_k' = m_k /\ freed' = freed
ObserversSame == \A o \in Observers : m_pc'[o] = m_pc[o] /\ m_pos'[o] = m_pos[o]
ByProducer(p) ==
  /\ \A r \in Producers : r # p => m_pc'[r] = m_pc[r] /\ m_pos'[r] = m_pos[r]
  /\ ConsumersSame /\ ObserversSame /\ copied' = copied /\ deq' = deq
ByConsumer(c) ==
  /\ \A d \in Consumers : d # c =>
       /\ m_pc'[d] = m_pc[d] /\ m_pos'[d] = m_pos[d]
       /\ m_want'[d] = m_want[d] /\ m_k'[d] = m_k[d] /\ freed'[d] = freed[d]
  /\ ProducersSame /\ ObserversSame /\ enq' = enq /\ m_data' = m_data /\ m_sent' = m_sent
BatchSame == m_want' = m_want /\ m_k' = m_k /\ freed' = freed
Goes(th, b, e) == m_pc[th] = b /\ m_pc'[th] = e
Stays(th) == m_pos'[th] = m_pos[th]

\* A producer looks.
PLooks(p) ==
  /\ ByProducer(p) /\ enq' = enq /\ sequence' = sequence /\ m_data' = m_data /\ m_sent' = m_sent
  /\ ~Writing(p)
  /\ \/ m_pc[p] # "idle" /\ m_pc'[p] \in {"idle", "reload"}
     \/ Goes(p, "seq", "full") /\ Stays(p) /\ R!Diff(R!SeqAt(m_pos[p]), m_pos[p]) < 0
     \/ m_pc'[p] = "seq" /\ m_pos'[p] = enq /\ m_sent[p] < MaxPush
     \/ Goes(p, "seq", "cas") /\ Stays(p) /\ R!Diff(R!SeqAt(m_pos[p]), m_pos[p]) = 0

PClaims(p) ==
  /\ ByProducer(p) /\ sequence' = sequence /\ m_data' = m_data /\ m_sent' = m_sent
  /\ Goes(p, "cas", "write") /\ Stays(p)
  /\ m_pos[p] = enq /\ enq' = R!Plus(enq, 1)

PWrites(p) ==
  /\ ByProducer(p) /\ enq' = enq /\ sequence' = sequence /\ m_sent' = m_sent
  /\ Goes(p, "write", "publish") /\ Stays(p)
  /\ m_data' = [m_data EXCEPT ![R!Slot(m_pos[p])] = R!Value(p)]

PPublishes(p) ==
  /\ ByProducer(p) /\ enq' = enq /\ m_data' = m_data
  /\ Goes(p, "publish", "idle") /\ Stays(p)
  /\ sequence' = [sequence EXCEPT ![R!Slot(m_pos[p])] = R!Plus(m_pos[p], 1)]
  /\ m_sent' = [m_sent EXCEPT ![p] = @ + 1]

\* A consumer looks.
CLooks(c) ==
  /\ ByConsumer(c) /\ BatchSame /\ deq' = deq /\ sequence' = sequence /\ copied' = copied
  /\ \/ m_pc[c] \in {"seq", "cas", "inflight", "empty"} /\ m_pc'[c] \in {"idle", "reload"}
     \/ m_pc[c] \in {"idle", "reload"} /\ m_pc'[c] = "seq" /\ m_pos'[c] = deq
     \/ /\ m_pc[c] = "seq" /\ Stays(c) /\ R!Diff(R!SeqAt(m_pos[c]), R!Plus(m_pos[c], 1)) = 0
        /\ \/ R!Single /\ m_pc'[c] = "copy"
           \/ ~R!Single /\ m_pc'[c] = "cas"
     \/ Goes(c, "seq", "why") /\ Stays(c)
     \/ Goes(c, "why", "inflight") /\ Stays(c)
     \/ Goes(c, "why", "empty") /\ Stays(c) /\ enq = m_pos[c]

CTakes(c) ==
  /\ ByConsumer(c) /\ BatchSame /\ sequence' = sequence /\ copied' = copied
  /\ Goes(c, "cas", "copy") /\ Stays(c)
  /\ m_pos[c] = deq /\ deq' = R!Plus(deq, 1)

CCopies(c) ==
  /\ ByConsumer(c) /\ BatchSame /\ deq' = deq /\ sequence' = sequence
  /\ m_pc[c] = "copy" /\ Stays(c)
  /\ \/ R!Single /\ m_pc'[c] = "advance"
     \/ ~R!Single /\ m_pc'[c] = "free"
  /\ copied' = [copied EXCEPT ![m_pos[c]] = DataAt(m_pos[c])]

CAdvances(c) ==
  /\ ByConsumer(c) /\ BatchSame /\ sequence' = sequence /\ copied' = copied
  /\ Goes(c, "advance", "free") /\ Stays(c) /\ deq' = R!Plus(m_pos[c], 1)

CFrees(c) ==
  /\ ByConsumer(c) /\ BatchSame /\ deq' = deq /\ copied' = copied
  /\ Goes(c, "free", "idle") /\ Stays(c)
  /\ sequence' = [sequence EXCEPT ![R!Slot(m_pos[c])] = R!Plus(m_pos[c], Cap)]

\* A batch.
BStarts(c) ==
  /\ ByConsumer(c) /\ deq' = deq /\ sequence' = sequence /\ copied' = copied
  /\ R!Single /\ Goes(c, "idle", "bseq") /\ m_pos'[c] = deq
  /\ m_want'[c] \in 1 .. MaxBatch /\ m_k'[c] = 0 /\ freed'[c] = 0

BReads(c) ==
  /\ ByConsumer(c) /\ BatchSame /\ deq' = deq /\ sequence' = sequence /\ copied' = copied
  /\ Goes(c, "bseq", "bcopy") /\ Stays(c)
  /\ m_k[c] < m_want[c] /\ Published(R!Plus(m_pos[c], m_k[c]))

BStops(c) ==
  /\ ByConsumer(c) /\ BatchSame /\ deq' = deq /\ sequence' = sequence /\ copied' = copied
  /\ Goes(c, "bseq", "bfree") /\ Stays(c)
  /\ m_k[c] >= m_want[c] \/ ~Published(R!Plus(m_pos[c], m_k[c]))

BCopies(c) ==
  /\ ByConsumer(c) /\ deq' = deq /\ sequence' = sequence
  /\ Goes(c, "bcopy", "bseq") /\ Stays(c)
  /\ m_want'[c] = m_want[c] /\ m_k'[c] = m_k[c] + 1 /\ freed'[c] = freed[c]
  /\ copied' = [copied EXCEPT ![R!Plus(m_pos[c], m_k[c])] = DataAt(R!Plus(m_pos[c], m_k[c]))]

BFrees(c) ==
  /\ ByConsumer(c) /\ deq' = deq /\ copied' = copied
  /\ Goes(c, "bfree", "bfree") /\ Stays(c) /\ freed[c] < m_k[c]
  /\ m_want'[c] = m_want[c] /\ m_k'[c] = m_k[c] /\ freed'[c] = freed[c] + 1
  /\ sequence' = [sequence EXCEPT ![R!Slot(R!Plus(m_pos[c], freed[c]))] =
                                    R!Plus(R!Plus(m_pos[c], freed[c]), Cap)]

BEnds(c) ==
  /\ ByConsumer(c) /\ BatchSame /\ sequence' = sequence /\ copied' = copied
  /\ Goes(c, "bfree", "idle") /\ Stays(c) /\ freed[c] >= m_k[c]
  /\ deq' = IF m_k[c] = 0 THEN deq ELSE R!Plus(m_pos[c], m_k[c])

\* An observer looks.
OLooks(o) ==
  /\ \A x \in Observers : x # o => m_pc'[x] = m_pc[x] /\ m_pos'[x] = m_pos[x]
  /\ ProducersSame /\ ConsumersSame
  /\ UNCHANGED <<enq, deq, sequence, m_data, m_sent, copied>>
  /\ \/ Goes(o, "idle", "look") /\ m_pos'[o] = deq
     \/ Goes(o, "look", "inflight") /\ Stays(o)
     \/ Goes(o, "look", "empty") /\ Stays(o) /\ enq = m_pos[o]
     \/ m_pc[o] \in {"inflight", "empty"} /\ m_pc'[o] = "idle"

PKinds(p) == PLooks(p) \/ PClaims(p) \/ PWrites(p) \/ PPublishes(p)
CKinds(c) == \/ CLooks(c) \/ CTakes(c) \/ CCopies(c) \/ CAdvances(c) \/ CFrees(c)
             \/ BStarts(c) \/ BReads(c) \/ BStops(c) \/ BCopies(c) \/ BFrees(c) \/ BEnds(c)
RingKinds ==
  \/ \E p \in Producers : PKinds(p)
  \/ \E c \in Consumers : CKinds(c)
  \/ \E o \in Observers : OLooks(o)

\* What is known of the functions over the threads.
RingSpots == {"off", "idle", "reload", "seq", "full", "cas", "write", "publish", "copy", "advance",
              "free", "why", "inflight", "empty", "look", "bseq", "bcopy", "bfree"}
RingShapes ==
  /\ m_pc \in [R!Threads -> RingSpots] /\ m_pos \in [R!Threads -> R!Words]
  /\ m_want \in [Consumers -> 0 .. MaxBatch] /\ m_k \in [Consumers -> 0 .. MaxBatch]
  /\ freed \in [Consumers -> 0 .. MaxBatch]

LEMMA ThreadsApart ==
  /\ \A p \in Producers : p \in R!Threads /\ p \notin Consumers /\ p \notin Observers
  /\ \A c \in Consumers : c \in R!Threads /\ c \notin Producers /\ c \notin Observers
  /\ \A o \in Observers : o \in R!Threads /\ o \notin Producers /\ o \notin Consumers
  /\ R!Threads = Producers \cup Consumers \cup Observers
BY RingAssumption DEF R!MpqAssumption, R!Threads

\* Every step is of one of the kinds.
LEMMA ProducerKinds ==
  ASSUME R!TypeOK, RingPlaces, NEW p \in Producers, R!Push(p)
  PROVE  PKinds(p)
<1> USE ThreadsApart
<1>0. m_pc \in [R!Threads -> RingSpots] /\ m_pos \in [R!Threads -> R!Words]
  BY DEF R!TypeOK, RingSpots
<1>1. CASE R!PushLoad(p)
  <2> USE <1>1 DEF R!PushLoad, R!Goto, R!counters, R!batch, Writing
  <2>1. ByProducer(p) BY <1>0 DEF ByProducer, ConsumersSame, ObserversSame
  <2>2. PLooks(p) BY <1>0, <2>1 DEF PLooks, Goes, Stays, R!SeqAt, RingPlaces
  <2> QED BY <2>2 DEF PKinds
<1>2. CASE R!PushSeq(p)
  <2> USE <1>2 DEF R!PushSeq, R!Goto, R!counters, R!batch, Writing
  <2>1. ByProducer(p) BY <1>0 DEF ByProducer, ConsumersSame, ObserversSame
  <2>2. PLooks(p) BY <1>0, <2>1 DEF PLooks, Goes, Stays, R!SeqAt, RingPlaces
  <2> QED BY <2>2 DEF PKinds
<1>3. CASE R!PushFull(p)
  <2> USE <1>3 DEF R!PushFull, R!Goto, R!counters, R!batch, Writing
  <2>1. ByProducer(p) BY <1>0 DEF ByProducer, ConsumersSame, ObserversSame
  <2>2. PLooks(p) BY <1>0, <2>1 DEF PLooks, Goes, Stays, R!SeqAt, RingPlaces
  <2> QED BY <2>2 DEF PKinds
<1>4. CASE R!PushClaim(p)
  <2> USE <1>4 DEF R!PushClaim, R!Goto, R!counters, R!batch, Writing
  <2>1. ByProducer(p) BY <1>0 DEF ByProducer, ConsumersSame, ObserversSame
  <2>2. PClaims(p) BY <1>0, <2>1 DEF PClaims, Goes, Stays, R!SeqAt, RingPlaces
  <2> QED BY <2>2 DEF PKinds
<1>5. CASE R!PushLost(p)
  <2> USE <1>5 DEF R!PushLost, R!Goto, R!counters, R!batch, Writing
  <2>1. ByProducer(p) BY <1>0 DEF ByProducer, ConsumersSame, ObserversSame
  <2>2. PLooks(p) BY <1>0, <2>1 DEF PLooks, Goes, Stays, R!SeqAt, RingPlaces
  <2> QED BY <2>2 DEF PKinds
<1>6. CASE R!PushWrite(p)
  <2> USE <1>6 DEF R!PushWrite, R!Goto, R!counters, R!batch, Writing
  <2>1. ByProducer(p) BY <1>0 DEF ByProducer, ConsumersSame, ObserversSame
  <2>2. PWrites(p) BY <1>0, <2>1 DEF PWrites, Goes, Stays, R!SeqAt, RingPlaces
  <2> QED BY <2>2 DEF PKinds
<1>7. CASE R!PushPublish(p)
  <2> USE <1>7 DEF R!PushPublish, R!Goto, R!counters, R!batch, Writing
  <2>1. ByProducer(p) BY <1>0 DEF ByProducer, ConsumersSame, ObserversSame
  <2>2. PPublishes(p) BY <1>0, <2>1 DEF PPublishes, Goes, Stays, R!SeqAt, RingPlaces
  <2> QED BY <2>2 DEF PKinds
<1> QED BY <1>1, <1>2, <1>3, <1>4, <1>5, <1>6, <1>7 DEF R!Push

LEMMA ConsumerKinds ==
  ASSUME R!TypeOK, NEW c \in Consumers, R!Pop(c) \/ R!PopBatch(c)
  PROVE  CKinds(c)
<1> USE ThreadsApart
<1>0. RingShapes BY DEF R!TypeOK, RingShapes, RingSpots
<1>1. CASE R!PopLoad(c)
  <2> USE <1>1 DEF R!PopLoad, R!Goto, R!counters, R!batch, RingShapes
  <2>1. ByConsumer(c) BY <1>0 DEF ByConsumer, ProducersSame, ObserversSame
  <2>2. CLooks(c) BY <1>0, <2>1 DEF CLooks, Goes, Stays, BatchSame, R!SeqAt, DataAt
  <2> QED BY <2>2 DEF CKinds
<1>2. CASE R!PopSeq(c)
  <2> USE <1>2 DEF R!PopSeq, R!Goto, R!counters, R!batch, RingShapes
  <2>1. ByConsumer(c) BY <1>0 DEF ByConsumer, ProducersSame, ObserversSame
  <2>2. CLooks(c) BY <1>0, <2>1 DEF CLooks, Goes, Stays, BatchSame, R!SeqAt, DataAt
  <2> QED BY <2>2 DEF CKinds
<1>3. CASE R!PopWhy(c)
  <2> USE <1>3 DEF R!PopWhy, R!Goto, R!counters, R!batch, RingShapes
  <2>1. ByConsumer(c) BY <1>0 DEF ByConsumer, ProducersSame, ObserversSame
  <2>2. CLooks(c) BY <1>0, <2>1 DEF CLooks, Goes, Stays, BatchSame, R!SeqAt, DataAt
  <2> QED BY <2>2 DEF CKinds
<1>4. CASE R!PopClaim(c)
  <2> USE <1>4 DEF R!PopClaim, R!Goto, R!counters, R!batch, RingShapes
  <2>1. ByConsumer(c) BY <1>0 DEF ByConsumer, ProducersSame, ObserversSame
  <2>2. CTakes(c) BY <1>0, <2>1 DEF CTakes, Goes, Stays, BatchSame, R!SeqAt, DataAt
  <2> QED BY <2>2 DEF CKinds
<1>5. CASE R!PopLost(c)
  <2> USE <1>5 DEF R!PopLost, R!Goto, R!counters, R!batch, RingShapes
  <2>1. ByConsumer(c) BY <1>0 DEF ByConsumer, ProducersSame, ObserversSame
  <2>2. CLooks(c) BY <1>0, <2>1 DEF CLooks, Goes, Stays, BatchSame, R!SeqAt, DataAt
  <2> QED BY <2>2 DEF CKinds
<1>6. CASE R!PopCopy(c)
  <2> USE <1>6 DEF R!PopCopy, R!Goto, R!counters, R!batch, RingShapes
  <2>1. ByConsumer(c) BY <1>0 DEF ByConsumer, ProducersSame, ObserversSame
  <2>2. CCopies(c) BY <1>0, <2>1 DEF CCopies, Goes, Stays, BatchSame, R!SeqAt, DataAt
  <2> QED BY <2>2 DEF CKinds
<1>7. CASE R!PopAdvance(c)
  <2> USE <1>7 DEF R!PopAdvance, R!Goto, R!counters, R!batch, RingShapes
  <2>1. ByConsumer(c) BY <1>0 DEF ByConsumer, ProducersSame, ObserversSame
  <2>2. CAdvances(c) BY <1>0, <2>1 DEF CAdvances, Goes, Stays, BatchSame, R!SeqAt, DataAt
  <2> QED BY <2>2 DEF CKinds
<1>8. CASE R!PopFree(c)
  <2> USE <1>8 DEF R!PopFree, R!Goto, R!counters, R!batch, RingShapes
  <2>1. ByConsumer(c) BY <1>0 DEF ByConsumer, ProducersSame, ObserversSame
  <2>2. CFrees(c) BY <1>0, <2>1 DEF CFrees, Goes, Stays, BatchSame, R!SeqAt, DataAt
  <2> QED BY <2>2 DEF CKinds
<1>9. CASE R!Returned(c)
  <2> USE <1>9 DEF R!Returned, R!Goto, R!counters, R!batch, RingShapes
  <2>1. ByConsumer(c) BY <1>0 DEF ByConsumer, ProducersSame, ObserversSame
  <2>2. CLooks(c) BY <1>0, <2>1 DEF CLooks, Goes, Stays, BatchSame, R!SeqAt, DataAt
  <2> QED BY <2>2 DEF CKinds
<1>10. CASE R!BatchSeq(c)
  <2> USE <1>10 DEF R!BatchSeq, R!Goto, R!counters, R!batch, RingShapes
  <2>1. ByConsumer(c) BY <1>0 DEF ByConsumer, ProducersSame, ObserversSame
  <2>2. BReads(c) \/ BStops(c)
    BY <1>0, <2>1 DEF BReads, BStops, Goes, Stays, BatchSame, Published, R!SeqAt
  <2> QED BY <2>2 DEF CKinds
<1>11. CASE R!BatchCopy(c)
  <2> USE <1>11 DEF R!BatchCopy, R!Goto, R!counters, R!batch, RingShapes
  <2>1. ByConsumer(c) BY <1>0 DEF ByConsumer, ProducersSame, ObserversSame
  <2>2. BCopies(c) BY <1>0, <2>1 DEF BCopies, Goes, Stays, BatchSame, R!SeqAt, DataAt
  <2> QED BY <2>2 DEF CKinds
<1>12. CASE R!BatchFree(c)
  <2> USE <1>12 DEF R!BatchFree, R!Goto, R!counters, R!batch, RingShapes
  <2>1. ByConsumer(c) BY <1>0 DEF ByConsumer, ProducersSame, ObserversSame
  <2>2. BFrees(c) BY <1>0, <2>1 DEF BFrees, Goes, Stays, BatchSame, R!SeqAt, DataAt
  <2> QED BY <2>2 DEF CKinds
<1>13. CASE R!BatchAdvance(c)
  <2> USE <1>13 DEF R!BatchAdvance, R!Goto, R!counters, R!batch, RingShapes
  <2>1. ByConsumer(c) BY <1>0 DEF ByConsumer, ProducersSame, ObserversSame
  <2>2. BEnds(c) BY <1>0, <2>1 DEF BEnds, Goes, Stays, BatchSame, R!SeqAt, DataAt
  <2> QED BY <2>2 DEF CKinds
<1>14. ASSUME NEW w \in 1 .. MaxBatch, R!BatchStart(c, w) PROVE CKinds(c)
  <2> USE <1>14 DEF R!BatchStart, R!Goto, R!counters, RingShapes
  <2>1. ByConsumer(c) BY <1>0 DEF ByConsumer, ProducersSame, ObserversSame
  <2>2. BStarts(c) BY <1>0, <2>1 DEF BStarts, Goes
  <2> QED BY <2>2 DEF CKinds
<1> QED
  BY <1>1, <1>2, <1>3, <1>4, <1>5, <1>6, <1>7, <1>8, <1>9, <1>10, <1>11, <1>12, <1>13,
      <1>14 DEF R!Pop, R!PopBatch

LEMMA ObserverKinds ==
  ASSUME R!TypeOK, NEW o \in Observers, R!Look(o)
  PROVE  OLooks(o)
<1> USE ThreadsApart
<1>0. m_pc \in [R!Threads -> RingSpots] /\ m_pos \in [R!Threads -> R!Words]
  BY DEF R!TypeOK, RingSpots
<1>1. CASE R!LookDeq(o)
  <2> USE <1>1 DEF R!LookDeq, R!Goto, R!counters, R!batch
  <2>1. ProducersSame /\ ConsumersSame BY <1>0 DEF ProducersSame, ConsumersSame
  <2> QED BY <1>0, <2>1 DEF OLooks, Goes, Stays
<1>2. CASE R!LookEnq(o)
  <2> USE <1>2 DEF R!LookEnq, R!Goto, R!counters, R!batch
  <2>1. ProducersSame /\ ConsumersSame BY <1>0 DEF ProducersSame, ConsumersSame
  <2> QED BY <1>0, <2>1 DEF OLooks, Goes, Stays
<1>3. CASE R!Returned(o)
  <2> USE <1>3 DEF R!Returned, R!Goto, R!counters, R!batch
  <2>1. ProducersSame /\ ConsumersSame BY <1>0 DEF ProducersSame, ConsumersSame
  <2> QED BY <1>0, <2>1 DEF OLooks, Goes, Stays
<1> QED BY <1>1, <1>2, <1>3 DEF R!Look

LEMMA RingNextKinds == R!TypeOK /\ RingPlaces /\ R!Next => RingKinds
<1> SUFFICES ASSUME R!TypeOK, RingPlaces, R!Next PROVE RingKinds
  OBVIOUS
<1>1. CASE \E p \in Producers : R!Push(p) BY <1>1, ProducerKinds DEF RingKinds
<1>2. CASE \E c \in Consumers : R!Pop(c) \/ R!PopBatch(c) BY <1>2, ConsumerKinds DEF RingKinds
<1>3. CASE \E o \in Observers : R!Look(o) BY <1>3, ObserverKinds DEF RingKinds
<1> QED BY <1>1, <1>2, <1>3 DEF R!Next

-----------------------------------------------------------------------------
(* The ring: types and places *)

LEMMA PlusWord ==
  ASSUME NEW a \in Nat, NEW i \in Nat
  PROVE  R!Plus(a, i) \in R!Words
<1>1. a + i \in Nat /\ Word \in Nat \ {0} BY RingSetting
<1>2. (a + i) % Word \in 0 .. Word - 1 BY <1>1, DivMod
<1> QED BY <1>2 DEF R!Plus, R!Words

LEMMA WordPlus ==
  ASSUME NEW a \in R!Words
  PROVE  /\ \A i \in Nat : R!Plus(a, i) \in R!Words
         /\ R!Plus(a, 1) \in R!Words /\ R!Plus(a, Cap) \in R!Words
<1>1. a \in Nat /\ 1 \in Nat /\ Cap \in Nat BY RingSetting DEF R!Words
<1> QED BY <1>1, PlusWord

LEMMA RSlotType == ASSUME NEW a \in R!Words PROVE R!Slot(a) \in 0 .. Cap - 1
BY OfsSlot

LEMMA RingTypesStart == R!Init => R!TypeOK
<1> SUFFICES ASSUME R!Init PROVE R!TypeOK
  OBVIOUS
<1> USE RingSetting DEF R!Init, R!TypeOK, R!Words
<1>1. enq \in R!Words /\ deq \in R!Words OBVIOUS
<1>2. sequence \in [0 .. Cap - 1 -> R!Words]
  <2>1. \A s \in 0 .. Cap - 1 : R!Plus(Start, s) \in R!Words
    <3> SUFFICES ASSUME NEW s \in 0 .. Cap - 1 PROVE R!Plus(Start, s) \in R!Words
      OBVIOUS
    <3>1. s \in Nat /\ Start \in Nat OBVIOUS
    <3> QED BY <3>1, PlusWord
  <2> QED BY <2>1
<1>3. m_data \in [0 .. Cap - 1 -> (Producers \X (1 .. MaxPush)) \cup {Void}] OBVIOUS
<1>4. m_pc \in [R!Threads -> {"off", "idle", "reload", "seq", "full", "cas", "write", "publish", "copy",
                         "advance", "free", "why", "inflight", "empty", "look",
                         "bseq", "bcopy", "bfree"}]
  OBVIOUS
<1>5. /\ m_want \in [Consumers -> 0 .. MaxBatch] /\ m_k \in [Consumers -> 0 .. MaxBatch]
      /\ freed \in [Consumers -> 0 .. MaxBatch] /\ m_sent \in [Producers -> 0 .. MaxPush]
      /\ m_pos \in [R!Threads -> R!Words]
      /\ copied \in [R!Words -> (Producers \X (1 .. MaxPush)) \cup {Void}]
  OBVIOUS
<1> QED BY <1>1, <1>2, <1>3, <1>4, <1>5

LEMMA RingTypesStep == R!TypeOK /\ RingPlaces /\ R!Next => R!TypeOK'
<1> SUFFICES ASSUME R!TypeOK, RingPlaces, R!Next PROVE R!TypeOK'
  OBVIOUS
<1> USE ThreadsApart DEF R!counters, R!batch, R!Goto
<1>1. ASSUME NEW p \in Producers, R!Push(p) PROVE R!TypeOK'
  <2>0. p \in R!Threads /\ m_pos[p] \in R!Words /\ R!Slot(m_pos[p]) \in 0 .. Cap - 1
    BY RSlotType DEF R!TypeOK
  <2>1. CASE R!PushLoad(p) BY <2>1, <2>0 DEF R!PushLoad, R!TypeOK
  <2>2. CASE R!PushSeq(p) BY <2>2, <2>0 DEF R!PushSeq, R!TypeOK
  <2>3. CASE R!PushFull(p) BY <2>3, <2>0 DEF R!PushFull, R!TypeOK
  <2>4. CASE R!PushClaim(p)
    <3>1. R!Plus(enq, 1) \in R!Words BY WordPlus DEF R!TypeOK
    <3> QED BY <2>4, <2>0, <3>1 DEF R!PushClaim, R!TypeOK
  <2>5. CASE R!PushLost(p) BY <2>5, <2>0 DEF R!PushLost, R!TypeOK
  <2>6. CASE R!PushWrite(p)
    <3>1. R!Value(p) \in Producers \X (1 .. MaxPush)
      BY <2>6, RingSetting DEF R!PushWrite, R!TypeOK, RingPlaces, R!Value
    <3> QED BY <2>6, <2>0, <3>1 DEF R!PushWrite, R!TypeOK
  <2>7. CASE R!PushPublish(p)
    <3>1. R!Plus(m_pos[p], 1) \in R!Words BY <2>0, WordPlus
    <3>2. m_sent[p] + 1 \in 0 .. MaxPush
      <4>1. m_sent[p] \in 0 .. MaxPush /\ m_pc[p] = "publish" BY <2>7 DEF R!PushPublish, R!TypeOK
      <4>2. m_sent[p] < MaxPush BY <4>1 DEF RingPlaces
      <4> QED BY <4>1, <4>2, RingSetting
    <3> QED BY <2>7, <2>0, <3>1, <3>2 DEF R!PushPublish, R!TypeOK
  <2> QED BY <1>1, <2>1, <2>2, <2>3, <2>4, <2>5, <2>6, <2>7 DEF R!Push
<1>2. ASSUME NEW c \in Consumers, R!Pop(c) \/ R!PopBatch(c) PROVE R!TypeOK'
  <2>0. /\ c \in R!Threads /\ m_pos[c] \in R!Words /\ R!Slot(m_pos[c]) \in 0 .. Cap - 1
        /\ m_k[c] \in Nat /\ freed[c] \in Nat /\ m_want[c] \in Nat /\ m_want[c] <= MaxBatch
        /\ m_pos[c] \in Nat
    BY RSlotType, RingSetting DEF R!TypeOK, R!Words
  <2>a. \A i \in Nat : R!Plus(m_pos[c], i) \in R!Words BY <2>0, PlusWord
  <2>1. CASE R!PopLoad(c) BY <2>1, <2>0 DEF R!PopLoad, R!TypeOK
  <2>2. CASE R!PopSeq(c) BY <2>2, <2>0 DEF R!PopSeq, R!TypeOK
  <2>3. CASE R!PopWhy(c) BY <2>3, <2>0 DEF R!PopWhy, R!TypeOK
  <2>4. CASE R!PopClaim(c)
    <3>1. R!Plus(deq, 1) \in R!Words BY WordPlus DEF R!TypeOK
    <3> QED BY <2>4, <2>0, <3>1 DEF R!PopClaim, R!TypeOK
  <2>5. CASE R!PopLost(c) BY <2>5, <2>0 DEF R!PopLost, R!TypeOK
  <2>6. CASE R!PopCopy(c)
    <3>1. m_data[R!Slot(m_pos[c])] \in (Producers \X (1 .. MaxPush)) \cup {Void}
      BY <2>0 DEF R!TypeOK
    <3> QED BY <2>6, <2>0, <3>1 DEF R!PopCopy, R!TypeOK
  <2>7. CASE R!PopAdvance(c)
    <3>1. R!Plus(m_pos[c], 1) \in R!Words BY <2>a
    <3> QED BY <2>7, <2>0, <3>1 DEF R!PopAdvance, R!TypeOK
  <2>8. CASE R!PopFree(c)
    <3>1. R!Plus(m_pos[c], Cap) \in R!Words BY <2>a, RingSetting
    <3> QED BY <2>8, <2>0, <3>1 DEF R!PopFree, R!TypeOK
  <2>9. CASE R!Returned(c) BY <2>9, <2>0 DEF R!Returned, R!TypeOK
  <2>10. CASE R!BatchSeq(c) BY <2>10, <2>0 DEF R!BatchSeq, R!TypeOK
  <2>11. CASE R!BatchCopy(c)
    <3> DEFINE a == R!Plus(m_pos[c], m_k[c])
    <3>1. a \in R!Words BY <2>a, <2>0
    <3>2. m_data[R!Slot(a)] \in (Producers \X (1 .. MaxPush)) \cup {Void}
      BY <3>1, RSlotType DEF R!TypeOK
    <3>3. m_k[c] + 1 \in 0 .. MaxBatch BY <2>11, <2>0, RingSetting DEF R!BatchCopy, RingPlaces
    <3> QED BY <2>11, <2>0, <3>1, <3>2, <3>3 DEF R!BatchCopy, R!TypeOK
  <2>12. CASE R!BatchFree(c)
    <3> DEFINE a == R!Plus(m_pos[c], freed[c])
    <3>1. a \in R!Words BY <2>a, <2>0
    <3>2. R!Plus(a, Cap) \in R!Words BY <3>1, WordPlus
    <3>3. R!Slot(a) \in 0 .. Cap - 1 BY <3>1, RSlotType
    <3>4. freed[c] + 1 \in 0 .. MaxBatch
      <4>1. m_k[c] <= MaxBatch BY RingSetting DEF R!TypeOK
      <4> QED BY <2>12, <2>0, <4>1, RingSetting DEF R!BatchFree
    <3> QED BY <2>12, <2>0, <3>1, <3>2, <3>3, <3>4 DEF R!BatchFree, R!TypeOK
  <2>13. CASE R!BatchAdvance(c)
    <3>1. R!Plus(m_pos[c], m_k[c]) \in R!Words BY <2>a, <2>0
    <3> QED BY <2>13, <2>0, <3>1 DEF R!BatchAdvance, R!TypeOK
  <2>14. CASE \E w \in 1 .. MaxBatch : R!BatchStart(c, w)
    <3>1. PICK w \in 1 .. MaxBatch : R!BatchStart(c, w) BY <2>14
    <3>2. w \in 0 .. MaxBatch /\ 0 \in 0 .. MaxBatch BY RingSetting
    <3> QED BY <3>1, <3>2, <2>0 DEF R!BatchStart, R!TypeOK
  <2> QED
    BY <1>2, <2>1, <2>2, <2>3, <2>4, <2>5, <2>6, <2>7, <2>8, <2>9, <2>10, <2>11, <2>12, <2>13,
        <2>14 DEF R!Pop, R!PopBatch
<1>3. ASSUME NEW o \in Observers, R!Look(o) PROVE R!TypeOK'
  <2>1. CASE R!LookDeq(o) BY <2>1 DEF R!LookDeq, R!TypeOK
  <2>2. CASE R!LookEnq(o) BY <2>2 DEF R!LookEnq, R!TypeOK
  <2>3. CASE R!Returned(o) BY <2>3 DEF R!Returned, R!TypeOK
  <2> QED BY <1>3, <2>1, <2>2, <2>3 DEF R!Look
<1> QED BY <1>1, <1>2, <1>3 DEF R!Next

\* The queue is used by the same consumers throughout, by one or by several.
LEMMA SingleIs == R!Single <=> Cardinality(Users) = 1
BY SameSets DEF R!Single, Users

LEMMA OneUser ==
  ASSUME IsFiniteSet(Users), R!Single, NEW c \in Consumers, NEW d \in Consumers,
         m_pc[c] # "off", m_pc[d] # "off"
  PROVE  c = d
<1>1. c \in Users /\ d \in Users BY DEF Users
<1>2. PICK x : Users = {x} BY SingleIs, FS_Singleton
<1> QED BY <1>1, <1>2

LEMMA UsersKept == RingKinds => Users' = Users /\ R!Single' = R!Single
<1> SUFFICES ASSUME RingKinds PROVE Users' = Users /\ R!Single' = R!Single
  OBVIOUS
<1> DEFINE Same == \A d \in Consumers : m_pc'[d] = "off" <=> m_pc[d] = "off"
<1>1. Same
  <2>p. ASSUME NEW p \in Producers, PKinds(p) PROVE Same
    <3>1. CASE PLooks(p) BY <3>1 DEF PLooks, ByProducer, ConsumersSame
    <3>2. CASE PClaims(p) BY <3>2 DEF PClaims, ByProducer, ConsumersSame
    <3>3. CASE PWrites(p) BY <3>3 DEF PWrites, ByProducer, ConsumersSame
    <3>4. CASE PPublishes(p) BY <3>4 DEF PPublishes, ByProducer, ConsumersSame
    <3> QED BY <2>p, <3>1, <3>2, <3>3, <3>4 DEF PKinds
  <2>c. ASSUME NEW c \in Consumers, CKinds(c) PROVE Same
    <3>1. CASE CLooks(c) BY <3>1 DEF CLooks, ByConsumer, Goes
    <3>2. CASE CTakes(c) BY <3>2 DEF CTakes, ByConsumer, Goes
    <3>3. CASE CCopies(c) BY <3>3 DEF CCopies, ByConsumer, Goes
    <3>4. CASE CAdvances(c) BY <3>4 DEF CAdvances, ByConsumer, Goes
    <3>5. CASE CFrees(c) BY <3>5 DEF CFrees, ByConsumer, Goes
    <3>6. CASE BStarts(c) BY <3>6 DEF BStarts, ByConsumer, Goes
    <3>7. CASE BReads(c) BY <3>7 DEF BReads, ByConsumer, Goes
    <3>8. CASE BStops(c) BY <3>8 DEF BStops, ByConsumer, Goes
    <3>9. CASE BCopies(c) BY <3>9 DEF BCopies, ByConsumer, Goes
    <3>10. CASE BFrees(c) BY <3>10 DEF BFrees, ByConsumer, Goes
    <3>11. CASE BEnds(c) BY <3>11 DEF BEnds, ByConsumer, Goes
    <3> QED BY <2>c, <3>1, <3>2, <3>3, <3>4, <3>5, <3>6, <3>7, <3>8, <3>9, <3>10, <3>11 DEF CKinds
  <2>o. ASSUME NEW o \in Observers, OLooks(o) PROVE Same
    BY <2>o DEF OLooks, ConsumersSame
  <2> QED BY <2>p, <2>c, <2>o DEF RingKinds
<1>2. Users' = Users BY <1>1 DEF Users
<1>3. (R!Single <=> Cardinality(Users) = 1)' BY SingleIs, PTL
<1>4. R!Single' <=> R!Single BY <1>2, <1>3, SingleIs
<1> QED BY <1>2, <1>4 DEF R!Single

\* Who is in the middle of what, with a single consumer and with several.
LEMMA RingPlacesStep == RingShapes /\ RingPlaces /\ RingKinds => RingPlaces'
<1> SUFFICES ASSUME RingShapes, RingPlaces, RingKinds PROVE RingPlaces'
  OBVIOUS
<1>0. Users' = Users /\ (R!Single' <=> R!Single) /\ IsFiniteSet(Users') BY UsersKept DEF RingPlaces
<1>p. ASSUME NEW p \in Producers, PKinds(p) PROVE RingPlaces'
  <2>1. CASE PLooks(p)
    <3>1. \A x \in Producers :
            /\ m_pc'[x] \in {"idle", "reload", "seq", "full", "cas", "write", "publish"}
            /\ m_pc'[x] # "idle" => m_sent'[x] < MaxPush
      BY <2>1 DEF PLooks, ByProducer, Goes, Writing, RingPlaces
    <3>2. ConsumersSame /\ ObserversSame BY <2>1 DEF PLooks, ByProducer
    <3>3. \A d \in Consumers :
            m_pc'[d] = m_pc[d] /\ m_want'[d] = m_want[d] /\ m_k'[d] = m_k[d] /\ freed'[d] = freed[d]
      BY <3>2 DEF ConsumersSame
    <3>4. \A x \in Observers : m_pc'[x] = m_pc[x] BY <3>2 DEF ObserversSame
    <3>5. \A d \in Consumers :
            /\ m_pc'[d] \in {"off", "idle", "reload", "seq", "cas", "copy", "advance", "free", "why",
                             "inflight", "empty", "bseq", "bcopy", "bfree"}
            /\ m_pc'[d] = "advance" \/ m_pc'[d] \in Batching => R!Single'
            /\ m_pc'[d] = "cas" => ~R!Single'
            /\ m_pc'[d] \in Batching => m_want'[d] >= 1 /\ m_k'[d] <= m_want'[d] /\ freed'[d] <= m_k'[d]
            /\ m_pc'[d] = "bcopy" => m_k'[d] < m_want'[d]
      BY <3>3, <1>0 DEF RingPlaces
    <3> QED BY <3>1, <3>4, <3>5, <1>0 DEF RingPlaces
  <2>2. CASE PClaims(p)
    BY <2>2, <1>0 DEF PClaims, ByProducer, ConsumersSame, ObserversSame, Goes, Writing, RingPlaces,
        Batching
  <2>3. CASE PWrites(p)
    BY <2>3, <1>0 DEF PWrites, ByProducer, ConsumersSame, ObserversSame, Goes, Writing, RingPlaces,
        Batching
  <2>4. CASE PPublishes(p)
    <3>1. \A x \in Producers :
            /\ m_pc'[x] \in {"idle", "reload", "seq", "full", "cas", "write", "publish"}
            /\ m_pc'[x] # "idle" => m_sent'[x] < MaxPush
      BY <2>4 DEF PPublishes, ByProducer, Goes, RingPlaces
    <3>2. ConsumersSame /\ ObserversSame BY <2>4 DEF PPublishes, ByProducer
    <3>3. \A d \in Consumers :
            m_pc'[d] = m_pc[d] /\ m_want'[d] = m_want[d] /\ m_k'[d] = m_k[d] /\ freed'[d] = freed[d]
      BY <3>2 DEF ConsumersSame
    <3>4. \A x \in Observers : m_pc'[x] = m_pc[x] BY <3>2 DEF ObserversSame
    <3>5. \A d \in Consumers :
            /\ m_pc'[d] \in {"off", "idle", "reload", "seq", "cas", "copy", "advance", "free", "why",
                             "inflight", "empty", "bseq", "bcopy", "bfree"}
            /\ m_pc'[d] = "advance" \/ m_pc'[d] \in Batching => R!Single'
            /\ m_pc'[d] = "cas" => ~R!Single'
            /\ m_pc'[d] \in Batching => m_want'[d] >= 1 /\ m_k'[d] <= m_want'[d] /\ freed'[d] <= m_k'[d]
            /\ m_pc'[d] = "bcopy" => m_k'[d] < m_want'[d]
      BY <3>3, <1>0 DEF RingPlaces
    <3> QED BY <3>1, <3>4, <3>5, <1>0 DEF RingPlaces
  <2> QED BY <1>p, <2>1, <2>2, <2>3, <2>4 DEF PKinds
<1>c. ASSUME NEW c \in Consumers, CKinds(c) PROVE RingPlaces'
  <2>1. CASE CLooks(c)
    <3>1. \A d \in Consumers : d # c =>
            m_pc'[d] = m_pc[d] /\ m_want'[d] = m_want[d] /\ m_k'[d] = m_k[d] /\ freed'[d] = freed[d]
      BY <2>1 DEF CLooks, ByConsumer
    <3>2. /\ m_pc'[c] \in {"off", "idle", "reload", "seq", "cas", "copy", "advance", "free", "why",
                           "inflight", "empty", "bseq", "bcopy", "bfree"}
          /\ m_pc'[c] = "advance" \/ m_pc'[c] \in Batching => R!Single
          /\ m_pc'[c] = "cas" => ~R!Single
          /\ m_pc'[c] \in Batching => m_want'[c] >= 1 /\ m_k'[c] <= m_want'[c] /\ freed'[c] <= m_k'[c]
          /\ m_pc'[c] = "bcopy" => m_k'[c] < m_want'[c]
      BY <2>1 DEF CLooks, Goes, BatchSame, Batching, RingPlaces, RingShapes
    <3>3. \A x \in Producers : m_pc'[x] = m_pc[x] /\ m_sent'[x] = m_sent[x]
      BY <2>1 DEF CLooks, ByConsumer, ProducersSame
    <3>4. \A x \in Observers : m_pc'[x] = m_pc[x] BY <2>1 DEF CLooks, ByConsumer, ObserversSame
    <3> QED BY <3>1, <3>2, <3>3, <3>4, <1>0 DEF RingPlaces
  <2>2. CASE CTakes(c)
    <3>1. \A d \in Consumers : d # c =>
            m_pc'[d] = m_pc[d] /\ m_want'[d] = m_want[d] /\ m_k'[d] = m_k[d] /\ freed'[d] = freed[d]
      BY <2>2 DEF CTakes, ByConsumer
    <3>2. /\ m_pc'[c] \in {"off", "idle", "reload", "seq", "cas", "copy", "advance", "free", "why",
                           "inflight", "empty", "bseq", "bcopy", "bfree"}
          /\ m_pc'[c] = "advance" \/ m_pc'[c] \in Batching => R!Single
          /\ m_pc'[c] = "cas" => ~R!Single
          /\ m_pc'[c] \in Batching => m_want'[c] >= 1 /\ m_k'[c] <= m_want'[c] /\ freed'[c] <= m_k'[c]
          /\ m_pc'[c] = "bcopy" => m_k'[c] < m_want'[c]
      BY <2>2 DEF CTakes, Goes, BatchSame, Batching, RingPlaces, RingShapes
    <3>3. \A x \in Producers : m_pc'[x] = m_pc[x] /\ m_sent'[x] = m_sent[x]
      BY <2>2 DEF CTakes, ByConsumer, ProducersSame
    <3>4. \A x \in Observers : m_pc'[x] = m_pc[x] BY <2>2 DEF CTakes, ByConsumer, ObserversSame
    <3> QED BY <3>1, <3>2, <3>3, <3>4, <1>0 DEF RingPlaces
  <2>3. CASE CCopies(c)
    <3>1. \A d \in Consumers : d # c =>
            m_pc'[d] = m_pc[d] /\ m_want'[d] = m_want[d] /\ m_k'[d] = m_k[d] /\ freed'[d] = freed[d]
      BY <2>3 DEF CCopies, ByConsumer
    <3>2. /\ m_pc'[c] \in {"off", "idle", "reload", "seq", "cas", "copy", "advance", "free", "why",
                           "inflight", "empty", "bseq", "bcopy", "bfree"}
          /\ m_pc'[c] = "advance" \/ m_pc'[c] \in Batching => R!Single
          /\ m_pc'[c] = "cas" => ~R!Single
          /\ m_pc'[c] \in Batching => m_want'[c] >= 1 /\ m_k'[c] <= m_want'[c] /\ freed'[c] <= m_k'[c]
          /\ m_pc'[c] = "bcopy" => m_k'[c] < m_want'[c]
      BY <2>3 DEF CCopies, Goes, BatchSame, Batching, RingPlaces, RingShapes
    <3>3. \A x \in Producers : m_pc'[x] = m_pc[x] /\ m_sent'[x] = m_sent[x]
      BY <2>3 DEF CCopies, ByConsumer, ProducersSame
    <3>4. \A x \in Observers : m_pc'[x] = m_pc[x] BY <2>3 DEF CCopies, ByConsumer, ObserversSame
    <3> QED BY <3>1, <3>2, <3>3, <3>4, <1>0 DEF RingPlaces
  <2>4. CASE CAdvances(c)
    <3>1. \A d \in Consumers : d # c =>
            m_pc'[d] = m_pc[d] /\ m_want'[d] = m_want[d] /\ m_k'[d] = m_k[d] /\ freed'[d] = freed[d]
      BY <2>4 DEF CAdvances, ByConsumer
    <3>2. /\ m_pc'[c] \in {"off", "idle", "reload", "seq", "cas", "copy", "advance", "free", "why",
                           "inflight", "empty", "bseq", "bcopy", "bfree"}
          /\ m_pc'[c] = "advance" \/ m_pc'[c] \in Batching => R!Single
          /\ m_pc'[c] = "cas" => ~R!Single
          /\ m_pc'[c] \in Batching => m_want'[c] >= 1 /\ m_k'[c] <= m_want'[c] /\ freed'[c] <= m_k'[c]
          /\ m_pc'[c] = "bcopy" => m_k'[c] < m_want'[c]
      BY <2>4 DEF CAdvances, Goes, BatchSame, Batching, RingPlaces, RingShapes
    <3>3. \A x \in Producers : m_pc'[x] = m_pc[x] /\ m_sent'[x] = m_sent[x]
      BY <2>4 DEF CAdvances, ByConsumer, ProducersSame
    <3>4. \A x \in Observers : m_pc'[x] = m_pc[x] BY <2>4 DEF CAdvances, ByConsumer, ObserversSame
    <3> QED BY <3>1, <3>2, <3>3, <3>4, <1>0 DEF RingPlaces
  <2>5. CASE CFrees(c)
    <3>1. \A d \in Consumers : d # c =>
            m_pc'[d] = m_pc[d] /\ m_want'[d] = m_want[d] /\ m_k'[d] = m_k[d] /\ freed'[d] = freed[d]
      BY <2>5 DEF CFrees, ByConsumer
    <3>2. /\ m_pc'[c] \in {"off", "idle", "reload", "seq", "cas", "copy", "advance", "free", "why",
                           "inflight", "empty", "bseq", "bcopy", "bfree"}
          /\ m_pc'[c] = "advance" \/ m_pc'[c] \in Batching => R!Single
          /\ m_pc'[c] = "cas" => ~R!Single
          /\ m_pc'[c] \in Batching => m_want'[c] >= 1 /\ m_k'[c] <= m_want'[c] /\ freed'[c] <= m_k'[c]
          /\ m_pc'[c] = "bcopy" => m_k'[c] < m_want'[c]
      BY <2>5 DEF CFrees, Goes, BatchSame, Batching, RingPlaces, RingShapes
    <3>3. \A x \in Producers : m_pc'[x] = m_pc[x] /\ m_sent'[x] = m_sent[x]
      BY <2>5 DEF CFrees, ByConsumer, ProducersSame
    <3>4. \A x \in Observers : m_pc'[x] = m_pc[x] BY <2>5 DEF CFrees, ByConsumer, ObserversSame
    <3> QED BY <3>1, <3>2, <3>3, <3>4, <1>0 DEF RingPlaces
  <2>6. CASE BStarts(c)
    <3>1. \A d \in Consumers : d # c =>
            m_pc'[d] = m_pc[d] /\ m_want'[d] = m_want[d] /\ m_k'[d] = m_k[d] /\ freed'[d] = freed[d]
      BY <2>6 DEF BStarts, ByConsumer
    <3>2. /\ m_pc'[c] \in {"off", "idle", "reload", "seq", "cas", "copy", "advance", "free", "why",
                           "inflight", "empty", "bseq", "bcopy", "bfree"}
          /\ m_pc'[c] = "advance" \/ m_pc'[c] \in Batching => R!Single
          /\ m_pc'[c] = "cas" => ~R!Single
          /\ m_pc'[c] \in Batching => m_want'[c] >= 1 /\ m_k'[c] <= m_want'[c] /\ freed'[c] <= m_k'[c]
          /\ m_pc'[c] = "bcopy" => m_k'[c] < m_want'[c]
      BY <2>6 DEF BStarts, Goes, BatchSame, Batching, RingPlaces, RingShapes
    <3>3. \A x \in Producers : m_pc'[x] = m_pc[x] /\ m_sent'[x] = m_sent[x]
      BY <2>6 DEF BStarts, ByConsumer, ProducersSame
    <3>4. \A x \in Observers : m_pc'[x] = m_pc[x] BY <2>6 DEF BStarts, ByConsumer, ObserversSame
    <3> QED BY <3>1, <3>2, <3>3, <3>4, <1>0 DEF RingPlaces
  <2>7. CASE BReads(c)
    <3>1. \A d \in Consumers : d # c =>
            m_pc'[d] = m_pc[d] /\ m_want'[d] = m_want[d] /\ m_k'[d] = m_k[d] /\ freed'[d] = freed[d]
      BY <2>7 DEF BReads, ByConsumer
    <3>2. /\ m_pc'[c] \in {"off", "idle", "reload", "seq", "cas", "copy", "advance", "free", "why",
                           "inflight", "empty", "bseq", "bcopy", "bfree"}
          /\ m_pc'[c] = "advance" \/ m_pc'[c] \in Batching => R!Single
          /\ m_pc'[c] = "cas" => ~R!Single
          /\ m_pc'[c] \in Batching => m_want'[c] >= 1 /\ m_k'[c] <= m_want'[c] /\ freed'[c] <= m_k'[c]
          /\ m_pc'[c] = "bcopy" => m_k'[c] < m_want'[c]
      BY <2>7 DEF BReads, Goes, BatchSame, Batching, RingPlaces, RingShapes
    <3>3. \A x \in Producers : m_pc'[x] = m_pc[x] /\ m_sent'[x] = m_sent[x]
      BY <2>7 DEF BReads, ByConsumer, ProducersSame
    <3>4. \A x \in Observers : m_pc'[x] = m_pc[x] BY <2>7 DEF BReads, ByConsumer, ObserversSame
    <3> QED BY <3>1, <3>2, <3>3, <3>4, <1>0 DEF RingPlaces
  <2>8. CASE BStops(c)
    <3>1. \A d \in Consumers : d # c =>
            m_pc'[d] = m_pc[d] /\ m_want'[d] = m_want[d] /\ m_k'[d] = m_k[d] /\ freed'[d] = freed[d]
      BY <2>8 DEF BStops, ByConsumer
    <3>2. /\ m_pc'[c] \in {"off", "idle", "reload", "seq", "cas", "copy", "advance", "free", "why",
                           "inflight", "empty", "bseq", "bcopy", "bfree"}
          /\ m_pc'[c] = "advance" \/ m_pc'[c] \in Batching => R!Single
          /\ m_pc'[c] = "cas" => ~R!Single
          /\ m_pc'[c] \in Batching => m_want'[c] >= 1 /\ m_k'[c] <= m_want'[c] /\ freed'[c] <= m_k'[c]
          /\ m_pc'[c] = "bcopy" => m_k'[c] < m_want'[c]
      BY <2>8 DEF BStops, Goes, BatchSame, Batching, RingPlaces, RingShapes
    <3>3. \A x \in Producers : m_pc'[x] = m_pc[x] /\ m_sent'[x] = m_sent[x]
      BY <2>8 DEF BStops, ByConsumer, ProducersSame
    <3>4. \A x \in Observers : m_pc'[x] = m_pc[x] BY <2>8 DEF BStops, ByConsumer, ObserversSame
    <3> QED BY <3>1, <3>2, <3>3, <3>4, <1>0 DEF RingPlaces
  <2>9. CASE BCopies(c)
    <3>1. \A d \in Consumers : d # c =>
            m_pc'[d] = m_pc[d] /\ m_want'[d] = m_want[d] /\ m_k'[d] = m_k[d] /\ freed'[d] = freed[d]
      BY <2>9 DEF BCopies, ByConsumer
    <3>2. /\ m_pc'[c] \in {"off", "idle", "reload", "seq", "cas", "copy", "advance", "free", "why",
                           "inflight", "empty", "bseq", "bcopy", "bfree"}
          /\ m_pc'[c] = "advance" \/ m_pc'[c] \in Batching => R!Single
          /\ m_pc'[c] = "cas" => ~R!Single
          /\ m_pc'[c] \in Batching => m_want'[c] >= 1 /\ m_k'[c] <= m_want'[c] /\ freed'[c] <= m_k'[c]
          /\ m_pc'[c] = "bcopy" => m_k'[c] < m_want'[c]
      BY <2>9 DEF BCopies, Goes, BatchSame, Batching, RingPlaces, RingShapes
    <3>3. \A x \in Producers : m_pc'[x] = m_pc[x] /\ m_sent'[x] = m_sent[x]
      BY <2>9 DEF BCopies, ByConsumer, ProducersSame
    <3>4. \A x \in Observers : m_pc'[x] = m_pc[x] BY <2>9 DEF BCopies, ByConsumer, ObserversSame
    <3> QED BY <3>1, <3>2, <3>3, <3>4, <1>0 DEF RingPlaces
  <2>10. CASE BFrees(c)
    <3>1. \A d \in Consumers : d # c =>
            m_pc'[d] = m_pc[d] /\ m_want'[d] = m_want[d] /\ m_k'[d] = m_k[d] /\ freed'[d] = freed[d]
      BY <2>10 DEF BFrees, ByConsumer
    <3>2. /\ m_pc'[c] \in {"off", "idle", "reload", "seq", "cas", "copy", "advance", "free", "why",
                           "inflight", "empty", "bseq", "bcopy", "bfree"}
          /\ m_pc'[c] = "advance" \/ m_pc'[c] \in Batching => R!Single
          /\ m_pc'[c] = "cas" => ~R!Single
          /\ m_pc'[c] \in Batching => m_want'[c] >= 1 /\ m_k'[c] <= m_want'[c] /\ freed'[c] <= m_k'[c]
          /\ m_pc'[c] = "bcopy" => m_k'[c] < m_want'[c]
      BY <2>10 DEF BFrees, Goes, BatchSame, Batching, RingPlaces, RingShapes
    <3>3. \A x \in Producers : m_pc'[x] = m_pc[x] /\ m_sent'[x] = m_sent[x]
      BY <2>10 DEF BFrees, ByConsumer, ProducersSame
    <3>4. \A x \in Observers : m_pc'[x] = m_pc[x] BY <2>10 DEF BFrees, ByConsumer, ObserversSame
    <3> QED BY <3>1, <3>2, <3>3, <3>4, <1>0 DEF RingPlaces
  <2>11. CASE BEnds(c)
    <3>1. \A d \in Consumers : d # c =>
            m_pc'[d] = m_pc[d] /\ m_want'[d] = m_want[d] /\ m_k'[d] = m_k[d] /\ freed'[d] = freed[d]
      BY <2>11 DEF BEnds, ByConsumer
    <3>2. /\ m_pc'[c] \in {"off", "idle", "reload", "seq", "cas", "copy", "advance", "free", "why",
                           "inflight", "empty", "bseq", "bcopy", "bfree"}
          /\ m_pc'[c] = "advance" \/ m_pc'[c] \in Batching => R!Single
          /\ m_pc'[c] = "cas" => ~R!Single
          /\ m_pc'[c] \in Batching => m_want'[c] >= 1 /\ m_k'[c] <= m_want'[c] /\ freed'[c] <= m_k'[c]
          /\ m_pc'[c] = "bcopy" => m_k'[c] < m_want'[c]
      BY <2>11 DEF BEnds, Goes, BatchSame, Batching, RingPlaces, RingShapes
    <3>3. \A x \in Producers : m_pc'[x] = m_pc[x] /\ m_sent'[x] = m_sent[x]
      BY <2>11 DEF BEnds, ByConsumer, ProducersSame
    <3>4. \A x \in Observers : m_pc'[x] = m_pc[x] BY <2>11 DEF BEnds, ByConsumer, ObserversSame
    <3> QED BY <3>1, <3>2, <3>3, <3>4, <1>0 DEF RingPlaces
  <2> QED BY <1>c, <2>1, <2>2, <2>3, <2>4, <2>5, <2>6, <2>7, <2>8, <2>9, <2>10, <2>11 DEF CKinds
<1>o. ASSUME NEW o \in Observers, OLooks(o) PROVE RingPlaces'
  <2>1. \A x \in Observers : m_pc'[x] \in {"idle", "look", "inflight", "empty"}
    BY <1>o DEF OLooks, Goes, RingPlaces
  <2> QED BY <1>o, <2>1, <1>0 DEF OLooks, ConsumersSame, ProducersSame, RingPlaces, Batching
<1> QED BY <1>p, <1>c, <1>o DEF RingKinds

-----------------------------------------------------------------------------
(* The ring: what the invariant says of words *)

\* There are no more claims than pushes.
LEMMA ClaimsFinite ==
  IsFiniteSet(Claims) /\ Cardinality(Claims) \in Nat /\ Cardinality(Claims) <= Claimable
<1> DEFINE S == Producers \X (1 .. MaxPush)
<1>1. IsFiniteSet(Producers) /\ Cardinality(Producers) \in Nat
  BY RingAssumption, SameSets, FS_CardinalityType DEF R!MpqAssumption
<1>2. IsFiniteSet(1 .. MaxPush) /\ Cardinality(1 .. MaxPush) = MaxPush
  <2>1. 1 \in Int /\ MaxPush \in Int /\ MaxPush \in Nat BY RingSetting
  <2>2. /\ IsFiniteSet(1 .. MaxPush)
        /\ Cardinality(1 .. MaxPush) = IF 1 > MaxPush THEN 0 ELSE MaxPush - 1 + 1
    BY <2>1, FS_Interval
  <2> QED BY <2>1, <2>2
<1>3. IsFiniteSet(S) /\ Cardinality(S) = Cardinality(Producers) * MaxPush
  BY <1>1, <1>2, FS_Product
<1>4. Claims \in SUBSET S BY DEF Claims
<1>5. IsFiniteSet(Claims) /\ Cardinality(Claims) <= Cardinality(S) BY <1>3, <1>4, FS_Subset
<1>6. Cardinality(S) = Claimable BY <1>1, <1>3, RingSetting DEF Claimable
<1> QED BY <1>5, <1>6, FS_CardinalityType

\* A batch that has stopped says where the oldest cell is.
GoneMeans ==
  /\ \A c \in Consumers : m_pc[c] = "bfree" => Gone = Popped + m_k[c]
  /\ (\A c \in Consumers : m_pc[c] # "bfree") => Gone = Popped

LEMMA GoneIs == RingPlaces => GoneMeans
<1> SUFFICES ASSUME RingPlaces PROVE GoneMeans
  OBVIOUS
<1>1. ASSUME NEW c \in Consumers, m_pc[c] = "bfree" PROVE Gone = Popped + m_k[c]
  <2>1. PICK d : d = CHOOSE x \in Consumers : m_pc[x] = "bfree" OBVIOUS
  <2>2. d \in Consumers /\ m_pc[d] = "bfree" BY <1>1, <2>1
  <2>3. R!Single /\ IsFiniteSet(Users) BY <1>1 DEF RingPlaces, Batching
  <2>4. c = d BY <1>1, <2>2, <2>3, OneUser
  <2>5. Gone = Popped + m_k[d] BY <1>1, <2>1 DEF Gone
  <2> QED BY <2>4, <2>5
<1>2. ASSUME \A c \in Consumers : m_pc[c] # "bfree" PROVE Gone = Popped BY <1>2 DEF Gone
<1> QED BY <1>1, <1>2 DEF GoneMeans

\* The counters are numbers and short of a turn of the words.
LEMMA CountersAre ==
  ASSUME R!TypeOK, RingPlaces, Counters
  PROVE  /\ Pushed \in Nat /\ Popped \in Nat /\ Gone \in Nat
         /\ Pushed <= Cap + Claimable /\ Pushed + Cap < Word
         /\ \A c \in Consumers : m_k[c] \in Nat /\ freed[c] \in Nat /\ m_want[c] \in Nat
<1>1. Pushed \in Nat /\ Popped \in Nat BY OfsType DEF R!TypeOK, Pushed, Popped
<1>2. \A c \in Consumers : m_k[c] \in Nat /\ freed[c] \in Nat /\ m_want[c] \in Nat
  BY RingSetting DEF R!TypeOK
<1>3. Gone \in Nat
  <2>1. CASE \E c \in Consumers : m_pc[c] = "bfree" BY <2>1, <1>1, <1>2, GoneIs DEF GoneMeans
  <2>2. CASE \A c \in Consumers : m_pc[c] # "bfree" BY <2>2, <1>1, GoneIs DEF GoneMeans
  <2> QED BY <2>1, <2>2
<1>4. Pushed <= Cap + Claimable BY <1>1, ClaimsFinite, RingSetting DEF Counters
<1> QED BY <1>1, <1>2, <1>3, <1>4, RingSetting

\* The three things a slot may say are different.
LEMMA Different ==
  ASSUME NEW a \in R!Words, Ofs(a) + Cap < Word
  PROVE  /\ R!Plus(a, 1) \in R!Words /\ Ofs(R!Plus(a, 1)) = Ofs(a) + 1
         /\ R!Plus(a, Cap) \in R!Words /\ Ofs(R!Plus(a, Cap)) = Ofs(a) + Cap
         /\ a # R!Plus(a, 1) /\ a # R!Plus(a, Cap) /\ R!Plus(a, 1) # R!Plus(a, Cap)
<1>0. Ofs(a) \in Nat /\ Cap \in Nat /\ Cap >= 2 /\ Word \in Nat BY OfsType, RingSetting
<1>1. R!Plus(a, 1) \in R!Words /\ Ofs(R!Plus(a, 1)) = Ofs(a) + 1
  <2>1. Ofs(a) + 1 < Word /\ 1 \in Nat BY <1>0
  <2> QED BY <2>1, OfsPlus
<1>2. R!Plus(a, Cap) \in R!Words /\ Ofs(R!Plus(a, Cap)) = Ofs(a) + Cap BY <1>0, OfsPlus
<1>3. Ofs(a) # Ofs(a) + 1 /\ Ofs(a) # Ofs(a) + Cap /\ Ofs(a) + 1 # Ofs(a) + Cap BY <1>0
<1> QED BY <1>1, <1>2, <1>3

-----------------------------------------------------------------------------
(* The ring: the counters *)

\* While a consumer is at work outside a stopped batch nobody has stopped one.
LEMMA GoneIsPopped ==
  ASSUME RingPlaces, NEW c \in Consumers, m_pc[c] \notin {"off", "bfree"}
  PROVE  Gone = Popped
<1>1. \A d \in Consumers : m_pc[d] # "bfree"
  <2> SUFFICES ASSUME NEW d \in Consumers, m_pc[d] = "bfree" PROVE FALSE
    OBVIOUS
  <2>1. R!Single /\ IsFiniteSet(Users) BY DEF RingPlaces, Batching
  <2>2. c = d BY <2>1, OneUser
  <2> QED BY <2>2
<1> QED BY <1>1, GoneIs DEF GoneMeans

\* What is gone stays so when nobody takes anything.
LEMMA GoneStays ==
  ASSUME RingPlaces, RingPlaces', deq' = deq,
         \A d \in Consumers : /\ m_pc'[d] = "bfree" <=> m_pc[d] = "bfree"
                              /\ m_pc[d] = "bfree" => m_k'[d] = m_k[d]
  PROVE  Popped' = Popped /\ Gone' = Gone
<1>1. Popped' = Popped BY DEF Popped, Ofs
<1>a. GoneMeans'
  <2>1. (RingPlaces => GoneMeans)' BY GoneIs, PTL
  <2> QED BY <2>1
<1>2. CASE \E d \in Consumers : m_pc[d] = "bfree"
  <2>1. PICK d \in Consumers : m_pc[d] = "bfree" BY <1>2
  <2>2. Gone = Popped + m_k[d] BY <2>1, GoneIs DEF GoneMeans
  <2> QED BY <2>1, <2>2, <1>a, <1>1 DEF GoneMeans
<1>3. CASE \A d \in Consumers : m_pc[d] # "bfree"
  <2>1. Gone = Popped BY <1>3, GoneIs DEF GoneMeans
  <2> QED BY <2>1, <1>3, <1>a, <1>1 DEF GoneMeans
<1> QED BY <1>2, <1>3

\* Words near the counters.
LEMMA NearWords ==
  ASSUME R!TypeOK, RingPlaces, Counters
  PROVE  /\ enq \in R!Words /\ deq \in R!Words
         /\ \A i \in 0 .. Cap : R!Plus(deq, i) \in R!Words /\ Ofs(R!Plus(deq, i)) = Popped + i
         /\ R!Plus(enq, 1) \in R!Words /\ Ofs(R!Plus(enq, 1)) = Pushed + 1
<1>1. enq \in R!Words /\ deq \in R!Words BY DEF R!TypeOK
<1>2. /\ Pushed \in Nat /\ Popped \in Nat /\ Gone \in Nat /\ Pushed + Cap < Word
      /\ Popped <= Gone /\ Gone <= Pushed /\ Cap \in Nat /\ Cap >= 2 /\ Word \in Nat
  BY CountersAre, RingSetting DEF Counters
<1>3. ASSUME NEW i \in 0 .. Cap PROVE R!Plus(deq, i) \in R!Words /\ Ofs(R!Plus(deq, i)) = Popped + i
  <2>1. i \in Nat /\ Popped + i < Word BY <1>2
  <2> QED BY <1>1, <2>1, OfsPlus DEF Popped
<1>4. R!Plus(enq, 1) \in R!Words /\ Ofs(R!Plus(enq, 1)) = Pushed + 1
  <2>1. 1 \in Nat /\ Pushed + 1 < Word BY <1>2
  <2> QED BY <1>1, <2>1, OfsPlus DEF Pushed
<1> QED BY <1>1, <1>3, <1>4

\* A word of the last turn, and what its slot may say.
LEMMA TurnWords ==
  ASSUME R!TypeOK, RingPlaces, Counters, NEW a \in R!Words, Ofs(a) <= Pushed
  PROVE  /\ Ofs(a) \in Nat
         /\ R!Plus(a, 1) \in R!Words /\ Ofs(R!Plus(a, 1)) = Ofs(a) + 1
         /\ R!Plus(a, Cap) \in R!Words /\ Ofs(R!Plus(a, Cap)) = Ofs(a) + Cap
         /\ a # R!Plus(a, 1) /\ a # R!Plus(a, Cap) /\ R!Plus(a, 1) # R!Plus(a, Cap)
<1>1. Ofs(a) \in Nat BY OfsType
<1>2. Pushed \in Nat /\ Pushed + Cap < Word /\ Cap \in Nat /\ Word \in Nat
  BY CountersAre, RingSetting
<1>3. Ofs(a) + Cap < Word BY <1>1, <1>2
<1> QED BY <1>1, <1>3, Different

\* A producer that will claim finds that the slot has been given back the turn before.
LEMMA LastTurn ==
  ASSUME R!TypeOK, RingPlaces, Counters, NEW b \in R!Words, Ofs(b) + Cap = Pushed
  PROVE  GivenBack(b) <=> R!SeqAt(enq) = enq
<1>1. enq \in R!Words BY NearWords
<1>2. Ofs(enq) = Ofs(b) + Cap BY DEF Pushed
<1>3. R!Slot(b) = R!Slot(enq) BY <1>1, <1>2, SlotAgain
<1>4. Ofs(b) <= Pushed BY <1>2, OfsType, RingSetting, CountersAre
<1>5. R!Plus(b, Cap) = enq
  <2>1. R!Plus(b, Cap) \in R!Words /\ Ofs(R!Plus(b, Cap)) = Ofs(b) + Cap BY <1>4, TurnWords
  <2> QED BY <1>1, <1>2, <2>1, OfsApart
<1> QED BY <1>3, <1>5 DEF GivenBack, R!SeqAt

\* There is a word a turn before enq.
LEMMA BeforeTurn ==
  ASSUME R!TypeOK, RingPlaces, Counters
  PROVE  \E b \in R!Words : Ofs(b) + Cap = Pushed
<1>1. Pushed \in Nat /\ Pushed + Cap < Word /\ Cap <= Pushed
  BY CountersAre, RingSetting DEF Counters
<1>2. Pushed - Cap \in 0 .. Word - 1 BY <1>1, RingSetting
<1>3. WordAt(Pushed - Cap) \in R!Words /\ Ofs(WordAt(Pushed - Cap)) = Pushed - Cap
  BY <1>2, OfsWordAt
<1> QED BY <1>1, <1>3, RingSetting

LEMMA ClaimRoom ==
  ASSUME R!TypeOK, RingPlaces, Counters, Cycle, R!SeqAt(enq) = enq
  PROVE  Pushed < Gone + Cap
<1>1. PICK b \in R!Words : Ofs(b) + Cap = Pushed BY BeforeTurn
<1>2. GivenBack(b) BY <1>1, LastTurn
<1>3. Ofs(b) \in Nat /\ Cap \in Nat /\ Cap >= 2 /\ Pushed \in Nat /\ Gone \in Nat
  BY OfsType, RingSetting, CountersAre
<1>4. InTurn(b) BY <1>1, <1>3 DEF InTurn
<1>5. ~(Gone <= Ofs(b)) BY <1>2, <1>4 DEF Cycle
<1> QED BY <1>1, <1>3, <1>5

\* A consumer that takes the next cell, or a batch, takes what has been pushed.
LEMMA HeldFirst ==
  ASSUME R!TypeOK, RingPlaces, Counters, Poppers, Holders, NEW c \in Consumers
  PROVE  /\ m_pc[c] = "cas" /\ m_pos[c] = deq => Popped < Pushed
         /\ m_pc[c] = "advance" => Popped < Pushed /\ m_pos[c] = deq
         /\ m_pc[c] \in {"bseq", "bcopy"} => Popped + m_k[c] <= Pushed
         /\ m_pc[c] \in Batching => m_pos[c] = deq /\ m_k[c] <= Cap /\ freed[c] <= Cap
<1>0. /\ Pushed \in Nat /\ Popped \in Nat /\ Gone \in Nat /\ m_k[c] \in Nat /\ freed[c] \in Nat
      /\ Popped <= Pushed /\ Cap \in Nat
  BY CountersAre, RingSetting DEF Counters
<1>1. ASSUME m_pc[c] = "cas", m_pos[c] = deq PROVE Popped < Pushed
  BY <1>1 DEF Poppers, InTurn, Popped
<1>2. ASSUME m_pc[c] = "advance" PROVE Popped < Pushed /\ m_pos[c] = deq
  <2>1. R!Single BY <1>2 DEF RingPlaces
  <2>2. m_pos[c] = deq BY <1>2, <2>1 DEF Poppers
  <2>3. Holds(c, deq) /\ deq \in R!Words BY <1>2, <2>2 DEF Holds, R!TypeOK
  <2>4. InTurn(deq) BY <2>3 DEF Holders
  <2> QED BY <2>2, <2>4 DEF InTurn, Popped
<1>3. ASSUME m_pc[c] \in Batching PROVE m_pos[c] = deq /\ m_k[c] <= Cap /\ freed[c] <= Cap
  <2>1. R!Single BY <1>3 DEF RingPlaces
  <2>2. m_pos[c] = deq BY <1>3, <2>1 DEF Poppers
  <2>3. m_k[c] <= MaxBatch /\ freed[c] <= MaxBatch BY RingSetting DEF R!TypeOK
  <2> QED BY <2>2, <2>3, <1>0, RingSetting
<1>4. ASSUME m_pc[c] \in {"bseq", "bcopy"} PROVE Popped + m_k[c] <= Pushed
  <2>1. CASE m_k[c] = 0 BY <2>1, <1>0
  <2>2. CASE m_k[c] # 0
    <3> DEFINE a == R!Plus(deq, m_k[c] - 1)
    <3>1. m_k[c] <= Cap BY <1>3, <1>4 DEF Batching
    <3>2. m_k[c] - 1 \in 0 .. Cap BY <2>2, <3>1, <1>0
    <3>3. a \in R!Words /\ Ofs(a) = Popped + (m_k[c] - 1) BY <3>2, NearWords
    <3>4. Holds(c, a)
      <4> HIDE DEF a
      <4> QED BY <1>4, <3>3, <2>2, <1>0 DEF Holds
    <3>5. InTurn(a) BY <3>3, <3>4 DEF Holders
    <3>6. Ofs(a) < Pushed BY <3>5 DEF InTurn
    <3> HIDE DEF a
    <3> QED BY <3>3, <3>6, <1>0, <2>2
  <2> QED BY <2>1, <2>2
<1> QED BY <1>1, <1>2, <1>3, <1>4

\* How the counters move.
LEMMA ProducerMoves ==
  ASSUME RingInv, RingPlaces', NEW p \in Producers, PKinds(p)
  PROVE  /\ Popped' = Popped /\ Gone' = Gone /\ deq' = deq
         /\ PClaims(p) => Pushed' = Pushed + 1
         /\ ~PClaims(p) => Pushed' = Pushed /\ enq' = enq
<1>1. ByProducer(p) BY DEF PKinds, PLooks, PClaims, PWrites, PPublishes
<1>2. Popped' = Popped /\ Gone' = Gone /\ deq' = deq
  BY <1>1, GoneStays DEF ByProducer, ConsumersSame, RingInv
<1>3. ASSUME PClaims(p) PROVE Pushed' = Pushed + 1
  BY <1>3, NearWords DEF PClaims, Pushed, Ofs, RingInv
<1>4. ASSUME ~PClaims(p) PROVE Pushed' = Pushed /\ enq' = enq
  BY <1>4 DEF PKinds, PLooks, PWrites, PPublishes, Pushed, Ofs
<1> QED BY <1>2, <1>3, <1>4

LEMMA ConsumerMoves ==
  ASSUME RingInv, RingPlaces', NEW c \in Consumers, CKinds(c)
  PROVE  /\ Pushed' = Pushed /\ enq' = enq
         /\ CTakes(c) \/ CAdvances(c) => Gone = Popped /\ Popped' = Popped + 1 /\ Gone' = Popped + 1
         /\ BStops(c) => Gone = Popped /\ Popped' = Popped /\ Gone' = Popped + m_k[c]
         /\ BEnds(c) => Gone = Popped + m_k[c] /\ Popped' = Gone /\ Gone' = Gone
         /\ ~(CTakes(c) \/ CAdvances(c) \/ BStops(c) \/ BEnds(c)) =>
              Popped' = Popped /\ Gone' = Gone /\ deq' = deq
<1>1. ByConsumer(c)
  BY DEF CKinds, CLooks, CTakes, CCopies, CAdvances, CFrees, BStarts, BReads, BStops, BCopies,
         BFrees, BEnds
<1>2. Pushed' = Pushed /\ enq' = enq BY <1>1 DEF ByConsumer, Pushed, Ofs
<1>a. GoneMeans'
  <2>1. (RingPlaces => GoneMeans)' BY GoneIs, PTL
  <2> QED BY <2>1
<1>b. m_pc[c] \in Batching => m_k[c] \in 0 .. Cap
  BY HeldFirst, CountersAre, RingSetting DEF RingInv
<1>c. \A i \in 0 .. Cap : Ofs(R!Plus(deq, i)) = Popped + i BY NearWords DEF RingInv
<1>d. Popped \in Nat /\ 1 \in 0 .. Cap BY CountersAre, RingSetting DEF RingInv
<1>3. ASSUME CTakes(c) \/ CAdvances(c)
      PROVE  Gone = Popped /\ Popped' = Popped + 1 /\ Gone' = Popped + 1
  <2>1. m_pc[c] \in {"cas", "advance"} /\ m_pc'[c] \in {"copy", "free"}
    BY <1>3 DEF CTakes, CAdvances, Goes
  <2>2. Gone = Popped BY <2>1, GoneIsPopped DEF RingInv
  <2>3. m_pos[c] = deq BY <1>3, <2>1, HeldFirst DEF CTakes, RingInv, CAdvances, Goes
  <2>4. deq' = R!Plus(deq, 1) BY <1>3, <2>3 DEF CTakes, CAdvances
  <2>5. Popped' = Popped + 1 BY <2>4, <1>c, <1>d DEF Popped, Ofs
  <2>6. \A d \in Consumers : m_pc'[d] # "bfree"
    <3> SUFFICES ASSUME NEW d \in Consumers, m_pc'[d] = "bfree" PROVE FALSE
      OBVIOUS
    <3>1. d # c /\ m_pc[d] = "bfree" BY <1>1, <2>1 DEF ByConsumer
    <3>2. R!Single /\ IsFiniteSet(Users) BY <3>1 DEF RingInv, RingPlaces, Batching
    <3> QED BY <2>1, <3>1, <3>2, OneUser
  <2>7. Gone' = Popped' BY <2>6, <1>a DEF GoneMeans
  <2> QED BY <2>2, <2>5, <2>7
<1>4. ASSUME BStops(c) PROVE Gone = Popped /\ Popped' = Popped /\ Gone' = Popped + m_k[c]
  <2>1. m_pc[c] = "bseq" /\ m_pc'[c] = "bfree" /\ deq' = deq /\ m_k' = m_k
    BY <1>4 DEF BStops, Goes, BatchSame
  <2>2. Gone = Popped BY <2>1, GoneIsPopped DEF RingInv
  <2>3. Popped' = Popped BY <2>1 DEF Popped, Ofs
  <2>4. Gone' = Popped' + m_k'[c] BY <2>1, <1>a DEF GoneMeans
  <2> QED BY <2>1, <2>2, <2>3, <2>4
<1>5. ASSUME BEnds(c) PROVE Gone = Popped + m_k[c] /\ Popped' = Gone /\ Gone' = Gone
  <2>1. /\ m_pc[c] = "bfree" /\ m_pc'[c] = "idle"
        /\ deq' = IF m_k[c] = 0 THEN deq ELSE R!Plus(m_pos[c], m_k[c])
    BY <1>5 DEF BEnds, Goes
  <2>2. Gone = Popped + m_k[c] BY <2>1, GoneIs DEF GoneMeans, RingInv
  <2>3. m_pos[c] = deq /\ m_k[c] \in 0 .. Cap /\ R!Single /\ IsFiniteSet(Users)
    BY <2>1, <1>b, HeldFirst DEF Batching, RingInv, RingPlaces
  <2>4. Popped' = Popped + m_k[c]
    <3>1. CASE m_k[c] = 0
      <4>1. Popped' = Popped BY <3>1, <2>1 DEF Popped, Ofs
      <4> QED BY <3>1, <4>1, <1>d
    <3>2. CASE m_k[c] # 0
      <4>1. deq' = R!Plus(deq, m_k[c]) BY <3>2, <2>1, <2>3
      <4> QED BY <4>1, <2>3, <1>c DEF Popped, Ofs
    <3> QED BY <3>1, <3>2
  <2>5. \A d \in Consumers : m_pc'[d] # "bfree"
    <3> SUFFICES ASSUME NEW d \in Consumers, m_pc'[d] = "bfree" PROVE FALSE
      OBVIOUS
    <3>1. d # c /\ m_pc[d] = "bfree" BY <1>1, <2>1 DEF ByConsumer
    <3> QED BY <2>1, <2>3, <3>1, OneUser
  <2>6. Gone' = Popped' BY <2>5, <1>a DEF GoneMeans
  <2> QED BY <2>2, <2>4, <2>6
<1>6. ASSUME ~(CTakes(c) \/ CAdvances(c) \/ BStops(c) \/ BEnds(c))
      PROVE  Popped' = Popped /\ Gone' = Gone /\ deq' = deq
  <2>1. /\ deq' = deq
        /\ m_pc'[c] = "bfree" <=> m_pc[c] = "bfree"
        /\ m_pc[c] = "bfree" => m_k'[c] = m_k[c]
    BY <1>6 DEF CKinds, CLooks, CCopies, CFrees, BStarts, BReads, BCopies, BFrees, Goes, BatchSame
  <2>2. \A d \in Consumers : /\ m_pc'[d] = "bfree" <=> m_pc[d] = "bfree"
                             /\ m_pc[d] = "bfree" => m_k'[d] = m_k[d]
    BY <2>1, <1>1 DEF ByConsumer
  <2> QED BY <2>1, <2>2, GoneStays DEF RingInv
<1> QED BY <1>2, <1>3, <1>4, <1>5, <1>6

LEMMA ObserverMoves ==
  ASSUME RingInv, RingPlaces', NEW o \in Observers, OLooks(o)
  PROVE  Pushed' = Pushed /\ Popped' = Popped /\ Gone' = Gone
<1>1. enq' = enq /\ deq' = deq /\ ConsumersSame BY DEF OLooks
<1>2. Popped' = Popped /\ Gone' = Gone BY <1>1, GoneStays DEF ConsumersSame, RingInv
<1> QED BY <1>1, <1>2 DEF Pushed, Ofs

\* A claim counts one more, and nothing else does.
LEMMA ClaimsStay ==
  ASSUME \A r \in Producers : Writing(r)' = Writing(r), m_sent' = m_sent
  PROVE  Claims' = Claims
BY DEF Claims

LEMMA ClaimsStep ==
  ASSUME RingInv, RingKinds
  PROVE  /\ \A p \in Producers : PClaims(p) => Cardinality(Claims') = Cardinality(Claims) + 1
         /\ (\A p \in Producers : ~PClaims(p)) => Claims' = Claims
<1>1. ASSUME NEW p \in Producers, PClaims(p) PROVE Cardinality(Claims') = Cardinality(Claims) + 1
  <2>1. /\ m_pc[p] = "cas" /\ m_pc'[p] = "write" /\ m_sent' = m_sent
        /\ \A r \in Producers : r # p => m_pc'[r] = m_pc[r]
    BY <1>1 DEF PClaims, ByProducer, Goes
  <2>2. m_sent[p] < MaxPush /\ m_sent \in [Producers -> 0 .. MaxPush]
    BY <2>1 DEF RingInv, RingPlaces, R!TypeOK
  <2> DEFINE v == <<p, m_sent[p] + 1>>
  <2>3. v \notin Claims
    <3>1. ~(m_sent[p] + 1 <= m_sent[p]) BY <2>2, RingSetting
    <3> QED BY <2>1, <3>1 DEF Claims, Writing
  <2>4. Claims' = Claims \cup {v}
    <3>1. ASSUME NEW w \in Producers \X (1 .. MaxPush) PROVE w \in Claims' <=> w \in Claims \/ w = v
      <4>1. PICK r \in Producers, n \in 1 .. MaxPush : w = <<r, n>> BY <3>1
      <4>2. w[1] = r /\ w[2] = n BY <4>1
      <4>3. CASE r = p BY <2>1, <4>1, <4>2, <4>3 DEF Claims, Writing
      <4>4. CASE r # p BY <2>1, <4>1, <4>2, <4>4 DEF Claims, Writing
      <4> QED BY <4>3, <4>4
    <3>2. v \in Producers \X (1 .. MaxPush) BY <2>2, RingSetting
    <3>3. Claims \subseteq Producers \X (1 .. MaxPush) /\ Claims' \subseteq Producers \X (1 .. MaxPush)
      BY DEF Claims
    <3> HIDE DEF v
    <3> QED BY <3>1, <3>2, <3>3
  <2> HIDE DEF v
  <2> QED BY <2>3, <2>4, ClaimsFinite, FS_AddElement
<1>2. ASSUME \A p \in Producers : ~PClaims(p) PROVE Claims' = Claims
  <2>p. ASSUME NEW p \in Producers, PKinds(p) PROVE Claims' = Claims
    <3>1. CASE PLooks(p)
      BY <3>1, ClaimsStay DEF PLooks, ByProducer, Goes, Writing, RingInv, RingPlaces
    <3>2. CASE PClaims(p) BY <3>2, <1>2
    <3>3. CASE PWrites(p) BY <3>3, ClaimsStay DEF PWrites, ByProducer, Goes, Writing
    <3>4. CASE PPublishes(p)
      <4>1. /\ m_pc[p] = "publish" /\ m_pc'[p] = "idle" /\ m_sent' = [m_sent EXCEPT ![p] = @ + 1]
            /\ \A r \in Producers : r # p => m_pc'[r] = m_pc[r]
        BY <3>4 DEF PPublishes, ByProducer, Goes
      <4>2. m_sent \in [Producers -> 0 .. MaxPush] BY DEF RingInv, R!TypeOK
      <4>3. ASSUME NEW w \in Producers \X (1 .. MaxPush) PROVE w \in Claims' <=> w \in Claims
        <5>1. PICK r \in Producers, n \in 1 .. MaxPush : w = <<r, n>> BY <4>3
        <5>2. w[1] = r /\ w[2] = n /\ n \in Nat /\ m_sent[r] \in Nat BY <5>1, <4>2, RingSetting
        <5>3. CASE r = p
          <6>1. m_sent'[r] = m_sent[r] + 1 BY <4>1, <4>2, <5>3
          <6>2. n <= m_sent[r] + 1 <=> n <= m_sent[r] \/ n = m_sent[r] + 1 BY <5>2
          <6> QED BY <4>1, <6>1, <6>2, <5>1, <5>2, <5>3 DEF Claims, Writing
        <5>4. CASE r # p
          <6>1. m_sent'[r] = m_sent[r] /\ m_pc'[r] = m_pc[r] BY <4>1, <4>2, <5>4
          <6> QED BY <6>1, <5>1, <5>2 DEF Claims, Writing
        <5> QED BY <5>3, <5>4
      <4>4. Claims \subseteq Producers \X (1 .. MaxPush) /\ Claims' \subseteq Producers \X (1 .. MaxPush)
        BY DEF Claims
      <4> QED BY <4>3, <4>4
    <3> QED BY <2>p, <3>1, <3>2, <3>3, <3>4 DEF PKinds
  <2>c. ASSUME NEW c \in Consumers, CKinds(c) PROVE Claims' = Claims
    <3>1. CASE CLooks(c) BY <3>1, ClaimsStay DEF CLooks, ByConsumer, ProducersSame, Writing
    <3>2. CASE CTakes(c) BY <3>2, ClaimsStay DEF CTakes, ByConsumer, ProducersSame, Writing
    <3>3. CASE CCopies(c) BY <3>3, ClaimsStay DEF CCopies, ByConsumer, ProducersSame, Writing
    <3>4. CASE CAdvances(c) BY <3>4, ClaimsStay DEF CAdvances, ByConsumer, ProducersSame, Writing
    <3>5. CASE CFrees(c) BY <3>5, ClaimsStay DEF CFrees, ByConsumer, ProducersSame, Writing
    <3>6. CASE BStarts(c) BY <3>6, ClaimsStay DEF BStarts, ByConsumer, ProducersSame, Writing
    <3>7. CASE BReads(c) BY <3>7, ClaimsStay DEF BReads, ByConsumer, ProducersSame, Writing
    <3>8. CASE BStops(c) BY <3>8, ClaimsStay DEF BStops, ByConsumer, ProducersSame, Writing
    <3>9. CASE BCopies(c) BY <3>9, ClaimsStay DEF BCopies, ByConsumer, ProducersSame, Writing
    <3>10. CASE BFrees(c) BY <3>10, ClaimsStay DEF BFrees, ByConsumer, ProducersSame, Writing
    <3>11. CASE BEnds(c) BY <3>11, ClaimsStay DEF BEnds, ByConsumer, ProducersSame, Writing
    <3> QED BY <2>c, <3>1, <3>2, <3>3, <3>4, <3>5, <3>6, <3>7, <3>8, <3>9, <3>10, <3>11 DEF CKinds
  <2>o. ASSUME NEW o \in Observers, OLooks(o) PROVE Claims' = Claims
    BY <2>o, ClaimsStay DEF OLooks, ProducersSame, Writing
  <2> QED BY <2>p, <2>c, <2>o DEF RingKinds
<1> QED BY <1>1, <1>2

LEMMA CountersStep == RingInv /\ RingKinds /\ RingPlaces' => Counters'
<1> SUFFICES ASSUME RingInv, RingKinds, RingPlaces' PROVE Counters'
  OBVIOUS
<1>0. /\ Pushed \in Nat /\ Popped \in Nat /\ Gone \in Nat /\ Cap \in Nat /\ Cardinality(Claims) \in Nat
      /\ Cap <= Popped /\ Popped <= Gone /\ Gone <= Pushed /\ Pushed <= Gone + Cap
      /\ Pushed = Cap + Cardinality(Claims)
  BY CountersAre, RingSetting, ClaimsFinite DEF RingInv, Counters
<1>1. ASSUME NEW p \in Producers, PKinds(p) PROVE Counters'
  <2>1. Popped' = Popped /\ Gone' = Gone BY <1>1, ProducerMoves
  <2>2. CASE PClaims(p)
    <3>1. Pushed' = Pushed + 1 BY <1>1, <2>2, ProducerMoves
    <3>2. Cardinality(Claims') = Cardinality(Claims) + 1 BY <2>2, ClaimsStep
    <3>3. Pushed < Gone + Cap
      <4>1. R!SeqAt(enq) = enq BY <2>2 DEF PClaims, Goes, RingInv, Pushers
      <4> QED BY <4>1, ClaimRoom DEF RingInv
    <3> QED BY <2>1, <3>1, <3>2, <3>3, <1>0 DEF Counters
  <2>3. CASE ~PClaims(p)
    <3>1. Pushed' = Pushed BY <1>1, <2>3, ProducerMoves
    <3>2. Claims' = Claims
      <4>1. \A r \in Producers : ~PClaims(r)
        <5> SUFFICES ASSUME NEW r \in Producers, PClaims(r) PROVE FALSE
          OBVIOUS
        <5>1. r # p BY <2>3
        <5>2. m_pc[r] = "cas" /\ m_pc'[r] = "write" BY DEF PClaims, Goes
        <5>3. ByProducer(p) BY <1>1 DEF PKinds, PLooks, PClaims, PWrites, PPublishes
        <5> QED BY <5>1, <5>2, <5>3 DEF ByProducer
      <4> QED BY <4>1, ClaimsStep
    <3> QED BY <2>1, <3>1, <3>2, <1>0 DEF Counters
  <2> QED BY <2>2, <2>3
<1>2. ASSUME ProducersSame, Pushed' = Pushed PROVE Pushed' = Cap + Cardinality(Claims')
  <2>1. \A r \in Producers : ~PClaims(r) BY <1>2 DEF ProducersSame, PClaims, Goes
  <2>2. Claims' = Claims BY <2>1, ClaimsStep
  <2> QED BY <1>2, <2>2, <1>0
<1>3. ASSUME NEW c \in Consumers, CKinds(c) PROVE Counters'
  <2>0. ByConsumer(c)
    BY <1>3 DEF CKinds, CLooks, CTakes, CCopies, CAdvances, CFrees, BStarts, BReads, BStops,
          BCopies,
           BFrees, BEnds
  <2>1. Pushed' = Pushed BY <1>3, ConsumerMoves
  <2>2. Pushed' = Cap + Cardinality(Claims') BY <2>0, <2>1, <1>2 DEF ByConsumer
  <2>3. CASE CTakes(c) \/ CAdvances(c)
    <3>1. Gone = Popped /\ Popped' = Popped + 1 /\ Gone' = Popped + 1 BY <1>3, <2>3, ConsumerMoves
    <3>2. Popped < Pushed BY <2>3, HeldFirst DEF CTakes, CAdvances, Goes, RingInv
    <3> QED BY <2>1, <2>2, <3>1, <3>2, <1>0 DEF Counters
  <2>4. CASE BStops(c)
    <3>1. Gone = Popped /\ Popped' = Popped /\ Gone' = Popped + m_k[c] BY <1>3, <2>4, ConsumerMoves
    <3>2. Popped + m_k[c] <= Pushed /\ m_k[c] \in Nat
      BY <2>4, HeldFirst, CountersAre DEF BStops, Goes, RingInv
    <3> QED BY <2>1, <2>2, <3>1, <3>2, <1>0 DEF Counters
  <2>5. CASE BEnds(c)
    <3>1. Popped' = Gone /\ Gone' = Gone BY <1>3, <2>5, ConsumerMoves
    <3> QED BY <2>1, <2>2, <3>1, <1>0 DEF Counters
  <2>6. CASE ~(CTakes(c) \/ CAdvances(c) \/ BStops(c) \/ BEnds(c))
    <3>1. Popped' = Popped /\ Gone' = Gone BY <1>3, <2>6, ConsumerMoves
    <3> QED BY <2>1, <2>2, <3>1, <1>0 DEF Counters
  <2> QED BY <2>3, <2>4, <2>5, <2>6
<1>4. ASSUME NEW o \in Observers, OLooks(o) PROVE Counters'
  <2>1. Pushed' = Pushed /\ Popped' = Popped /\ Gone' = Gone BY <1>4, ObserverMoves
  <2>2. Pushed' = Cap + Cardinality(Claims') BY <2>1, <1>2, <1>4 DEF OLooks
  <2> QED BY <2>1, <2>2, <1>0 DEF Counters
<1> QED BY <1>1, <1>3, <1>4 DEF RingKinds

-----------------------------------------------------------------------------
(* The ring: what a step does to the slots of the turn *)

\* Nothing; the next slot is claimed; a claim is published; a cell is given back.
TurnSame == \A a \in R!Words : InTurn(a)' <=> InTurn(a)
SeqSame == \A a \in R!Words : R!SeqAt(a)' = R!SeqAt(a)
SeqBut(x) == /\ InTurn(x) /\ TurnSame
             /\ \A a \in R!Words : InTurn(a) /\ a # x => R!SeqAt(a)' = R!SeqAt(a)
             /\ R!SeqAt(enq) = enq => R!SeqAt(enq)' = R!SeqAt(enq)
SlotClaims(p) ==
  /\ PClaims(p) /\ SeqSame /\ R!SeqAt(enq) = enq
  /\ \A a \in R!Words : InTurn(a)' <=> a = enq \/ (InTurn(a) /\ ~GivenBack(a)) \/ (InTurn(a) /\ Ofs(a) + Cap # Pushed)
SlotPublishes(p, x) ==
  /\ PPublishes(p) /\ x = m_pos[p] /\ Claimed(x) /\ SeqBut(x)
  /\ R!SeqAt(x)' = R!Plus(x, 1)
SlotFrees(c, x) ==
  /\ CFrees(c) \/ BFrees(c)
  /\ Holds(c, x) /\ ~Holds(c, x)' /\ Published(x) /\ Ofs(x) < Gone /\ SeqBut(x)
  /\ R!SeqAt(x)' = R!Plus(x, Cap)
SlotKinds ==
  \/ TurnSame /\ SeqSame
  \/ \E p \in Producers : SlotClaims(p)
  \/ \E p \in Producers : \E x \in R!Words : SlotPublishes(p, x)
  \/ \E c \in Consumers : \E x \in R!Words : SlotFrees(c, x)

\* What is in the turn is a word not beyond enq.
LEMMA InTurnWord ==
  ASSUME R!TypeOK, RingPlaces, Counters, NEW a \in R!Words, InTurn(a)
  PROVE  /\ Ofs(a) \in Nat /\ Ofs(a) < Pushed /\ Pushed <= Ofs(a) + Cap
         /\ R!Plus(a, 1) \in R!Words /\ Ofs(R!Plus(a, 1)) = Ofs(a) + 1
         /\ R!Plus(a, Cap) \in R!Words /\ Ofs(R!Plus(a, Cap)) = Ofs(a) + Cap
         /\ a # R!Plus(a, 1) /\ a # R!Plus(a, Cap) /\ R!Plus(a, 1) # R!Plus(a, Cap)
<1>1. Ofs(a) \in Nat /\ Pushed \in Nat /\ Ofs(a) < Pushed /\ Pushed <= Ofs(a) + Cap
  BY OfsType, CountersAre DEF InTurn
<1> QED BY <1>1, TurnWords

\* Two words of the turn have slots of their own.
LEMMA TurnSlots ==
  ASSUME R!TypeOK, RingPlaces, Counters, NEW a \in R!Words, NEW b \in R!Words, InTurn(a), InTurn(b),
         R!Slot(a) = R!Slot(b)
  PROVE  a = b
<1>1. /\ Ofs(a) \in Nat /\ Ofs(a) < Pushed /\ Pushed <= Ofs(a) + Cap
      /\ Ofs(b) \in Nat /\ Ofs(b) < Pushed /\ Pushed <= Ofs(b) + Cap
      /\ Pushed \in Nat /\ Cap \in Nat
  BY InTurnWord, CountersAre, RingSetting
<1>2. Ofs(a) < Ofs(b) + Cap /\ Ofs(b) < Ofs(a) + Cap BY <1>1
<1> QED BY <1>2, SlotsDiffer

\* One slot of the turn is written, that of a word that is not given back.
LEMMA OneSlot ==
  ASSUME RingInv, enq' = enq, NEW x \in R!Words, InTurn(x), ~GivenBack(x), NEW w,
         sequence' = [sequence EXCEPT ![R!Slot(x)] = w]
  PROVE  SeqBut(x) /\ R!SeqAt(x)' = w
<1>0. R!TypeOK /\ RingPlaces /\ Counters BY DEF RingInv
<1>1. TurnSame BY DEF TurnSame, InTurn, Pushed, Ofs
<1>2. R!Slot(x) \in 0 .. Cap - 1 BY OfsSlot
<1>3. sequence \in [0 .. Cap - 1 -> R!Words] BY <1>0 DEF R!TypeOK
<1>4. R!SeqAt(x)' = w BY <1>2, <1>3 DEF R!SeqAt, R!Slot
<1>5. ASSUME NEW a \in R!Words, R!Slot(a) # R!Slot(x) PROVE R!SeqAt(a)' = R!SeqAt(a)
  <2>1. R!Slot(a) \in 0 .. Cap - 1 BY OfsSlot
  <2> QED BY <1>3, <1>5, <2>1 DEF R!SeqAt, R!Slot
<1>6. \A a \in R!Words : InTurn(a) /\ a # x => R!SeqAt(a)' = R!SeqAt(a)
  BY <1>0, <1>5, TurnSlots
<1>7. ASSUME R!SeqAt(enq) = enq PROVE R!SeqAt(enq)' = R!SeqAt(enq)
  <2>1. PICK b \in R!Words : Ofs(b) + Cap = Pushed BY <1>0, BeforeTurn
  <2>2. GivenBack(b) BY <1>0, <1>7, <2>1, LastTurn
  <2>3. InTurn(b)
    <3>1. Ofs(b) \in Nat /\ Cap \in Nat /\ Cap >= 2 BY OfsType, RingSetting
    <3> QED BY <2>1, <3>1 DEF InTurn
  <2>4. R!Slot(b) # R!Slot(x) BY <1>0, <2>2, <2>3, TurnSlots
  <2>5. enq \in R!Words BY <1>0 DEF R!TypeOK
  <2>6. R!Slot(b) = R!Slot(enq) BY <2>1, <2>5, SlotAgain DEF Pushed
  <2>7. R!SeqAt(enq)' = sequence'[R!Slot(enq)] BY DEF R!SeqAt, R!Slot
  <2>8. sequence'[R!Slot(enq)] = sequence[R!Slot(enq)]
    <3>1. R!Slot(enq) \in 0 .. Cap - 1 BY <2>5, OfsSlot
    <3> QED BY <3>1, <1>3, <2>4, <2>6
  <2> QED BY <2>7, <2>8 DEF R!SeqAt
<1> QED BY <1>1, <1>4, <1>6, <1>7 DEF SeqBut

LEMMA SameSlots ==
  ASSUME enq' = enq, sequence' = sequence
  PROVE  TurnSame /\ SeqSame
<1>1. TurnSame BY DEF TurnSame, InTurn, Pushed, Ofs
<1>2. SeqSame BY DEF SeqSame, R!SeqAt, R!Slot
<1> QED BY <1>1, <1>2

LEMMA ClaimSlot ==
  ASSUME RingInv, RingPlaces', NEW p \in Producers, PClaims(p)
  PROVE  SlotClaims(p)
<1>0. R!TypeOK /\ RingPlaces /\ Counters BY DEF RingInv
<1>1. SeqSame BY DEF SeqSame, R!SeqAt, R!Slot, PClaims
<1>2. R!SeqAt(enq) = enq BY DEF PClaims, Goes, RingInv, Pushers
<1>3. Pushed' = Pushed + 1 BY ProducerMoves DEF PKinds
<1>4. Pushed \in Nat /\ Cap \in Nat /\ Cap >= 2 /\ enq \in R!Words
  BY <1>0, CountersAre, RingSetting DEF R!TypeOK
<1>5. ASSUME NEW a \in R!Words
      PROVE  /\ InTurn(a)' <=> a = enq \/ (InTurn(a) /\ Ofs(a) + Cap # Pushed)
             /\ InTurn(a) /\ ~GivenBack(a) => Ofs(a) + Cap # Pushed
  <2>1. InTurn(a)' <=> Pushed + 1 <= Ofs(a) + Cap /\ Ofs(a) < Pushed + 1 BY <1>3 DEF InTurn, Ofs
  <2>2. Ofs(a) \in Nat BY OfsType
  <2>3. Ofs(a) = Pushed <=> a = enq BY <1>4, OfsApart DEF Pushed
  <2>4. InTurn(a) <=> Pushed <= Ofs(a) + Cap /\ Ofs(a) < Pushed BY DEF InTurn
  <2>5. Ofs(a) + Cap = Pushed => GivenBack(a) BY <1>0, <1>2, LastTurn
  <2> QED BY <2>1, <2>2, <2>3, <2>4, <2>5, <1>4
<1> QED BY <1>1, <1>2, <1>5 DEF SlotClaims

LEMMA PublishSlot ==
  ASSUME RingInv, NEW p \in Producers, PPublishes(p)
  PROVE  \E x \in R!Words : SlotPublishes(p, x)
<1>0. R!TypeOK /\ RingPlaces /\ Counters BY DEF RingInv
<1>a. PICK x : x = m_pos[p] OBVIOUS
<1>1. m_pc[p] = "publish" /\ enq' = enq
      /\ sequence' = [sequence EXCEPT ![R!Slot(x)] = R!Plus(x, 1)]
  BY <1>a DEF PPublishes, Goes
<1>2. InTurn(x) /\ Claimed(x) BY <1>a, <1>1 DEF RingInv, Writers, Writing
<1>3. x \in R!Words BY <1>2 DEF InTurn
<1>4. ~GivenBack(x) BY <1>0, <1>2, <1>3, InTurnWord DEF Claimed, GivenBack
<1>5. SeqBut(x) /\ R!SeqAt(x)' = R!Plus(x, 1)
  <2>1. PICK w : w = R!Plus(x, 1) OBVIOUS
  <2>2. SeqBut(x) /\ R!SeqAt(x)' = w BY <2>1, <1>1, <1>2, <1>3, <1>4, OneSlot
  <2> QED BY <2>1, <2>2
<1> QED BY <1>a, <1>2, <1>3, <1>5 DEF SlotPublishes

\* What a consumer gives back it holds, and has taken.
LEMMA FreeSlot ==
  ASSUME RingInv, NEW c \in Consumers, NEW x \in R!Words, CFrees(c) \/ BFrees(c),
         Holds(c, x), ~Holds(c, x)', Ofs(x) < Gone,
         sequence' = [sequence EXCEPT ![R!Slot(x)] = R!Plus(x, Cap)]
  PROVE  SlotFrees(c, x)
<1>0. R!TypeOK /\ RingPlaces /\ Counters BY DEF RingInv
<1>1. enq' = enq BY DEF CFrees, BFrees, ByConsumer
<1>2. InTurn(x) /\ Published(x) BY DEF RingInv, Holders
<1>3. ~GivenBack(x) BY <1>0, <1>2, InTurnWord DEF Published, GivenBack
<1>4. SeqBut(x) /\ R!SeqAt(x)' = R!Plus(x, Cap)
  <2>1. PICK w : w = R!Plus(x, Cap) OBVIOUS
  <2>2. SeqBut(x) /\ R!SeqAt(x)' = w BY <2>1, <1>1, <1>2, <1>3, OneSlot
  <2> QED BY <2>1, <2>2
<1> QED BY <1>2, <1>4 DEF SlotFrees

LEMMA FreesOne ==
  ASSUME RingInv, NEW c \in Consumers, CFrees(c)
  PROVE  \E x \in R!Words : SlotFrees(c, x)
<1>0. R!TypeOK /\ RingPlaces /\ Counters BY DEF RingInv
<1>a. PICK x : x = m_pos[c] OBVIOUS
<1>1. /\ m_pc[c] = "free" /\ m_pc'[c] = "idle"
      /\ sequence' = [sequence EXCEPT ![R!Slot(x)] = R!Plus(x, Cap)]
  BY <1>a DEF CFrees, Goes
<1>2. x \in R!Words BY <1>0, <1>a, ThreadsApart DEF R!TypeOK
<1>3. Holds(c, x) BY <1>1, <1>a DEF Holds
<1>4. ~Holds(c, x)' BY <1>1 DEF Holds
<1>5. Ofs(x) < Gone
  <2>1. Ofs(x) < Popped BY <1>1, <1>a DEF RingInv, Poppers
  <2>2. Gone = Popped BY <1>0, <1>1, GoneIsPopped
  <2> QED BY <2>1, <2>2
<1>6. SlotFrees(c, x) BY <1>1, <1>2, <1>3, <1>4, <1>5, FreeSlot
<1> QED BY <1>2, <1>6

LEMMA FreesOfBatch ==
  ASSUME RingInv, RingPlaces', NEW c \in Consumers, BFrees(c)
  PROVE  \E x \in R!Words : SlotFrees(c, x) /\ Ofs(x) = Popped + freed[c]
<1>0. R!TypeOK /\ RingPlaces /\ Counters BY DEF RingInv
<1>a. PICK x : x = R!Plus(m_pos[c], freed[c]) OBVIOUS
<1>1. /\ m_pc[c] = "bfree" /\ m_pc'[c] = "bfree" /\ freed[c] < m_k[c] /\ freed'[c] = freed[c] + 1
      /\ m_k'[c] = m_k[c] /\ deq' = deq
      /\ sequence' = [sequence EXCEPT ![R!Slot(x)] = R!Plus(x, Cap)]
  BY <1>a DEF BFrees, Goes
<1>b. freed[c] \in Nat /\ m_k[c] \in Nat /\ Popped \in Nat /\ Cap \in Nat
  BY <1>0, CountersAre, RingSetting
<1>2. x \in R!Words /\ Ofs(x) = Popped + freed[c]
  <2>1. m_pos[c] = deq /\ freed[c] <= Cap
    BY <1>0, <1>1, HeldFirst DEF RingInv, Batching
  <2>2. freed[c] \in 0 .. Cap BY <2>1, <1>b
  <2> QED BY <2>1, <2>2, <1>0, <1>a, NearWords
<1>3. Holds(c, x) BY <1>1, <1>2, <1>b DEF Holds
<1>4. ~Holds(c, x)'
  <2>1. Popped' = Popped BY <1>1 DEF Popped, Ofs
  <2>2. ~(Popped + (freed[c] + 1) <= Ofs(x)) BY <1>2, <1>b
  <2>3. Holds(c, x)' => Popped' + freed'[c] <= Ofs(x)
    <3>1. m_pc'[c] \notin {"copy", "advance", "free", "bseq", "bcopy"} BY <1>1
    <3> QED BY <3>1 DEF Holds, Ofs
  <2> QED BY <2>1, <2>2, <2>3, <1>1
<1>5. Ofs(x) < Gone
  <2>1. Gone = Popped + m_k[c] BY <1>0, <1>1, GoneIs DEF GoneMeans
  <2> QED BY <2>1, <1>1, <1>2, <1>b
<1>6. SlotFrees(c, x) BY <1>1, <1>2, <1>3, <1>4, <1>5, FreeSlot
<1> QED BY <1>2, <1>6

\* Every step is one of these to the slots.
LEMMA SlotSteps ==
  ASSUME RingInv, RingPlaces', RingKinds
  PROVE  SlotKinds
<1>1. ASSUME NEW p \in Producers, PKinds(p) PROVE SlotKinds
  <2>1. CASE PLooks(p)
    <3>1. enq' = enq /\ sequence' = sequence BY <2>1 DEF PLooks
    <3> QED BY <3>1, SameSlots DEF SlotKinds
  <2>2. CASE PClaims(p) BY <2>2, ClaimSlot DEF SlotKinds
  <2>3. CASE PWrites(p)
    <3>1. enq' = enq /\ sequence' = sequence BY <2>3 DEF PWrites
    <3> QED BY <3>1, SameSlots DEF SlotKinds
  <2>4. CASE PPublishes(p) BY <2>4, PublishSlot DEF SlotKinds
  <2> QED BY <1>1, <2>1, <2>2, <2>3, <2>4 DEF PKinds
<1>2. ASSUME NEW c \in Consumers, CKinds(c) PROVE SlotKinds
  <2>1. CASE CFrees(c) BY <2>1, FreesOne DEF SlotKinds
  <2>2. CASE BFrees(c) BY <2>2, FreesOfBatch DEF SlotKinds
  <2>3. CASE ~(CFrees(c) \/ BFrees(c))
    <3>1. enq' = enq /\ sequence' = sequence
      BY <1>2, <2>3 DEF CKinds, CLooks, CTakes, CCopies, CAdvances, BStarts, BReads, BStops,
            BCopies,
             BEnds, ByConsumer
    <3> QED BY <3>1, SameSlots DEF SlotKinds
  <2> QED BY <2>1, <2>2, <2>3
<1>3. ASSUME NEW o \in Observers, OLooks(o) PROVE SlotKinds
  <2>1. enq' = enq /\ sequence' = sequence BY <1>3 DEF OLooks
  <2> QED BY <2>1, SameSlots DEF SlotKinds
<1> QED BY <1>1, <1>2, <1>3 DEF RingKinds

-----------------------------------------------------------------------------
(* The ring: what becomes of a word *)

\* The difference of two counters is nothing only when they are the same.
LEMMA DiffZero ==
  ASSUME NEW a \in R!Words, NEW b \in R!Words, R!Diff(a, b) = 0
  PROVE  a = b
<1>0. a \in Nat /\ b \in Nat /\ a < Word /\ b < Word /\ Word \in Nat \ {0} /\ 0 < Word
  BY RingSetting DEF R!Words
<1> DEFINE n == a - b + Word
<1>1. n \in Nat /\ n < 3 * Word BY <1>0
<1>2. n % Word = IF n < Word THEN n ELSE IF n < 2 * Word THEN n - Word ELSE n - 2 * Word
  BY <1>0, <1>1, ModTwice
<1>3. n % Word = 0
  <2>1. n % Word \in Nat /\ n % Word < Word BY <1>0, <1>1, <1>2
  <2>2. PICK d : d = n % Word OBVIOUS
  <2>3. R!Diff(a, b) = IF 2 * d < Word THEN d ELSE d - Word BY <2>2 DEF R!Diff
  <2> QED BY <2>1, <2>2, <2>3, <1>0
<1> QED BY <1>0, <1>2, <1>3

\* Nothing but a word of the turn is published, among those near the counters.
LEMMA PublishedBefore ==
  ASSUME R!TypeOK, RingPlaces, Counters, Cycle, NEW a \in R!Words, Published(a),
         Ofs(a) <= Pushed, Pushed <= Ofs(a) + Cap
  PROVE  InTurn(a)
<1>0. Ofs(a) \in Nat /\ Pushed \in Nat /\ Cap \in Nat /\ Cap >= 2
  BY OfsType, CountersAre, RingSetting
<1>1. ASSUME Ofs(a) = Pushed PROVE FALSE
  <2>1. enq \in R!Words BY NearWords
  <2>2. a = enq BY <1>1, <2>1, OfsApart DEF Pushed
  <2>3. PICK b \in R!Words : Ofs(b) + Cap = Pushed BY BeforeTurn
  <2>4. Ofs(b) \in Nat BY OfsType
  <2>5. InTurn(b) BY <2>3, <2>4, <1>0 DEF InTurn
  <2>6. R!SeqAt(b) = R!SeqAt(a)
    <3>1. R!Slot(b) = R!Slot(a) BY <2>3, <1>1, SlotAgain
    <3> QED BY <3>1 DEF R!SeqAt
  <2>7. R!SeqAt(a) \in {b, R!Plus(b, 1), R!Plus(b, Cap)}
    BY <2>5, <2>6 DEF Cycle, Claimed, Published, GivenBack
  <2>8. Ofs(R!Plus(b, 1)) = Ofs(b) + 1 /\ Ofs(R!Plus(b, Cap)) = Ofs(b) + Cap BY <2>5, InTurnWord
  <2>9. Ofs(R!SeqAt(a)) = Pushed + 1
    <3>1. Ofs(R!Plus(a, 1)) = Ofs(a) + 1 BY TurnWords
    <3> QED BY <3>1, <1>1 DEF Published
  <2>10. Ofs(R!SeqAt(a)) = Ofs(b) \/ Ofs(R!SeqAt(a)) = Ofs(b) + 1 \/ Ofs(R!SeqAt(a)) = Ofs(b) + Cap
    BY <2>7, <2>8
  <2> QED BY <2>3, <2>4, <2>9, <2>10, <1>0
<1> QED BY <1>0, <1>1 DEF InTurn

\* The counters only grow.
LEMMA Forward ==
  ASSUME RingInv, RingPlaces', RingKinds
  PROVE  /\ Popped <= Popped' /\ Gone <= Gone' /\ Pushed <= Pushed' /\ Gone' <= Pushed
         /\ Popped' \in Nat /\ Gone' \in Nat /\ Pushed' \in Nat
         /\ Pushed' = Pushed \/ Pushed' = Pushed + 1
<1>0. /\ Pushed \in Nat /\ Popped \in Nat /\ Gone \in Nat /\ Popped <= Gone /\ Gone <= Pushed
      /\ \A c \in Consumers : m_k[c] \in Nat
  BY CountersAre DEF RingInv, Counters
<1>1. ASSUME NEW p \in Producers, PKinds(p)
      PROVE  /\ Popped' = Popped /\ Gone' = Gone /\ Gone' <= Pushed
             /\ Pushed' = Pushed \/ Pushed' = Pushed + 1
  BY <1>0, <1>1, ProducerMoves
<1>2. ASSUME NEW c \in Consumers, CKinds(c)
      PROVE  /\ Popped <= Popped' /\ Gone <= Gone' /\ Pushed' = Pushed /\ Gone' <= Pushed
             /\ Popped' \in Nat /\ Gone' \in Nat
  <2>1. Pushed' = Pushed BY <1>2, ConsumerMoves
  <2>2. CASE CTakes(c) \/ CAdvances(c)
    <3>1. Gone = Popped /\ Popped' = Popped + 1 /\ Gone' = Popped + 1 BY <1>2, <2>2, ConsumerMoves
    <3>2. Popped < Pushed
      <4>1. \/ m_pc[c] = "cas" /\ m_pos[c] = deq
            \/ m_pc[c] = "advance"
        BY <2>2 DEF CTakes, CAdvances, Goes
      <4> QED BY <4>1, HeldFirst DEF RingInv
    <3> QED BY <3>1, <3>2, <2>1, <1>0
  <2>3. CASE BStops(c)
    <3>1. Gone = Popped /\ Popped' = Popped /\ Gone' = Popped + m_k[c] BY <1>2, <2>3, ConsumerMoves
    <3>2. Popped + m_k[c] <= Pushed
      <4>1. m_pc[c] \in {"bseq", "bcopy"} BY <2>3 DEF BStops, Goes
      <4> QED BY <4>1, HeldFirst DEF RingInv
    <3> QED BY <3>1, <3>2, <2>1, <1>0
  <2>4. CASE BEnds(c)
    <3>1. Popped' = Gone /\ Gone' = Gone BY <1>2, <2>4, ConsumerMoves
    <3> QED BY <3>1, <2>1, <1>0
  <2>5. CASE ~(CTakes(c) \/ CAdvances(c) \/ BStops(c) \/ BEnds(c))
    <3>1. Popped' = Popped /\ Gone' = Gone BY <1>2, <2>5, ConsumerMoves
    <3> QED BY <3>1, <2>1, <1>0
  <2> QED BY <2>2, <2>3, <2>4, <2>5
<1>3. ASSUME NEW o \in Observers, OLooks(o)
      PROVE  Popped' = Popped /\ Gone' = Gone /\ Pushed' = Pushed
  BY <1>3, ObserverMoves
<1>4. CASE \E p \in Producers : PKinds(p) BY <1>0, <1>1, <1>4
<1>5. CASE \E c \in Consumers : CKinds(c) BY <1>0, <1>2, <1>5
<1>6. CASE \E o \in Observers : OLooks(o) BY <1>0, <1>3, <1>6
<1> QED BY <1>4, <1>5, <1>6 DEF RingKinds

\* What a consumer holds is a published word of the turn.
LEMMA HeldWord ==
  ASSUME RingInv, NEW c \in Consumers, NEW a \in R!Words, Holds(c, a)
  PROVE  InTurn(a) /\ Published(a) /\ DataAt(a) # Void /\ ~Claimed(a)
<1>0. R!TypeOK /\ RingPlaces /\ Counters BY DEF RingInv
<1>1. InTurn(a) /\ Published(a) BY DEF RingInv, Holders
<1>2. DataAt(a) # Void BY <1>1 DEF RingInv, Cycle
<1> QED BY <1>0, <1>1, <1>2, InTurnWord DEF Published, Claimed

\* What a step takes has been published.
LEMMA TakenPublished ==
  ASSUME RingInv, RingPlaces', RingKinds, NEW a \in R!Words, Gone <= Ofs(a), Ofs(a) < Gone'
  PROVE  /\ InTurn(a) /\ Published(a) /\ ~Claimed(a)
         /\ \E c \in Consumers :
              \/ CTakes(c) /\ a = m_pos[c]
              \/ CAdvances(c) /\ a = m_pos[c]
              \/ BStops(c) /\ Popped <= Ofs(a) /\ Ofs(a) < Popped + m_k[c]
<1>0. /\ Gone \in Nat /\ Popped \in Nat /\ Ofs(a) \in Nat /\ deq \in R!Words
      /\ R!TypeOK /\ RingPlaces /\ Counters
  BY CountersAre, OfsType, NearWords DEF RingInv
<1>1. PICK c \in Consumers : CKinds(c)
  <2>1. ASSUME NEW p \in Producers, PKinds(p) PROVE FALSE BY <2>1, <1>0, ProducerMoves
  <2>2. ASSUME NEW o \in Observers, OLooks(o) PROVE FALSE BY <2>2, <1>0, ObserverMoves
  <2> QED BY <2>1, <2>2 DEF RingKinds
<1>2. CASE CTakes(c)
  <2>1. m_pc[c] = "cas" /\ m_pos[c] = deq BY <1>2 DEF CTakes, Goes
  <2>2. InTurn(deq) /\ Published(deq) BY <2>1 DEF RingInv, Poppers
  <2>3. Ofs(a) = Popped BY <1>0, <1>1, <1>2, ConsumerMoves
  <2>4. a = deq BY <2>3, <1>0, OfsApart DEF Popped
  <2>5. ~Claimed(a) BY <2>2, <2>4, <1>0, InTurnWord DEF Published, Claimed
  <2> QED BY <1>2, <2>1, <2>2, <2>4, <2>5
<1>3. CASE CAdvances(c)
  <2>1. m_pc[c] = "advance" BY <1>3 DEF CAdvances, Goes
  <2>2. m_pos[c] = deq BY <2>1, HeldFirst DEF RingInv
  <2>3. Ofs(a) = Popped BY <1>0, <1>1, <1>3, ConsumerMoves
  <2>4. a = deq BY <2>3, <1>0, OfsApart DEF Popped
  <2>5. Holds(c, a) BY <2>1, <2>2, <2>4 DEF Holds
  <2> QED BY <1>3, <2>2, <2>4, <2>5, HeldWord
<1>4. CASE BStops(c)
  <2>1. m_pc[c] = "bseq" BY <1>4 DEF BStops, Goes
  <2>2. Popped <= Ofs(a) /\ Ofs(a) < Popped + m_k[c] BY <1>0, <1>1, <1>4, ConsumerMoves
  <2>3. Holds(c, a) BY <2>1, <2>2 DEF Holds
  <2> QED BY <1>4, <2>2, <2>3, HeldWord
<1>5. CASE ~(CTakes(c) \/ CAdvances(c) \/ BStops(c))
  <2>1. Gone' = Gone BY <1>1, <1>5, ConsumerMoves
  <2> QED BY <2>1, <1>0
<1> QED BY <1>2, <1>3, <1>4, <1>5

\* A word of the turn after the step, by what the step did to its slot.
LEMMA SlotFate ==
  ASSUME RingInv, RingPlaces', RingKinds, NEW a \in R!Words
  PROVE  /\ InTurn(a)' => \/ InTurn(a) /\ R!SeqAt(a)' = R!SeqAt(a)
                          \/ a = enq /\ R!SeqAt(a)' = a /\ \E p \in Producers : PClaims(p)
                          \/ /\ InTurn(a) /\ Claimed(a) /\ R!SeqAt(a)' = R!Plus(a, 1)
                             /\ \E p \in Producers : PPublishes(p) /\ a = m_pos[p]
                          \/ /\ InTurn(a) /\ Published(a) /\ R!SeqAt(a)' = R!Plus(a, Cap)
                             /\ \E c \in Consumers : SlotFrees(c, a)
         /\ InTurn(a) /\ ~GivenBack(a) => InTurn(a)'
<1>1. SlotKinds BY SlotSteps
<1>2. CASE TurnSame /\ SeqSame BY <1>2 DEF TurnSame, SeqSame
<1>3. CASE \E p \in Producers : SlotClaims(p)
  <2>1. PICK p \in Producers : SlotClaims(p) BY <1>3
  <2>2. PClaims(p) /\ SeqSame /\ R!SeqAt(enq) = enq BY <2>1 DEF SlotClaims
  <2>3. InTurn(a)' <=> a = enq \/ (InTurn(a) /\ ~GivenBack(a)) \/ (InTurn(a) /\ Ofs(a) + Cap # Pushed)
    BY <2>1 DEF SlotClaims
  <2>4. R!SeqAt(a)' = R!SeqAt(a) BY <2>2 DEF SeqSame
  <2> QED BY <2>2, <2>3, <2>4
<1>4. CASE \E p \in Producers : \E x \in R!Words : SlotPublishes(p, x)
  <2>1. PICK p \in Producers, x \in R!Words : SlotPublishes(p, x) BY <1>4
  <2>2. PPublishes(p) /\ x = m_pos[p] /\ Claimed(x) /\ SeqBut(x) /\ R!SeqAt(x)' = R!Plus(x, 1)
    BY <2>1 DEF SlotPublishes
  <2>3. CASE a = x
    <3>1. InTurn(a) /\ InTurn(a)' BY <2>2, <2>3 DEF SeqBut, TurnSame
    <3>2. R!SeqAt(a)' = R!Plus(a, 1) BY <2>2, <2>3 DEF R!SeqAt, R!Slot
    <3>3. Claimed(a) /\ PPublishes(p) /\ a = m_pos[p] BY <2>2, <2>3
    <3> QED BY <3>1, <3>2, <3>3
  <2>4. CASE a # x BY <2>2, <2>4 DEF SeqBut, TurnSame
  <2> QED BY <2>3, <2>4
<1>5. CASE \E c \in Consumers : \E x \in R!Words : SlotFrees(c, x)
  <2>1. PICK c \in Consumers, x \in R!Words : SlotFrees(c, x) BY <1>5
  <2>2. Published(x) /\ SeqBut(x) /\ R!SeqAt(x)' = R!Plus(x, Cap) BY <2>1 DEF SlotFrees
  <2>3. CASE a = x
    <3>1. InTurn(a) /\ InTurn(a)' BY <2>2, <2>3 DEF SeqBut, TurnSame
    <3>2. R!SeqAt(a)' = R!Plus(a, Cap) BY <2>2, <2>3 DEF R!SeqAt, R!Slot
    <3>3. Published(a) BY <2>2, <2>3
    <3>4. SlotFrees(c, a)
      <4>1. CFrees(c) \/ BFrees(c) BY <2>1 DEF SlotFrees
      <4>2. Holds(c, a) /\ ~Holds(c, a)' BY <2>1, <2>3 DEF SlotFrees, Holds
      <4>3. Ofs(a) < Gone BY <2>1, <2>3 DEF SlotFrees
      <4>4. SeqBut(a) BY <2>2, <2>3 DEF SeqBut
      <4> QED BY <3>2, <3>3, <4>1, <4>2, <4>3, <4>4 DEF SlotFrees
    <3> QED BY <3>1, <3>2, <3>3, <3>4
  <2>4. CASE a # x BY <2>2, <2>4 DEF SeqBut, TurnSame
  <2> QED BY <2>3, <2>4
<1> QED BY <1>1, <1>2, <1>3, <1>4, <1>5 DEF SlotKinds

\* A value is written where its producer has claimed, nowhere else.
LEMMA DataStays ==
  ASSUME RingInv, RingKinds, NEW a \in R!Words, InTurn(a),
         \A p \in Producers : PWrites(p) => m_pos[p] # a
  PROVE  DataAt(a)' = DataAt(a)
<1>0. R!TypeOK /\ RingPlaces /\ Counters BY DEF RingInv
<1>1. CASE \E p \in Producers : PWrites(p)
  <2>1. PICK p \in Producers : PWrites(p) BY <1>1
  <2>2. PICK x : x = m_pos[p] OBVIOUS
  <2>3. m_pc[p] = "write" /\ m_data' = [m_data EXCEPT ![R!Slot(x)] = R!Value(p)]
    BY <2>1, <2>2 DEF PWrites, Goes
  <2>4. InTurn(x) /\ x # a BY <2>1, <2>2, <2>3 DEF RingInv, Writers, Writing
  <2>5. R!Slot(x) # R!Slot(a) BY <2>4, <1>0, TurnSlots DEF InTurn
  <2>6. R!Slot(a) \in 0 .. Cap - 1 BY OfsSlot
  <2>7. m_data'[R!Slot(a)] = m_data[R!Slot(a)] BY <1>0, <2>3, <2>5, <2>6 DEF R!TypeOK
  <2> QED BY <2>7 DEF DataAt, R!Slot
<1>2. CASE \A p \in Producers : ~PWrites(p)
  <2>1. m_data' = m_data
    <3>1. ASSUME NEW p \in Producers, PKinds(p) PROVE m_data' = m_data
      BY <1>2, <3>1 DEF PKinds, PLooks, PClaims, PPublishes
    <3>2. ASSUME NEW c \in Consumers, CKinds(c) PROVE m_data' = m_data
      BY <3>2 DEF CKinds, CLooks, CTakes, CCopies, CAdvances, CFrees, BStarts, BReads, BStops,
            BCopies,
                  BFrees, BEnds, ByConsumer
    <3>3. ASSUME NEW o \in Observers, OLooks(o) PROVE m_data' = m_data BY <3>3 DEF OLooks
    <3> QED BY <3>1, <3>2, <3>3 DEF RingKinds
  <2> QED BY <2>1 DEF DataAt, R!Slot
<1> QED BY <1>1, <1>2

\* Nor is it where a word has been published.
LEMMA DataKept ==
  ASSUME RingInv, RingKinds, NEW a \in R!Words, InTurn(a), ~Claimed(a)
  PROVE  DataAt(a)' = DataAt(a)
<1>1. \A p \in Producers : PWrites(p) => m_pos[p] # a
  BY DEF PWrites, Goes, RingInv, Writers, Writing
<1> QED BY <1>1, DataStays

-----------------------------------------------------------------------------
(* The ring: its slots and its producers *)

\* What a producer writes is a value.
LEMMA ValueIs ==
  ASSUME R!TypeOK, RingPlaces, NEW p \in Producers, Writing(p)
  PROVE  R!Value(p) # Void /\ R!Value(p) \in Producers \X (1 .. MaxPush)
<1>1. m_pc[p] # "idle" BY DEF Writing
<1>2. m_sent[p] < MaxPush BY <1>1 DEF RingPlaces
<1>3. m_sent[p] \in 0 .. MaxPush /\ MaxPush \in Nat BY RingSetting DEF R!TypeOK
<1>4. m_sent[p] + 1 \in 1 .. MaxPush BY <1>2, <1>3
<1>5. R!Value(p) \in Producers \X (1 .. MaxPush) BY <1>4 DEF R!Value
<1>6. Void \notin Producers \X (1 .. MaxPush) BY RingAssumption DEF R!MpqAssumption
<1> QED BY <1>5, <1>6

LEMMA SlotsStep == RingInv /\ RingKinds /\ RingPlaces' => Cycle'
<1> SUFFICES ASSUME RingInv, RingKinds, RingPlaces', NEW a \in R!Words, InTurn(a)'
    PROVE  /\ (Claimed(a) \/ Published(a) \/ GivenBack(a))'
           /\ (Gone <= Ofs(a) => ~GivenBack(a))'
           /\ (Ofs(a) < Gone => ~Claimed(a))'
           /\ (Published(a) => DataAt(a) # Void)'
  BY DEF Cycle
<1>0. R!TypeOK /\ RingPlaces /\ Counters /\ Cycle BY DEF RingInv
<1> DEFINE o == Ofs(a)
           s == R!SeqAt(a)'
           g == Gone'
           d == DataAt(a)'
<1>1. SUFFICES /\ s = a \/ s = R!Plus(a, 1) \/ s = R!Plus(a, Cap)
               /\ g <= o => s # R!Plus(a, Cap)
               /\ o < g => s # a
               /\ s = R!Plus(a, 1) => d # Void
  <2>1. Ofs(a)' = o BY DEF Ofs
  <2> QED BY <1>1, <2>1 DEF Claimed, Published, GivenBack, R!Plus
<1>2. o \in Nat /\ Gone \in Nat /\ g \in Nat /\ Gone <= g /\ g <= Pushed /\ Pushed \in Nat
  BY <1>0, OfsType, CountersAre, Forward
<1>3. CASE InTurn(a) /\ s = R!SeqAt(a)
  <2>0. s = a \/ s = R!Plus(a, 1) \/ s = R!Plus(a, Cap)
    BY <1>0, <1>3 DEF Cycle, Claimed, Published, GivenBack
  <2>1. g <= o => s # R!Plus(a, Cap) BY <1>0, <1>2, <1>3 DEF Cycle, GivenBack
  <2>2. o < g => s # a
    <3>1. CASE o < Gone BY <1>0, <1>3, <3>1 DEF Cycle, Claimed
    <3>2. CASE Gone <= o BY <1>3, <3>2, TakenPublished DEF Claimed
    <3> QED BY <3>1, <3>2, <1>2
  <2>3. ASSUME s = R!Plus(a, 1) PROVE d # Void
    <3>1. Published(a) BY <1>3, <2>3 DEF Published
    <3>2. ~Claimed(a) BY <1>0, <1>3, <3>1, InTurnWord DEF Published, Claimed
    <3>3. d = DataAt(a) BY <1>3, <3>2, DataKept
    <3> QED BY <1>0, <1>3, <3>1, <3>3 DEF Cycle
  <2> QED BY <2>0, <2>1, <2>2, <2>3
<1>4. CASE a = enq /\ s = a
  <2>1. o = Pushed BY <1>4 DEF Pushed
  <2>2. a # R!Plus(a, 1) /\ a # R!Plus(a, Cap) BY <1>0, <1>2, <2>1, TurnWords
  <2> QED BY <1>2, <1>4, <2>1, <2>2
<1>5. CASE /\ InTurn(a) /\ Claimed(a) /\ s = R!Plus(a, 1)
           /\ \E p \in Producers : PPublishes(p) /\ a = m_pos[p]
  <2>1. PICK p \in Producers : PPublishes(p) /\ a = m_pos[p] BY <1>5
  <2>2. m_pc[p] = "publish" /\ m_data' = m_data BY <2>1 DEF PPublishes, Goes
  <2>3. DataAt(a) = R!Value(p) BY <2>1, <2>2 DEF RingInv, Writers
  <2>4. d = DataAt(a) BY <2>2 DEF DataAt, R!Slot
  <2>5. R!Value(p) # Void BY <1>0, <2>2, ValueIs DEF Writing
  <2>6. a # R!Plus(a, 1) /\ R!Plus(a, 1) # R!Plus(a, Cap) BY <1>0, <1>5, InTurnWord
  <2> QED BY <1>5, <2>3, <2>4, <2>5, <2>6
<1>6. CASE InTurn(a) /\ s = R!Plus(a, Cap) /\ \E c \in Consumers : SlotFrees(c, a)
  <2>1. o < Gone BY <1>6 DEF SlotFrees
  <2>2. a # R!Plus(a, Cap) /\ R!Plus(a, 1) # R!Plus(a, Cap) BY <1>0, <1>6, InTurnWord
  <2> QED BY <1>2, <1>6, <2>1, <2>2
<1> QED BY <1>3, <1>4, <1>5, <1>6, SlotFate

\* Where a producer is writing its claim stands.
LEMMA ClaimStands ==
  ASSUME RingInv, RingKinds, RingPlaces', NEW p \in Producers, Writing(p),
         \A x \in R!Words : ~(PPublishes(p) /\ x = m_pos[p])
  PROVE  \A x \in R!Words : x = m_pos[p] => InTurn(x)' /\ R!SeqAt(x)' = x
<1> SUFFICES ASSUME NEW x \in R!Words, x = m_pos[p] PROVE InTurn(x)' /\ R!SeqAt(x)' = x
  OBVIOUS
<1>0. R!TypeOK /\ RingPlaces /\ Counters BY DEF RingInv
<1>1. InTurn(x) /\ Claimed(x) BY DEF RingInv, Writers
<1>2. ~Published(x) /\ ~GivenBack(x) BY <1>0, <1>1, InTurnWord DEF Claimed, Published, GivenBack
<1>3. InTurn(x)' BY <1>1, <1>2, SlotFate
<1>4. ASSUME NEW q \in Producers, PPublishes(q), x = m_pos[q] PROVE FALSE
  <2>1. Writing(q) BY <1>4 DEF PPublishes, Goes, Writing
  <2>2. p = q BY <1>4, <2>1 DEF RingInv, Writers
  <2> QED BY <1>4, <2>2
<1>5. x # enq
  <2>1. Ofs(x) < Pushed /\ Ofs(x) \in Nat BY <1>0, <1>1, InTurnWord
  <2> QED BY <2>1 DEF Pushed
<1>6. R!SeqAt(x)' = R!SeqAt(x) BY <1>2, <1>3, <1>4, <1>5, SlotFate
<1> QED BY <1>1, <1>3, <1>6 DEF Claimed

\* A producer that is writing after a step was writing before it, or has claimed.
LEMMA WritingThen ==
  ASSUME RingInv, RingKinds, NEW p \in Producers, Writing(p)'
  PROVE  \/ /\ Writing(p) /\ m_pos'[p] = m_pos[p] /\ m_sent'[p] = m_sent[p] /\ ~PPublishes(p)
            /\ m_pc'[p] = "publish" => m_pc[p] = "publish" \/ PWrites(p)
         \/ PClaims(p) /\ m_pos'[p] = enq
<1>1. ASSUME NEW q \in Producers, PKinds(q)
      PROVE  \/ /\ Writing(p) /\ m_pos'[p] = m_pos[p] /\ m_sent'[p] = m_sent[p] /\ ~PPublishes(p)
                /\ m_pc'[p] = "publish" => m_pc[p] = "publish" \/ PWrites(p)
             \/ PClaims(p) /\ m_pos'[p] = enq
  <2>1. CASE q = p
    <3>1. CASE PLooks(p) BY <3>1, <2>1 DEF PLooks, Goes, Writing
    <3>2. CASE PClaims(p) BY <3>2, <2>1 DEF PClaims, Stays
    <3>3. CASE PWrites(p) BY <3>3, <2>1 DEF PWrites, PPublishes, Goes, Stays, Writing
    <3>4. CASE PPublishes(p) BY <3>4, <2>1 DEF PPublishes, Goes, Writing
    <3> QED BY <1>1, <2>1, <3>1, <3>2, <3>3, <3>4 DEF PKinds
  <2>2. CASE q # p
    <3>1. m_pc'[p] = m_pc[p] /\ m_pos'[p] = m_pos[p]
      BY <1>1, <2>2 DEF PKinds, PLooks, PClaims, PWrites, PPublishes, ByProducer
    <3>2. m_sent'[p] = m_sent[p]
      <4>1. m_sent \in [Producers -> 0 .. MaxPush] BY DEF RingInv, R!TypeOK
      <4> QED BY <1>1, <2>2, <4>1 DEF PKinds, PLooks, PClaims, PWrites, PPublishes
    <3>3. ~PPublishes(p) BY <3>1 DEF PPublishes, Goes
    <3> QED BY <3>1, <3>2, <3>3 DEF Writing
  <2> QED BY <2>1, <2>2
<1>2. ASSUME ProducersSame, m_sent' = m_sent
      PROVE  /\ Writing(p) /\ m_pos'[p] = m_pos[p] /\ m_sent'[p] = m_sent[p] /\ ~PPublishes(p)
             /\ m_pc'[p] = "publish" => m_pc[p] = "publish"
  BY <1>2 DEF ProducersSame, PPublishes, Goes, Writing
<1>3. ASSUME NEW c \in Consumers, CKinds(c) PROVE ProducersSame /\ m_sent' = m_sent
  BY <1>3 DEF CKinds, CLooks, CTakes, CCopies, CAdvances, CFrees, BStarts, BReads, BStops, BCopies,
              BFrees, BEnds, ByConsumer
<1>4. ASSUME NEW o \in Observers, OLooks(o) PROVE ProducersSame /\ m_sent' = m_sent
  BY <1>4 DEF OLooks
<1> QED BY <1>1, <1>2, <1>3, <1>4 DEF RingKinds

LEMMA WritersStep == RingInv /\ RingKinds /\ RingPlaces' => Writers'
<1> SUFFICES ASSUME RingInv, RingKinds, RingPlaces' PROVE Writers'
  OBVIOUS
<1>0. R!TypeOK /\ RingPlaces /\ Counters /\ Writers BY DEF RingInv
<1>1. \A p \in Producers : m_pos[p] \in R!Words BY <1>0, ThreadsApart DEF R!TypeOK
<1>2. enq \in R!Words BY <1>0, NearWords
<1>3. ASSUME NEW p \in Producers, Writing(p)', NEW x \in R!Words, x = m_pos'[p]
      PROVE  /\ InTurn(x)' /\ R!SeqAt(x)' = x
             /\ m_pc'[p] = "publish" => DataAt(x)' = <<p, m_sent'[p] + 1>>
  <2>1. CASE PClaims(p) /\ m_pos'[p] = enq
    <3>1. SlotClaims(p) BY <2>1, ClaimSlot
    <3>2. x = enq /\ R!SeqAt(enq) = enq /\ SeqSame BY <1>3, <2>1, <3>1 DEF SlotClaims
    <3>3. InTurn(x)' BY <3>1, <3>2 DEF SlotClaims
    <3>4. R!SeqAt(x)' = x BY <3>2 DEF SeqSame
    <3> QED BY <2>1, <3>3, <3>4 DEF PClaims, Goes
  <2>2. CASE /\ Writing(p) /\ m_pos'[p] = m_pos[p] /\ m_sent'[p] = m_sent[p] /\ ~PPublishes(p)
             /\ m_pc'[p] = "publish" => m_pc[p] = "publish" \/ PWrites(p)
    <3>0. x = m_pos[p] BY <1>3, <2>2
    <3>1. InTurn(x)' /\ R!SeqAt(x)' = x BY <2>2, <3>0, ClaimStands
    <3>2. ASSUME m_pc[p] = "publish" PROVE DataAt(x)' = <<p, m_sent'[p] + 1>>
      <4>1. ASSUME NEW q \in Producers, PWrites(q), m_pos[q] = x PROVE FALSE
        <5>1. Writing(q) /\ m_pc[q] = "write" BY <4>1 DEF PWrites, Goes, Writing
        <5>2. p = q BY <1>0, <2>2, <3>0, <4>1, <5>1 DEF Writers
        <5> QED BY <3>2, <5>1, <5>2
      <4>2. InTurn(x) BY <1>0, <2>2, <3>0 DEF Writers
      <4>3. DataAt(x)' = DataAt(x) BY <4>1, <4>2, DataStays
      <4>4. DataAt(x) = R!Value(p) BY <1>0, <3>0, <3>2 DEF Writers
      <4> QED BY <2>2, <4>3, <4>4 DEF R!Value
    <3>3. ASSUME PWrites(p) PROVE DataAt(x)' = <<p, m_sent'[p] + 1>>
      <4>1. m_data' = [m_data EXCEPT ![R!Slot(x)] = R!Value(p)] BY <3>0, <3>3 DEF PWrites
      <4>2. R!Slot(x) \in 0 .. Cap - 1 BY OfsSlot
      <4>3. m_data'[R!Slot(x)] = R!Value(p) BY <1>0, <4>1, <4>2 DEF R!TypeOK
      <4> QED BY <2>2, <4>3 DEF DataAt, R!Slot, R!Value
    <3> QED BY <2>2, <3>1, <3>2, <3>3
  <2> QED BY <1>3, <2>1, <2>2, WritingThen
<1>4. ASSUME NEW p \in Producers, NEW r \in Producers, Writing(p)', Writing(r)', m_pos'[p] = m_pos'[r]
      PROVE  p = r
  <2>1. ASSUME NEW q \in Producers, Writing(q), m_pos[q] = enq PROVE FALSE
    <3>1. InTurn(enq) BY <1>0, <2>1 DEF Writers
    <3>2. Pushed < Pushed /\ Pushed \in Nat BY <1>0, <1>2, <3>1, InTurnWord, CountersAre DEF Pushed
    <3> QED BY <3>2
  <2>2. ASSUME PClaims(p), PClaims(r) PROVE p = r
    <3>1. ASSUME p # r PROVE FALSE BY <2>2, <3>1 DEF PClaims, ByProducer, Goes
    <3> QED BY <3>1
  <2>3. (Writing(p) /\ m_pos'[p] = m_pos[p]) \/ (PClaims(p) /\ m_pos'[p] = enq) BY <1>4, WritingThen
  <2>4. (Writing(r) /\ m_pos'[r] = m_pos[r]) \/ (PClaims(r) /\ m_pos'[r] = enq) BY <1>4, WritingThen
  <2>5. CASE Writing(p) /\ Writing(r) /\ m_pos[p] = m_pos[r] BY <1>0, <2>5 DEF Writers
  <2> QED BY <1>4, <2>1, <2>2, <2>3, <2>4, <2>5
<1>5. \A p \in Producers : Writing(p)' => m_pos'[p] \in R!Words
  BY <1>1, <1>2, WritingThen
<1>6. ASSUME NEW p \in Producers
      PROVE  /\ (Writing(p) => InTurn(m_pos[p]) /\ Claimed(m_pos[p]))'
             /\ (m_pc[p] = "publish" => DataAt(m_pos[p]) = R!Value(p))'
  <2>1. ASSUME Writing(p)'
        PROVE  /\ InTurn(m_pos[p])' /\ Claimed(m_pos[p])'
               /\ m_pc'[p] = "publish" => DataAt(m_pos[p])' = R!Value(p)'
    <3>1. PICK x \in R!Words : x = m_pos'[p] BY <1>5, <2>1
    <3>2. /\ InTurn(x)' /\ R!SeqAt(x)' = x
          /\ m_pc'[p] = "publish" => DataAt(x)' = <<p, m_sent'[p] + 1>>
      BY <1>3, <2>1, <3>1
    <3>3. InTurn(m_pos[p])'
      <4>1. InTurn(x)' <=> Pushed' <= Ofs(x) + Cap /\ Ofs(x) < Pushed' BY DEF InTurn, Ofs
      <4>2. InTurn(m_pos[p])' <=> Pushed' <= Ofs(x) + Cap /\ Ofs(x) < Pushed'
        BY <3>1 DEF InTurn, Ofs, R!Words
      <4> QED BY <3>2, <4>1, <4>2
    <3>4. Claimed(m_pos[p])' BY <3>1, <3>2 DEF Claimed, R!SeqAt, R!Slot
    <3>5. DataAt(m_pos[p])' = DataAt(x)' BY <3>1 DEF DataAt, R!Slot
    <3>6. R!Value(p)' = <<p, m_sent'[p] + 1>> BY DEF R!Value
    <3> QED BY <3>2, <3>3, <3>4, <3>5, <3>6
  <2>2. (m_pc[p] = "publish")' => Writing(p)' BY DEF Writing
  <2> QED BY <2>1, <2>2
<1> QED BY <1>4, <1>6 DEF Writers

LEMMA LookersStep == RingInv /\ RingKinds /\ RingPlaces' => Lookers'
<1> SUFFICES ASSUME RingInv, RingKinds, RingPlaces', NEW o \in Observers, m_pc'[o] = "look"
    PROVE  Cap <= Ofs(m_pos'[o]) /\ Ofs(m_pos'[o]) <= Popped'
  BY DEF Lookers, Ofs
<1>0. /\ Popped \in Nat /\ Popped <= Popped' /\ Popped' \in Nat /\ Cap <= Popped /\ Cap \in Nat
      /\ m_pos[o] \in R!Words
  BY CountersAre, Forward, RingSetting, ThreadsApart DEF RingInv, Counters, R!TypeOK
<1>1. \/ m_pc[o] = "look" /\ m_pos'[o] = m_pos[o]
      \/ m_pos'[o] = deq
  <2>1. ASSUME ObserversSame
    PROVE m_pc[o] = "look" /\ m_pos'[o] = m_pos[o] BY <2>1 DEF ObserversSame
  <2>2. ASSUME NEW p \in Producers, PKinds(p) PROVE ObserversSame
    BY <2>2 DEF PKinds, PLooks, PClaims, PWrites, PPublishes, ByProducer
  <2>3. ASSUME NEW c \in Consumers, CKinds(c) PROVE ObserversSame
    BY <2>3 DEF CKinds, CLooks, CTakes, CCopies, CAdvances, CFrees, BStarts, BReads, BStops,
          BCopies,
                BFrees, BEnds, ByConsumer
  <2>4. ASSUME NEW x \in Observers, OLooks(x)
        PROVE  (m_pc[o] = "look" /\ m_pos'[o] = m_pos[o]) \/ m_pos'[o] = deq
    BY <2>4 DEF OLooks, Goes
  <2> QED BY <2>1, <2>2, <2>3, <2>4 DEF RingKinds
<1>2. CASE m_pos'[o] = deq BY <1>0, <1>2 DEF Popped
<1>3. CASE m_pc[o] = "look" /\ m_pos'[o] = m_pos[o]
  <2>1. Cap <= Ofs(m_pos[o]) /\ Ofs(m_pos[o]) <= Popped BY <1>3 DEF RingInv, Lookers
  <2>2. Ofs(m_pos[o]) \in Nat BY <1>0, OfsType
  <2> QED BY <1>0, <1>3, <2>1, <2>2
<1> QED BY <1>1, <1>2, <1>3

\* How a producer comes to look at a slot, and to try for it.
LEMMA LookingThen ==
  ASSUME RingInv, RingKinds, NEW p \in Producers, m_pc'[p] \in {"seq", "cas"}
  PROVE  \/ m_pc[p] = m_pc'[p] /\ m_pos'[p] = m_pos[p]
         \/ m_pc'[p] = "seq" /\ m_pos'[p] = enq
         \/ /\ m_pc[p] = "seq" /\ m_pos'[p] = m_pos[p]
            /\ R!Diff(R!SeqAt(m_pos[p]), m_pos[p]) = 0 /\ enq' = enq /\ sequence' = sequence
<1>1. ASSUME ProducersSame
  PROVE m_pc[p] = m_pc'[p] /\ m_pos'[p] = m_pos[p] BY <1>1 DEF ProducersSame
<1>2. ASSUME NEW q \in Producers, PKinds(q), q # p
      PROVE  m_pc[p] = m_pc'[p] /\ m_pos'[p] = m_pos[p]
  BY <1>2 DEF PKinds, PLooks, PClaims, PWrites, PPublishes, ByProducer
<1>3. ASSUME PLooks(p)
      PROVE  \/ m_pc[p] = m_pc'[p] /\ m_pos'[p] = m_pos[p]
             \/ m_pc'[p] = "seq" /\ m_pos'[p] = enq
             \/ /\ m_pc[p] = "seq" /\ m_pos'[p] = m_pos[p]
                /\ R!Diff(R!SeqAt(m_pos[p]), m_pos[p]) = 0 /\ enq' = enq /\ sequence' = sequence
  BY <1>3 DEF PLooks, Goes, Stays
<1>4. ~PClaims(p) /\ ~PWrites(p) /\ ~PPublishes(p) BY DEF PClaims, PWrites, PPublishes, Goes
<1>5. ASSUME NEW c \in Consumers, CKinds(c) PROVE ProducersSame
  BY <1>5 DEF CKinds, CLooks, CTakes, CCopies, CAdvances, CFrees, BStarts, BReads, BStops, BCopies,
              BFrees, BEnds, ByConsumer
<1>6. ASSUME NEW o \in Observers, OLooks(o) PROVE ProducersSame BY <1>6 DEF OLooks
<1>7. CASE \E q \in Producers : PKinds(q)
  <2>1. PICK q \in Producers : PKinds(q) BY <1>7
  <2>2. CASE q = p BY <2>1, <2>2, <1>3, <1>4 DEF PKinds
  <2>3. CASE q # p BY <2>1, <2>3, <1>2
  <2> QED BY <2>2, <2>3
<1> QED BY <1>1, <1>5, <1>6, <1>7 DEF RingKinds

\* A slot that is free for the next claim stays so.
LEMMA NextFree ==
  ASSUME RingInv, RingKinds, RingPlaces', enq' = enq, R!SeqAt(enq) = enq
  PROVE  R!SeqAt(enq)' = enq
<1>1. SlotKinds BY SlotSteps
<1>0. enq \in R!Words BY NearWords DEF RingInv
<1>2. CASE TurnSame /\ SeqSame
  <2>1. \A x \in R!Words : x = enq => R!SeqAt(x)' = x BY <1>2 DEF SeqSame
  <2>2. \A x \in R!Words : x = enq => R!SeqAt(enq)' = x BY <2>1 DEF R!SeqAt, R!Slot
  <2> QED BY <1>0, <2>2
<1>3. ASSUME NEW p \in Producers, SlotClaims(p) PROVE FALSE
  <2>1. PClaims(p) BY <1>3 DEF SlotClaims
  <2>2. Pushed' = Pushed + 1 BY <2>1, ProducerMoves DEF PKinds
  <2>3. Pushed' = Pushed /\ Pushed \in Nat BY CountersAre DEF Pushed, Ofs, RingInv
  <2> QED BY <2>2, <2>3
<1>4. ASSUME NEW x \in R!Words, SeqBut(x) PROVE R!SeqAt(enq)' = enq BY <1>4 DEF SeqBut
<1> QED BY <1>1, <1>2, <1>3, <1>4 DEF SlotKinds, SlotPublishes, SlotFrees

LEMMA PushersStep == RingInv /\ RingKinds /\ RingPlaces' => Pushers'
<1> SUFFICES ASSUME RingInv, RingKinds, RingPlaces', NEW p \in Producers, m_pc'[p] \in {"seq", "cas"}
    PROVE  /\ Cap <= Ofs(m_pos'[p]) /\ Ofs(m_pos'[p]) <= Pushed'
           /\ m_pc'[p] = "cas" /\ m_pos'[p] = enq' => R!SeqAt(enq)' = enq'
  BY DEF Pushers, Ofs
<1>0. /\ R!TypeOK /\ RingPlaces /\ Counters /\ Pushers
      /\ Pushed \in Nat /\ Pushed <= Pushed' /\ Pushed' \in Nat /\ Cap <= Pushed /\ Cap \in Nat
      /\ Pushed' = Pushed \/ Pushed' = Pushed + 1
      /\ m_pos[p] \in R!Words /\ enq \in R!Words
  <2>1. R!TypeOK /\ RingPlaces /\ Counters /\ Pushers BY DEF RingInv
  <2>2. Pushed \in Nat /\ Popped \in Nat /\ Gone \in Nat /\ Cap \in Nat
    BY <2>1, CountersAre, RingSetting
  <2>3. Cap <= Pushed BY <2>1, <2>2 DEF Counters
  <2>4. Pushed <= Pushed' /\ Pushed' \in Nat /\ (Pushed' = Pushed \/ Pushed' = Pushed + 1)
    BY Forward
  <2>5. m_pos[p] \in R!Words /\ enq \in R!Words BY <2>1, ThreadsApart DEF R!TypeOK
  <2> QED BY <2>1, <2>2, <2>3, <2>4, <2>5
<1>1. CASE m_pc'[p] = "seq" /\ m_pos'[p] = enq
  <2>1. Ofs(m_pos'[p]) = Pushed BY <1>1 DEF Pushed
  <2> QED BY <1>0, <1>1, <2>1
<1>2. CASE \/ m_pc[p] = m_pc'[p] /\ m_pos'[p] = m_pos[p]
           \/ /\ m_pc[p] = "seq" /\ m_pos'[p] = m_pos[p]
              /\ R!Diff(R!SeqAt(m_pos[p]), m_pos[p]) = 0 /\ enq' = enq /\ sequence' = sequence
  <2>1. m_pc[p] \in {"seq", "cas"} /\ m_pos'[p] = m_pos[p] BY <1>2
  <2>2. Cap <= Ofs(m_pos[p]) /\ Ofs(m_pos[p]) <= Pushed BY <1>0, <2>1 DEF Pushers
  <2>3. Ofs(m_pos[p]) \in Nat BY <1>0, OfsType
  <2>4. Cap <= Ofs(m_pos'[p]) /\ Ofs(m_pos'[p]) <= Pushed' BY <2>1, <2>2, <2>3, <1>0
  <2>5. ASSUME m_pc'[p] = "cas", m_pos'[p] = enq' PROVE R!SeqAt(enq)' = enq'
    <3>1. enq' = enq
      <4>1. Ofs(enq') = Ofs(m_pos[p]) BY <2>1, <2>5
      <4>2. Pushed' = Ofs(enq') BY DEF Pushed, Ofs
      <4>3. Pushed' = Pushed BY <4>1, <4>2, <2>2, <2>3, <1>0
      <4>4. Ofs(m_pos[p]) = Ofs(enq) BY <4>1, <4>2, <4>3 DEF Pushed
      <4>5. m_pos[p] = enq BY <4>4, <1>0, OfsApart
      <4> QED BY <4>5, <2>1, <2>5
    <3>2. m_pos[p] = enq BY <2>1, <2>5, <3>1
    <3>3. R!SeqAt(enq) = enq
      <4>1. CASE m_pc[p] = "cas" BY <4>1, <3>2, <1>0 DEF Pushers
      <4>2. CASE R!Diff(R!SeqAt(m_pos[p]), m_pos[p]) = 0
        <5>1. R!SeqAt(enq) \in R!Words
          <6>1. R!Slot(enq) \in 0 .. Cap - 1 BY <1>0, OfsSlot
          <6> QED BY <6>1, <1>0 DEF R!TypeOK, R!SeqAt
        <5> QED BY <5>1, <4>2, <3>2, <1>0, DiffZero
      <4> QED BY <1>2, <2>5, <4>1, <4>2
    <3> QED BY <3>1, <3>3, NextFree
  <2> QED BY <2>4, <2>5
<1> QED BY <1>1, <1>2, LookingThen

-----------------------------------------------------------------------------
(* The ring: its consumers *)

\* A single consumer is the only one that steps.
LEMMA OnlyStep ==
  ASSUME RingPlaces, R!Single, NEW c \in Consumers, CKinds(c), NEW d \in Consumers, m_pc[d] # "off"
  PROVE  c = d
<1>1. m_pc[c] # "off"
  BY DEF CKinds, CLooks, CTakes, CCopies, CAdvances, CFrees, BStarts, BReads, BStops, BCopies,
         BFrees, BEnds, Goes
<1> QED BY <1>1, OneUser DEF RingPlaces

\* A consumer is where it was, or has stepped itself.
LEMMA ConsumerThen ==
  ASSUME RingKinds, NEW c \in Consumers
  PROVE  \/ CKinds(c)
         \/ /\ m_pc'[c] = m_pc[c] /\ m_pos'[c] = m_pos[c]
            /\ m_want'[c] = m_want[c] /\ m_k'[c] = m_k[c] /\ freed'[c] = freed[c]
            /\ ~(\E d \in Consumers : CKinds(d)) => deq' = deq /\ copied' = copied
<1>1. ASSUME NEW d \in Consumers, CKinds(d), d # c
      PROVE  /\ m_pc'[c] = m_pc[c] /\ m_pos'[c] = m_pos[c]
             /\ m_want'[c] = m_want[c] /\ m_k'[c] = m_k[c] /\ freed'[c] = freed[c]
  BY <1>1 DEF CKinds, CLooks, CTakes, CCopies, CAdvances, CFrees, BStarts, BReads, BStops, BCopies,
              BFrees, BEnds, ByConsumer
<1>2. ASSUME NEW p \in Producers, PKinds(p) PROVE ConsumersSame /\ deq' = deq /\ copied' = copied
  BY <1>2 DEF PKinds, PLooks, PClaims, PWrites, PPublishes, ByProducer
<1>3. ASSUME NEW o \in Observers, OLooks(o) PROVE ConsumersSame /\ deq' = deq /\ copied' = copied
  BY <1>3 DEF OLooks
<1> QED BY <1>1, <1>2, <1>3 DEF RingKinds, ConsumersSame

\* What is published stays so while nobody gives it back.
LEMMA PublishedStays ==
  ASSUME RingInv, RingKinds, RingPlaces', NEW a \in R!Words, InTurn(a), Published(a),
         \A c \in Consumers : ~SlotFrees(c, a)
  PROVE  InTurn(a)' /\ Published(a)' /\ DataAt(a)' = DataAt(a)
<1>0. R!TypeOK /\ RingPlaces /\ Counters BY DEF RingInv
<1>1. ~Claimed(a) /\ ~GivenBack(a) BY <1>0, InTurnWord DEF Published, Claimed, GivenBack
<1>2. InTurn(a)' BY <1>1, SlotFate
<1>3. a # enq
  <2>1. Ofs(a) < Pushed /\ Ofs(a) \in Nat BY <1>0, InTurnWord
  <2> QED BY <2>1 DEF Pushed
<1>4. R!SeqAt(a)' = R!SeqAt(a) BY <1>1, <1>2, <1>3, SlotFate
<1>5. Published(a)' BY <1>4 DEF Published, R!Plus
<1> QED BY <1>1, <1>2, <1>5, DataKept

LEMMA FreshStays ==
  ASSUME RingInv, RingKinds, RingPlaces', NEW a \in R!Words, InTurn(a), Published(a), Gone <= Ofs(a)
  PROVE  InTurn(a)' /\ Published(a)' /\ DataAt(a)' = DataAt(a)
<1>1. Gone \in Nat /\ Ofs(a) \in Nat BY CountersAre, OfsType DEF RingInv
<1>2. \A c \in Consumers : ~SlotFrees(c, a) BY <1>1 DEF SlotFrees
<1> QED BY <1>2, PublishedStays

LEMMA PoppersStep == RingInv /\ RingKinds /\ RingPlaces' => Poppers'
<1> SUFFICES ASSUME RingInv, RingKinds, RingPlaces', NEW c \in Consumers
    PROVE  /\ m_pc'[c] \in {"seq", "why", "cas"} => Cap <= Ofs(m_pos'[c]) /\ Ofs(m_pos'[c]) <= Popped'
           /\ R!Single' /\ m_pc'[c] \in {"seq", "why", "copy", "advance"} \cup Batching
                => m_pos'[c] = deq'
           /\ m_pc'[c] = "cas" /\ m_pos'[c] = deq' => InTurn(deq)' /\ Published(deq)'
           /\ m_pc'[c] = "free" \/ (m_pc'[c] = "copy" /\ ~R!Single') => Ofs(m_pos'[c]) < Popped'
  BY DEF Poppers, Ofs, Batching
<1>a. R!TypeOK /\ RingPlaces /\ Counters /\ Poppers /\ Holders /\ Cycle BY DEF RingInv
<1>b. /\ Pushed \in Nat /\ Popped \in Nat /\ Gone \in Nat /\ Cap \in Nat /\ Cap <= Popped
      /\ Popped <= Gone /\ Gone <= Pushed /\ Pushed <= Gone + Cap
  BY <1>a, CountersAre, RingSetting DEF Counters
<1>c. m_pos[c] \in R!Words /\ deq \in R!Words /\ Ofs(m_pos[c]) \in Nat
  BY <1>a, ThreadsApart, OfsType DEF R!TypeOK
<1>d. Popped <= Popped' /\ Popped' \in Nat BY Forward
<1>e. R!Single' <=> R!Single BY UsersKept
<1>f. /\ m_pc[c] \in {"seq", "why", "cas"} => Cap <= Ofs(m_pos[c]) /\ Ofs(m_pos[c]) <= Popped
      /\ R!Single /\ m_pc[c] \in {"seq", "why", "copy", "advance"} \cup Batching => m_pos[c] = deq
      /\ m_pc[c] = "cas" /\ m_pos[c] = deq => InTurn(deq) /\ Published(deq)
      /\ m_pc[c] = "free" \/ (m_pc[c] = "copy" /\ ~R!Single) => Ofs(m_pos[c]) < Popped
  BY <1>a DEF Poppers
<1>g. Popped' = Ofs(deq') /\ Popped = Ofs(deq) BY DEF Popped, Ofs
<1>h. ASSUME InTurn(deq), Published(deq), deq' = deq, Gone = Popped
  PROVE InTurn(deq)' /\ Published(deq)'
  <2>1. PICK a : a = deq OBVIOUS
  <2>2. InTurn(a)' /\ Published(a)' BY <2>1, <1>b, <1>c, <1>g, <1>h, FreshStays
  <2>3. InTurn(deq)' BY <2>1, <2>2, <1>h DEF InTurn, Ofs
  <2>4. Published(deq)' BY <2>1, <2>2, <1>h DEF Published, R!SeqAt, R!Slot, R!Plus
  <2> QED BY <2>3, <2>4
<1>1. CASE ~CKinds(c)
  <2>1. m_pc'[c] = m_pc[c] /\ m_pos'[c] = m_pos[c] BY <1>1, ConsumerThen
  <2>2. ASSUME R!Single, m_pc[c] # "off" PROVE deq' = deq
    <3>1. \A d \in Consumers : ~CKinds(d) BY <1>1, <1>a, <2>2, OnlyStep
    <3> QED BY <3>1, <1>1, ConsumerThen
  <2>3. ASSUME m_pc[c] = "cas", m_pos[c] = deq' PROVE InTurn(deq)' /\ Published(deq)'
    <3>1. Popped' = Ofs(m_pos[c]) BY <1>g, <2>3
    <3>2. Popped' = Popped BY <3>1, <2>3, <1>b, <1>c, <1>d, <1>f
    <3>3. m_pos[c] = deq BY <3>1, <3>2, <1>c, <1>g, OfsApart
    <3>4. Gone = Popped BY <1>a, <2>3, GoneIsPopped
    <3> QED BY <3>3, <3>4, <2>3, <1>f, <1>h
  <2>4. m_pc[c] \in Batching => m_pc[c] # "off" BY DEF Batching
  <2> QED BY <2>1, <2>2, <2>3, <2>4, <1>b, <1>c, <1>d, <1>e, <1>f
<1>2. CASE CKinds(c)
  <2>1. CASE CLooks(c)
    <3>1. deq' = deq /\ Popped' = Popped
      BY <1>2, <2>1, ConsumerMoves DEF CLooks, CTakes, CAdvances, BStops, BEnds, Goes
    <3>2. CASE m_pc'[c] \in {"idle", "reload"} BY <3>2 DEF Batching
    <3>3. CASE m_pc'[c] = "seq" /\ m_pos'[c] = deq BY <3>1, <3>3, <1>b, <1>g
    <3>4. CASE /\ m_pc[c] = "seq" /\ Stays(c) /\ R!Diff(R!SeqAt(m_pos[c]), R!Plus(m_pos[c], 1)) = 0
               /\ R!Single /\ m_pc'[c] = "copy"
      BY <3>1, <3>4, <1>e, <1>f DEF Stays
    <3>5. CASE /\ m_pc[c] = "seq" /\ Stays(c) /\ R!Diff(R!SeqAt(m_pos[c]), R!Plus(m_pos[c], 1)) = 0
               /\ ~R!Single /\ m_pc'[c] = "cas"
      <4>1. Cap <= Ofs(m_pos'[c]) /\ Ofs(m_pos'[c]) <= Popped' BY <3>1, <3>5, <1>f DEF Stays
      <4>2. ASSUME m_pos'[c] = deq' PROVE InTurn(deq)' /\ Published(deq)'
        <5>1. m_pos[c] = deq BY <4>2, <3>1, <3>5 DEF Stays
        <5>2. R!SeqAt(deq) \in R!Words
          <6>1. R!Slot(deq) \in 0 .. Cap - 1 BY <1>c, OfsSlot
          <6> QED BY <6>1, <1>a DEF R!TypeOK, R!SeqAt
        <5>3. R!Plus(deq, 1) \in R!Words BY <1>c, WordPlus
        <5>4. Published(deq) BY <5>1, <5>2, <5>3, <3>5, DiffZero DEF Published
        <5>5. Gone = Popped BY <1>a, <3>5, GoneIsPopped
        <5>6. InTurn(deq) BY <5>4, <5>5, <1>a, <1>b, <1>c, <1>g, PublishedBefore
        <5> QED BY <5>4, <5>5, <5>6, <3>1, <1>h
      <4> QED BY <4>1, <4>2, <3>5, <1>e DEF Batching
    <3>6. CASE m_pc[c] = "seq" /\ m_pc'[c] = "why" /\ Stays(c) BY <3>1, <3>6, <1>e, <1>f DEF Stays
    <3>7. CASE m_pc'[c] \in {"inflight", "empty"} BY <3>7 DEF Batching
    <3> QED BY <2>1, <3>2, <3>3, <3>4, <3>5, <3>6, <3>7 DEF CLooks, Goes
  <2>2. CASE CTakes(c)
    <3>1. Popped' = Popped + 1 BY <1>2, <2>2, ConsumerMoves
    <3>2. m_pc[c] = "cas" /\ m_pc'[c] = "copy" /\ m_pos'[c] = m_pos[c] /\ m_pos[c] = deq
      BY <2>2 DEF CTakes, Goes, Stays
    <3>3. ~R!Single BY <1>a, <3>2 DEF RingPlaces
    <3> QED BY <3>1, <3>2, <3>3, <1>b, <1>e, <1>g
  <2>3. CASE CCopies(c)
    <3>1. deq' = deq /\ Popped' = Popped
      BY <1>2, <2>3, ConsumerMoves DEF CCopies, CTakes, CAdvances, BStops, BEnds, Goes
    <3>2. m_pc[c] = "copy" /\ m_pos'[c] = m_pos[c]
          /\ ((R!Single /\ m_pc'[c] = "advance") \/ (~R!Single /\ m_pc'[c] = "free"))
      BY <2>3 DEF CCopies, Stays
    <3> QED BY <3>1, <3>2, <1>e, <1>f DEF Batching
  <2>4. CASE CAdvances(c)
    <3>1. Popped' = Popped + 1 BY <1>2, <2>4, ConsumerMoves
    <3>2. m_pc[c] = "advance" /\ m_pc'[c] = "free" /\ m_pos'[c] = m_pos[c]
      BY <2>4 DEF CAdvances, Goes, Stays
    <3>3. m_pos[c] = deq BY <3>2, <1>a, HeldFirst
    <3> QED BY <3>1, <3>2, <3>3, <1>b, <1>g DEF Batching
  <2>5. CASE CFrees(c) BY <2>5 DEF CFrees, Goes, Batching
  <2>6. CASE BStarts(c) BY <2>6 DEF BStarts, Goes
  <2>7. CASE BReads(c) \/ BStops(c) \/ BCopies(c) \/ BFrees(c)
    <3>1. deq' = deq /\ m_pc[c] \in Batching /\ m_pc'[c] \in Batching /\ m_pos'[c] = m_pos[c]
      BY <2>7 DEF BReads, BStops, BCopies, BFrees, Goes, Stays, Batching
    <3> QED BY <3>1, <1>e, <1>f DEF Batching
  <2>8. CASE BEnds(c) BY <2>8 DEF BEnds, Goes, Batching
  <2> QED BY <1>2, <2>1, <2>2, <2>3, <2>4, <2>5, <2>6, <2>7, <2>8 DEF CKinds
<1> QED BY <1>1, <1>2

\* What a consumer holds after a step it held before, and did not give back; or nobody
\* held it, and it is the next cell.
HeldAnew(c, a) ==
  /\ CKinds(c) /\ m_pc'[c] # m_pc[c]
  /\ InTurn(a) /\ Published(a) /\ Gone <= Ofs(a) /\ \A d \in Consumers : ~Holds(d, a)

LEMMA NextCell ==
  ASSUME RingInv, RingPlaces, NEW a \in R!Words, Published(a), Gone = Popped,
         Popped <= Ofs(a), Ofs(a) <= Pushed
  PROVE  InTurn(a) /\ Gone <= Ofs(a)
<1>0. R!TypeOK /\ Counters /\ Cycle BY DEF RingInv
<1>1. Pushed \in Nat /\ Popped \in Nat /\ Cap \in Nat /\ Pushed <= Popped + Cap /\ Ofs(a) \in Nat
  BY <1>0, CountersAre, OfsType, RingSetting DEF Counters
<1>2. Pushed <= Ofs(a) + Cap BY <1>1
<1> QED BY <1>0, <1>2, PublishedBefore

LEMMA HoldsThen ==
  ASSUME RingInv, RingKinds, RingPlaces', NEW c \in Consumers, NEW a \in R!Words, Holds(c, a)'
  PROVE  (Holds(c, a) /\ ~SlotFrees(c, a)) \/ HeldAnew(c, a)
<1>a. R!TypeOK /\ RingPlaces /\ Counters /\ Poppers /\ Holders /\ Cycle BY DEF RingInv
<1>b. /\ Pushed \in Nat /\ Popped \in Nat /\ Gone \in Nat /\ Cap \in Nat /\ Cap >= 2
      /\ Popped <= Gone /\ Gone <= Pushed /\ Pushed <= Gone + Cap
      /\ m_k[c] \in Nat /\ freed[c] \in Nat /\ Ofs(a) \in Nat
  BY <1>a, CountersAre, OfsType, RingSetting DEF Counters
<1>c. m_pos[c] \in R!Words /\ deq \in R!Words BY <1>a, ThreadsApart DEF R!TypeOK
<1>d. \/ m_pc'[c] \in {"copy", "advance", "free"} /\ a = m_pos'[c]
      \/ m_pc'[c] = "bseq" /\ Popped' <= Ofs(a) /\ Ofs(a) < Popped' + m_k'[c]
      \/ m_pc'[c] = "bcopy" /\ Popped' <= Ofs(a) /\ Ofs(a) <= Popped' + m_k'[c]
      \/ m_pc'[c] = "bfree" /\ Popped' + freed'[c] <= Ofs(a) /\ Ofs(a) < Popped' + m_k'[c]
  BY DEF Holds, Ofs
<1>e. deq' = deq => Popped' = Popped BY DEF Popped, Ofs
<1>1. CASE ~CKinds(c)
  <2>1. /\ m_pc'[c] = m_pc[c] /\ m_pos'[c] = m_pos[c]
        /\ m_k'[c] = m_k[c] /\ freed'[c] = freed[c]
    BY <1>1, ConsumerThen
  <2>2. m_pc[c] \in Batching => deq' = deq
    <3>1. ASSUME m_pc[c] \in Batching PROVE \A d \in Consumers : ~CKinds(d)
      <4>1. R!Single /\ m_pc[c] # "off" BY <3>1, <1>a DEF RingPlaces, Batching
      <4> QED BY <4>1, <1>a, <1>1, OnlyStep
    <3> QED BY <3>1, <1>1, ConsumerThen
  <2>3. Holds(c, a) BY <1>d, <1>e, <2>1, <2>2 DEF Holds, Batching
  <2>4. ~SlotFrees(c, a) BY <1>1 DEF SlotFrees, CKinds
  <2> QED BY <2>3, <2>4
<1>2. CASE CKinds(c)
  <2>a. m_pc[c] \notin {"free", "bfree"} => ~SlotFrees(c, a) BY DEF SlotFrees, CFrees, BFrees, Goes
  <2>1. CASE CLooks(c)
    <3>1. /\ m_pc[c] = "seq" /\ m_pc'[c] = "copy" /\ R!Single /\ m_pos'[c] = m_pos[c]
          /\ R!Diff(R!SeqAt(m_pos[c]), R!Plus(m_pos[c], 1)) = 0
      BY <1>d, <2>1 DEF CLooks, Goes, Stays
    <3>2. a = deq BY <1>a, <1>d, <3>1 DEF Poppers
    <3>3. R!SeqAt(deq) \in R!Words
      <4>1. R!Slot(deq) \in 0 .. Cap - 1 BY <1>c, OfsSlot
      <4> QED BY <4>1, <1>a DEF R!TypeOK, R!SeqAt
    <3>4. R!Plus(deq, 1) \in R!Words BY <1>c, WordPlus
    <3>5. m_pos[c] = deq BY <1>a, <3>1 DEF Poppers
    <3>6. Published(a) BY <3>1, <3>2, <3>3, <3>4, <3>5, DiffZero DEF Published
    <3>7. Gone = Popped BY <1>a, <3>1, GoneIsPopped
    <3>8. InTurn(a) /\ Gone <= Ofs(a) BY <3>2, <3>6, <3>7, <1>a, <1>b, NextCell DEF Popped
    <3>9. ASSUME NEW d \in Consumers, Holds(d, a) PROVE FALSE
      <4>1. m_pc[d] # "off" BY <3>9 DEF Holds
      <4>2. d = c BY <4>1, <3>1, <1>a, OneUser DEF RingPlaces
      <4> QED BY <4>2, <3>1, <3>9 DEF Holds
    <3> QED BY <1>2, <3>1, <3>6, <3>8, <3>9 DEF HeldAnew
  <2>2. CASE CTakes(c)
    <3>1. m_pc[c] = "cas" /\ m_pc'[c] = "copy" /\ m_pos'[c] = deq /\ m_pos[c] = deq
      BY <2>2 DEF CTakes, Goes, Stays
    <3>2. a = deq /\ InTurn(deq) /\ Published(deq) BY <1>a, <1>d, <3>1 DEF Poppers
    <3>3. ~R!Single /\ Gone = Popped BY <1>a, <3>1, GoneIsPopped DEF RingPlaces
    <3>4. Ofs(a) = Popped BY <3>2 DEF Popped
    <3>5. ASSUME NEW d \in Consumers, Holds(d, a) PROVE FALSE
      <4>1. m_pc[d] \notin Batching /\ m_pc[d] # "advance" BY <1>a, <3>3 DEF RingPlaces
      <4>2. m_pc[d] \in {"copy", "free"} /\ a = m_pos[d] BY <3>5, <4>1 DEF Holds, Batching
      <4>3. Ofs(m_pos[d]) < Popped BY <1>a, <3>3, <4>2 DEF Poppers
      <4> QED BY <4>2, <4>3, <3>4, <1>b
    <3> QED BY <1>2, <1>b, <3>1, <3>2, <3>3, <3>4, <3>5 DEF HeldAnew
  <2>3. CASE CCopies(c)
    <3>1. m_pc[c] = "copy" /\ m_pc'[c] \in {"advance", "free"} /\ m_pos'[c] = m_pos[c]
      BY <2>3 DEF CCopies, Stays
    <3>2. Holds(c, a) BY <1>d, <3>1 DEF Holds
    <3> QED BY <3>1, <3>2, <2>a
  <2>4. CASE CAdvances(c)
    <3>1. m_pc[c] = "advance" /\ m_pc'[c] = "free" /\ m_pos'[c] = m_pos[c]
      BY <2>4 DEF CAdvances, Goes, Stays
    <3>2. Holds(c, a) BY <1>d, <3>1 DEF Holds
    <3> QED BY <3>1, <3>2, <2>a
  <2>5. CASE CFrees(c) BY <2>5, <1>d DEF CFrees, Goes
  <2>6. CASE BStarts(c)
    <3>1. m_pc'[c] = "bseq" /\ m_k'[c] = 0 /\ deq' = deq BY <2>6 DEF BStarts, Goes
    <3> QED BY <3>1, <1>b, <1>d, <1>e
  <2>7. CASE BReads(c)
    <3>1. /\ m_pc[c] = "bseq" /\ m_pc'[c] = "bcopy" /\ m_k'[c] = m_k[c] /\ Popped' = Popped
          /\ Published(R!Plus(m_pos[c], m_k[c]))
      BY <2>7, <1>e DEF BReads, Goes, BatchSame
    <3>2. Popped <= Ofs(a) /\ Ofs(a) <= Popped + m_k[c] BY <1>d, <3>1
    <3>3. CASE Ofs(a) < Popped + m_k[c]
      <4>1. Holds(c, a) BY <3>1, <3>2, <3>3 DEF Holds
      <4> QED BY <4>1, <3>1, <2>a
    <3>4. CASE Ofs(a) = Popped + m_k[c]
      <4>1. m_pos[c] = deq /\ m_k[c] <= Cap /\ Popped + m_k[c] <= Pushed
        BY <1>a, <3>1, HeldFirst DEF Batching
      <4>2. m_k[c] \in 0 .. Cap BY <4>1, <1>b
      <4>3. R!Plus(deq, m_k[c]) \in R!Words /\ Ofs(R!Plus(deq, m_k[c])) = Popped + m_k[c]
        BY <4>2, <1>a, NearWords
      <4>4. a = R!Plus(deq, m_k[c]) BY <4>3, <3>4, OfsApart
      <4>5. Published(a) BY <4>1, <4>4, <3>1
      <4>6. Gone = Popped BY <1>a, <3>1, GoneIsPopped
      <4>7. InTurn(a) /\ Gone <= Ofs(a) BY <3>2, <3>4, <4>1, <4>5, <4>6, <1>a, NextCell
      <4>8. ASSUME NEW d \in Consumers, Holds(d, a) PROVE FALSE
        <5>1. m_pc[d] # "off" BY <4>8 DEF Holds
        <5>2. R!Single BY <3>1, <1>a DEF RingPlaces, Batching
        <5>3. d = c BY <5>1, <5>2, <3>1, <1>a, OneUser DEF RingPlaces
        <5>4. Ofs(a) < Popped + m_k[c] BY <5>3, <3>1, <4>8 DEF Holds
        <5> QED BY <5>4, <3>4, <1>b
      <4> QED BY <1>2, <3>1, <4>5, <4>7, <4>8 DEF HeldAnew
    <3> QED BY <3>2, <3>3, <3>4, <1>b
  <2>8. CASE BStops(c)
    <3>1. /\ m_pc[c] = "bseq" /\ m_pc'[c] = "bfree" /\ m_k'[c] = m_k[c] /\ freed'[c] = freed[c]
          /\ Popped' = Popped
      BY <2>8, <1>e DEF BStops, Goes, BatchSame
    <3>2. Popped <= Ofs(a) /\ Ofs(a) < Popped + m_k[c] BY <1>b, <1>d, <3>1
    <3>3. Holds(c, a) BY <3>1, <3>2 DEF Holds
    <3> QED BY <3>1, <3>3, <2>a
  <2>9. CASE BCopies(c)
    <3>1. m_pc[c] = "bcopy" /\ m_pc'[c] = "bseq" /\ m_k'[c] = m_k[c] + 1 /\ Popped' = Popped
      BY <2>9, <1>e DEF BCopies, Goes
    <3>2. Popped <= Ofs(a) /\ Ofs(a) <= Popped + m_k[c] BY <1>b, <1>d, <3>1
    <3>3. Holds(c, a) BY <3>1, <3>2 DEF Holds
    <3> QED BY <3>1, <3>3, <2>a
  <2>10. CASE BFrees(c)
    <3>1. /\ m_pc[c] = "bfree" /\ m_pc'[c] = "bfree" /\ m_k'[c] = m_k[c] /\ freed'[c] = freed[c] + 1
          /\ Popped' = Popped
      BY <2>10, <1>e DEF BFrees, Goes
    <3>2. Popped + freed[c] <= Ofs(a) /\ Ofs(a) < Popped + m_k[c] BY <1>b, <1>d, <3>1
    <3>3. Holds(c, a) BY <3>1, <3>2 DEF Holds
    <3>4. ~SlotFrees(c, a) BY DEF SlotFrees
    <3> QED BY <3>3, <3>4
  <2>11. CASE BEnds(c) BY <2>11, <1>d DEF BEnds, Goes
  <2> QED BY <1>2, <2>1, <2>2, <2>3, <2>4, <2>5, <2>6, <2>7, <2>8, <2>9, <2>10, <2>11 DEF CKinds
<1> QED BY <1>1, <1>2

LEMMA HoldersStep == RingInv /\ RingKinds /\ RingPlaces' => Holders'
<1> SUFFICES ASSUME RingInv, RingKinds, RingPlaces', NEW c \in Consumers, NEW a \in R!Words,
                    Holds(c, a)'
    PROVE  /\ InTurn(a)' /\ Published(a)'
           /\ \A d \in Consumers : Holds(d, a)' => c = d
  BY DEF Holders, R!Words
<1>1. (Holds(c, a) /\ ~SlotFrees(c, a)) \/ HeldAnew(c, a) BY HoldsThen
<1>2. ASSUME NEW d \in Consumers, NEW e \in Consumers, Holds(d, a), Holds(e, a) PROVE d = e
  BY <1>2 DEF RingInv, Holders
<1>3. InTurn(a)' /\ Published(a)'
  <2>1. CASE Holds(c, a) /\ ~SlotFrees(c, a)
    <3>1. \A d \in Consumers : ~SlotFrees(d, a) BY <2>1, <1>2 DEF SlotFrees
    <3> QED BY <3>1, <2>1, HeldWord, PublishedStays
  <2>2. CASE HeldAnew(c, a) BY <2>2, FreshStays DEF HeldAnew
  <2> QED BY <1>1, <2>1, <2>2
<1>4. ASSUME NEW d \in Consumers, Holds(d, a)' PROVE c = d
  <2>1. (Holds(d, a) /\ ~SlotFrees(d, a)) \/ HeldAnew(d, a) BY <1>4, HoldsThen
  <2>2. CASE Holds(c, a) /\ Holds(d, a) BY <2>2, <1>2
  <2>3. CASE HeldAnew(c, a) /\ HeldAnew(d, a)
    <3>1. ASSUME c # d PROVE FALSE
      <4>1. CKinds(c) /\ m_pc'[d] # m_pc[d] BY <2>3 DEF HeldAnew
      <4>2. m_pc'[d] = m_pc[d]
        BY <3>1, <4>1 DEF CKinds, CLooks, CTakes, CCopies, CAdvances, CFrees, BStarts, BReads,
              BStops,
                          BCopies, BFrees, BEnds, ByConsumer
      <4> QED BY <4>1, <4>2
    <3> QED BY <3>1
  <2> QED BY <1>1, <2>1, <2>2, <2>3 DEF HeldAnew
<1> QED BY <1>3, <1>4

-----------------------------------------------------------------------------
(* The ring: what has been copied *)

\* A step copies nothing, or what a consumer holds.
LEMMA CopiedThen ==
  ASSUME RingInv, RingKinds, NEW a \in R!Words
  PROVE  \/ copied'[a] = copied[a]
         \/ /\ copied'[a] = DataAt(a) /\ m_data' = m_data
            /\ \E c \in Consumers :
                 /\ Holds(c, a)
                 /\ \/ CCopies(c) /\ a = m_pos[c]
                    \/ BCopies(c) /\ Ofs(a) = Popped + m_k[c]
<1>a. R!TypeOK /\ RingPlaces /\ Counters /\ Poppers /\ Holders BY DEF RingInv
<1>b. copied \in [R!Words -> (Producers \X (1 .. MaxPush)) \cup {Void}] BY <1>a DEF R!TypeOK
<1>1. ASSUME NEW c \in Consumers, CCopies(c)
      PROVE  copied'[a] = copied[a] \/ (copied'[a] = DataAt(a) /\ Holds(c, a) /\ a = m_pos[c])
  <2>1. PICK x : x = m_pos[c] OBVIOUS
  <2>2. PICK v : v = DataAt(x) OBVIOUS
  <2>3. copied' = [copied EXCEPT ![x] = v] /\ m_pc[c] = "copy" BY <1>1, <2>1, <2>2 DEF CCopies
  <2>4. CASE a = x
    <3>1. copied'[a] = v BY <1>b, <2>3, <2>4
    <3>2. Holds(c, a) BY <2>1, <2>3, <2>4 DEF Holds
    <3> QED BY <2>1, <2>2, <2>4, <3>1, <3>2
  <2>5. CASE a # x BY <1>b, <2>3, <2>5
  <2> QED BY <2>4, <2>5
<1>2. ASSUME NEW c \in Consumers, BCopies(c)
      PROVE  \/ copied'[a] = copied[a]
             \/ copied'[a] = DataAt(a) /\ Holds(c, a) /\ Ofs(a) = Popped + m_k[c]
  <2>1. PICK x : x = R!Plus(m_pos[c], m_k[c]) OBVIOUS
  <2>2. PICK v : v = DataAt(x) OBVIOUS
  <2>3. copied' = [copied EXCEPT ![x] = v] /\ m_pc[c] = "bcopy"
    BY <1>2, <2>1, <2>2 DEF BCopies, Goes
  <2>4. CASE a = x
    <3>1. copied'[a] = v BY <1>b, <2>3, <2>4
    <3>2. m_pos[c] = deq /\ m_k[c] <= Cap BY <1>a, <2>3, HeldFirst DEF Batching
    <3>3. m_k[c] \in Nat /\ Popped \in Nat /\ Cap \in Nat BY <1>a, CountersAre, RingSetting
    <3>4. m_k[c] \in 0 .. Cap BY <3>2, <3>3
    <3>5. Ofs(a) = Popped + m_k[c] BY <3>2, <3>4, <2>1, <2>4, <1>a, NearWords
    <3>6. Holds(c, a) BY <2>3, <3>3, <3>5 DEF Holds
    <3> QED BY <2>2, <2>4, <3>1, <3>5, <3>6
  <2>5. CASE a # x BY <1>b, <2>3, <2>5
  <2> QED BY <2>4, <2>5
<1>3. ASSUME NEW c \in Consumers, CKinds(c), ~CCopies(c), ~BCopies(c) PROVE copied' = copied
  BY <1>3 DEF CKinds, CLooks, CTakes, CAdvances, CFrees, BStarts, BReads, BStops, BFrees, BEnds
<1>4. ASSUME NEW p \in Producers, PKinds(p) PROVE copied' = copied
  BY <1>4 DEF PKinds, PLooks, PClaims, PWrites, PPublishes, ByProducer
<1>5. ASSUME NEW o \in Observers, OLooks(o) PROVE copied' = copied BY <1>5 DEF OLooks
<1>6. CASE \E c \in Consumers : CKinds(c)
  <2>1. PICK c \in Consumers : CKinds(c) BY <1>6
  <2>2. CCopies(c) \/ BCopies(c) => m_data' = m_data BY DEF CCopies, BCopies, ByConsumer
  <2> QED BY <2>1, <2>2, <1>1, <1>2, <1>3
<1> QED BY <1>4, <1>5, <1>6 DEF RingKinds

\* What has been copied is not forgotten.
LEMMA CopiedKept ==
  ASSUME RingInv, RingKinds, NEW a \in R!Words, copied[a] # Void
  PROVE  copied'[a] # Void
BY CopiedThen, HeldWord

LEMMA GoneCopiedStep == RingInv /\ RingKinds /\ RingPlaces' => GoneCopied'
<1> SUFFICES ASSUME RingInv, RingKinds, RingPlaces', NEW a \in R!Words,
                    Cap <= Ofs(a), Ofs(a) < Gone', copied'[a] = Void
    PROVE  \E c \in Consumers : m_pc'[c] = "copy" /\ ~R!Single' /\ m_pos'[c] = a
  BY DEF GoneCopied, Ofs, R!Words
<1>a. R!TypeOK /\ RingPlaces /\ Counters /\ GoneCopied /\ ReadCopied BY DEF RingInv
<1>b. copied[a] = Void BY CopiedKept
<1>c. R!Single' <=> R!Single BY UsersKept
<1>1. CASE Ofs(a) < Gone
  <2>1. PICK c \in Consumers : m_pc[c] = "copy" /\ ~R!Single /\ m_pos[c] = a
    BY <1>1, <1>a, <1>b DEF GoneCopied
  <2>2. CASE ~CKinds(c) BY <2>1, <2>2, <1>c, ConsumerThen
  <2>3. CASE CKinds(c)
    <3>1. CCopies(c)
      BY <2>1, <2>3 DEF CKinds, CLooks, CTakes, CAdvances, CFrees, BStarts, BReads, BStops, BCopies,
                        BFrees, BEnds, Goes
    <3>2. PICK v : v = DataAt(a) OBVIOUS
    <3>3. copied' = [copied EXCEPT ![a] = v] BY <2>1, <3>1, <3>2 DEF CCopies
    <3>4. copied'[a] = v BY <1>a, <3>3 DEF R!TypeOK
    <3>5. Holds(c, a) BY <2>1 DEF Holds
    <3> QED BY <3>2, <3>4, <3>5, HeldWord
  <2> QED BY <2>2, <2>3
<1>2. CASE Gone <= Ofs(a)
  <2>1. PICK c \in Consumers :
          \/ CTakes(c) /\ a = m_pos[c]
          \/ CAdvances(c) /\ a = m_pos[c]
          \/ BStops(c) /\ Popped <= Ofs(a) /\ Ofs(a) < Popped + m_k[c]
    BY <1>2, TakenPublished
  <2>2. CASE CTakes(c) /\ a = m_pos[c]
    <3>1. m_pc[c] = "cas" /\ m_pc'[c] = "copy" /\ m_pos'[c] = a BY <2>2 DEF CTakes, Goes, Stays
    <3>2. ~R!Single BY <1>a, <3>1 DEF RingPlaces
    <3> QED BY <3>1, <3>2, <1>c
  <2>3. CASE CAdvances(c) /\ a = m_pos[c]
    <3>1. m_pc[c] = "advance" BY <2>3 DEF CAdvances, Goes
    <3> QED BY <2>3, <3>1, <1>a, <1>b DEF ReadCopied
  <2>4. CASE BStops(c) /\ Popped <= Ofs(a) /\ Ofs(a) < Popped + m_k[c]
    <3>1. m_pc[c] \in Batching BY <2>4 DEF BStops, Goes, Batching
    <3> QED BY <2>4, <3>1, <1>a, <1>b DEF ReadCopied
  <2> QED BY <2>1, <2>2, <2>3, <2>4
<1>3. Ofs(a) \in Nat /\ Gone \in Nat BY <1>a, OfsType, CountersAre
<1> QED BY <1>1, <1>2, <1>3

LEMMA FreshCopiedStep == RingInv /\ RingKinds /\ RingPlaces' => FreshCopied'
<1> SUFFICES ASSUME RingInv, RingKinds, RingPlaces', NEW a \in R!Words,
                    Gone' <= Ofs(a), copied'[a] # Void
    PROVE  InTurn(a)' /\ Published(a)' /\ copied'[a] = DataAt(a)'
  BY DEF FreshCopied, Ofs, R!Words
<1>a. Ofs(a) \in Nat /\ Gone \in Nat /\ Gone' \in Nat /\ Gone <= Gone'
  BY OfsType, CountersAre, Forward DEF RingInv
<1>b. Gone <= Ofs(a) BY <1>a
<1>1. CASE copied'[a] = copied[a]
  <2>1. InTurn(a) /\ Published(a) /\ copied[a] = DataAt(a) BY <1>1, <1>b DEF RingInv, FreshCopied
  <2> QED BY <1>1, <1>b, <2>1, FreshStays
<1>2. CASE copied'[a] = DataAt(a) /\ \E c \in Consumers : Holds(c, a)
  <2>1. InTurn(a) /\ Published(a) BY <1>2, HeldWord
  <2> QED BY <1>2, <1>b, <2>1, FreshStays
<1> QED BY <1>1, <1>2, CopiedThen

LEMMA HeldCopiedStep == RingInv /\ RingKinds /\ RingPlaces' => HeldCopied'
<1> SUFFICES ASSUME RingInv, RingKinds, RingPlaces', NEW c \in Consumers, NEW a \in R!Words,
                    Holds(c, a)', copied'[a] # Void
    PROVE  copied'[a] = DataAt(a)'
  BY DEF HeldCopied, R!Words
<1>1. CASE copied'[a] = copied[a]
  <2>1. (Holds(c, a) /\ ~SlotFrees(c, a)) \/ HeldAnew(c, a) BY HoldsThen
  <2>2. CASE Holds(c, a)
    <3>1. InTurn(a) /\ ~Claimed(a) BY <2>2, HeldWord
    <3>2. copied[a] = DataAt(a) BY <1>1, <2>2 DEF RingInv, HeldCopied
    <3> QED BY <1>1, <3>1, <3>2, DataKept
  <2>3. CASE HeldAnew(c, a)
    <3>1. InTurn(a) /\ Published(a) /\ Gone <= Ofs(a) BY <2>3 DEF HeldAnew
    <3>2. copied[a] = DataAt(a) BY <1>1, <3>1 DEF RingInv, FreshCopied
    <3> QED BY <1>1, <3>1, <3>2, FreshStays
  <2> QED BY <2>1, <2>2, <2>3
<1>2. CASE copied'[a] = DataAt(a) /\ m_data' = m_data
  <2>1. DataAt(a)' = DataAt(a) BY <1>2 DEF DataAt, R!Slot
  <2> QED BY <1>2, <2>1
<1> QED BY <1>1, <1>2, CopiedThen

LEMMA ReadCopiedStep == RingInv /\ RingKinds /\ RingPlaces' => ReadCopied'
<1> SUFFICES ASSUME RingInv, RingKinds, RingPlaces', NEW c \in Consumers
    PROVE  /\ m_pc'[c] = "advance" => copied'[m_pos'[c]] # Void
           /\ m_pc'[c] \in Batching => \A a \in R!Words :
                Popped' <= Ofs(a) /\ Ofs(a) < Popped' + m_k'[c] => copied'[a] # Void
  BY DEF ReadCopied, Ofs, R!Words, Batching
<1>a. R!TypeOK /\ RingPlaces /\ Counters /\ ReadCopied BY DEF RingInv
<1>b. Popped \in Nat /\ m_k[c] \in Nat /\ m_pos[c] \in R!Words
  BY <1>a, CountersAre, ThreadsApart DEF R!TypeOK
<1>c. deq' = deq => Popped' = Popped BY DEF Popped, Ofs
<1>d. \A a \in R!Words : Ofs(a) \in Nat BY OfsType
<1>1. CASE ~CKinds(c)
  <2>1. m_pc'[c] = m_pc[c] /\ m_pos'[c] = m_pos[c] /\ m_k'[c] = m_k[c] BY <1>1, ConsumerThen
  <2>2. m_pc[c] \in Batching => deq' = deq
    <3>1. ASSUME m_pc[c] \in Batching PROVE \A d \in Consumers : ~CKinds(d)
      <4>1. R!Single /\ m_pc[c] # "off" BY <3>1, <1>a DEF RingPlaces, Batching
      <4> QED BY <4>1, <1>a, <1>1, OnlyStep
    <3> QED BY <3>1, <1>1, ConsumerThen
  <2> QED BY <2>1, <2>2, <1>a, <1>b, <1>c, CopiedKept DEF ReadCopied
<1>2. CASE CKinds(c)
  <2>1. CASE CCopies(c)
    <3>1. m_pc[c] = "copy" /\ m_pos'[c] = m_pos[c] /\ m_pc'[c] \notin Batching
      BY <2>1 DEF CCopies, Stays, Batching
    <3>2. PICK x \in R!Words : x = m_pos[c] BY <1>b
    <3>3. PICK v : v = DataAt(x) OBVIOUS
    <3>4. copied' = [copied EXCEPT ![x] = v] BY <2>1, <3>2, <3>3 DEF CCopies
    <3>5. copied'[x] = v BY <1>a, <3>4 DEF R!TypeOK
    <3>6. Holds(c, x) BY <3>1, <3>2 DEF Holds
    <3>7. v # Void BY <3>3, <3>6, HeldWord
    <3> QED BY <3>1, <3>2, <3>5, <3>7
  <2>2. CASE BStarts(c)
    <3>1. m_pc'[c] = "bseq" /\ m_k'[c] = 0 /\ deq' = deq BY <2>2 DEF BStarts, Goes
    <3> QED BY <3>1, <1>b, <1>c, <1>d
  <2>3. CASE BReads(c) \/ BStops(c) \/ BFrees(c)
    <3>1. m_pc[c] \in Batching /\ m_pc'[c] # "advance" /\ m_k'[c] = m_k[c] /\ deq' = deq
      BY <2>3 DEF BReads, BStops, BFrees, Goes, BatchSame, Batching
    <3> QED BY <3>1, <1>a, <1>c, CopiedKept DEF ReadCopied
  <2>4. CASE BCopies(c)
    <3>1. /\ m_pc[c] = "bcopy" /\ m_pc'[c] # "advance" /\ m_k'[c] = m_k[c] + 1 /\ Popped' = Popped
          /\ m_pc[c] \in Batching
      BY <2>4, <1>c DEF BCopies, Goes, Batching
    <3>2. ASSUME NEW a \in R!Words, Popped <= Ofs(a), Ofs(a) < Popped + (m_k[c] + 1)
          PROVE  copied'[a] # Void
      <4>1. CASE Ofs(a) < Popped + m_k[c] BY <3>1, <3>2, <4>1, <1>a, CopiedKept DEF ReadCopied
      <4>2. CASE Ofs(a) = Popped + m_k[c]
        <5>1. m_pos[c] = deq /\ m_k[c] <= Cap BY <3>1, <1>a, HeldFirst DEF RingInv
        <5>2. m_k[c] \in 0 .. Cap BY <5>1, <1>b, RingSetting
        <5>3. R!Plus(deq, m_k[c]) \in R!Words /\ Ofs(R!Plus(deq, m_k[c])) = Popped + m_k[c]
          BY <5>2, <1>a, NearWords
        <5>4. a = R!Plus(m_pos[c], m_k[c]) BY <5>1, <5>3, <4>2, OfsApart
        <5>5. PICK v : v = DataAt(a) OBVIOUS
        <5>6. copied' = [copied EXCEPT ![a] = v] BY <2>4, <5>4, <5>5 DEF BCopies
        <5>7. copied'[a] = v BY <1>a, <5>6 DEF R!TypeOK
        <5>8. Holds(c, a) BY <3>1, <3>2, <4>2, <1>b DEF Holds
        <5> QED BY <5>5, <5>7, <5>8, HeldWord
      <4> QED BY <3>2, <4>1, <4>2, <1>b, <1>d
    <3> QED BY <3>1, <3>2
  <2>5. CASE CLooks(c) \/ CTakes(c) \/ CAdvances(c) \/ CFrees(c) \/ BEnds(c)
    <3>1. m_pc'[c] # "advance" /\ m_pc'[c] \notin Batching
      BY <2>5 DEF CLooks, CTakes, CAdvances, CFrees, BEnds, Goes, Batching
    <3> QED BY <3>1
  <2> QED BY <1>2, <2>1, <2>2, <2>3, <2>4, <2>5 DEF CKinds
<1> QED BY <1>1, <1>2

-----------------------------------------------------------------------------
(* The ring: its invariant, always *)

\* The counters begin a turn of the ring from the words' beginning.
LEMMA StartIs == Start \in R!Words /\ Ofs(Start) = Cap
<1>a. Cap \in Nat /\ Word \in Nat \ {0} /\ Start \in R!Words /\ Start \in Nat /\ Cap + Cap < Word
  BY RingSetting DEF R!Words
<1>1. (Start + Word - Start + Cap) = Word + Cap /\ Word + Cap \in Nat BY <1>a
<1>2. (Word + Cap) % Word = Cap BY <1>a, <1>1, ModTwice
<1> QED BY <1>a, <1>1, <1>2 DEF Ofs

LEMMA RingStarts == R!Init => RingInv
<1> SUFFICES ASSUME R!Init PROVE RingInv
  OBVIOUS
<1>a. /\ Cap \in Nat /\ Cap >= 2 /\ Word \in Nat /\ Start \in R!Words /\ Start \in Nat
      /\ Cap + Cap < Word /\ Start < Word
  BY RingSetting DEF R!Words
<1>b. R!TypeOK BY RingTypesStart
<1>c. Ofs(Start) = Cap BY StartIs
<1>d. PICK U \in Uses : m_pc = [th \in R!Threads |-> IF th \in Consumers \ U THEN "off" ELSE "idle"]
  BY DEF R!Init
<1>e. /\ \A p \in Producers : m_pc[p] = "idle"
      /\ \A c \in Consumers : m_pc[c] \in {"off", "idle"}
      /\ \A o \in Observers : m_pc[o] = "idle"
  BY <1>d, ThreadsApart
<1>f. \A c \in Consumers : m_k[c] = 0 BY DEF R!Init
<1>g. Popped = Cap /\ Pushed = Cap BY <1>c DEF R!Init, Popped, Pushed
<1>h. Gone = Cap
  <2>1. ~\E c \in Consumers : m_pc[c] = "bfree" BY <1>e
  <2> QED BY <1>g, <2>1 DEF Gone
<1>1. RingPlaces
  <2>1. IsFiniteSet(Users)
    <3>1. IsFiniteSet(U)
      <4>1. \A V \in Uses : R!IsFiniteSet(V) BY RingAssumption DEF R!MpqAssumption
      <4> QED BY <4>1, SameSets
    <3>2. Users \subseteq U BY <1>d, ThreadsApart DEF Users
    <3> QED BY <3>1, <3>2, FS_Subset
  <2> QED BY <1>e, <2>1 DEF RingPlaces, Batching
<1>2. Counters
  <2>1. \A p \in Producers : m_sent[p] = 0 BY DEF R!Init
  <2>2. Claims = {}
    <3>1. ASSUME NEW v \in Producers \X (1 .. MaxPush),
                 v[2] <= m_sent[v[1]] \/ (Writing(v[1]) /\ v[2] = m_sent[v[1]] + 1)
          PROVE  FALSE
      <4>1. v[1] \in Producers /\ v[2] \in 1 .. MaxPush OBVIOUS
      <4>2. ~Writing(v[1]) BY <4>1, <1>e DEF Writing
      <4>3. m_sent[v[1]] = 0 BY <4>1, <2>1
      <4> QED BY <3>1, <4>1, <4>2, <4>3
    <3> QED BY <3>1 DEF Claims
  <2>3. Cardinality(Claims) = 0 BY <2>2, FS_EmptySet
  <2> QED BY <1>a, <1>g, <1>h, <2>3 DEF Counters
<1>3. Cycle
  <2> SUFFICES ASSUME NEW a \in R!Words, InTurn(a)
      PROVE  GivenBack(a) /\ Ofs(a) < Gone /\ ~Claimed(a) /\ ~Published(a)
    <3>1. \A a \in R!Words : Ofs(a) \in Nat BY OfsType
    <3>2. \A a \in R!Words : Ofs(a) < Gone => ~(Gone <= Ofs(a)) BY <3>1, <1>a, <1>h
    <3> QED BY <3>2 DEF Cycle
  <2>1. Ofs(a) \in Nat /\ Ofs(a) < Cap BY <1>g, OfsType DEF InTurn
  <2>2. Ofs(a) + Cap < Word BY <2>1, <1>a
  <2>3. R!Plus(a, Cap) \in R!Words /\ Ofs(R!Plus(a, Cap)) = Ofs(a) + Cap
        /\ a # R!Plus(a, Cap) /\ R!Plus(a, 1) # R!Plus(a, Cap)
    BY <2>2, Different
  <2>4. R!Slot(a) = Ofs(a)
    <3>1. R!Slot(a) = Ofs(a) % Cap BY OfsSlot
    <3>2. Ofs(a) % Cap = Ofs(a) BY <1>a, <2>1, ModTwice
    <3> QED BY <3>1, <3>2
  <2>5. R!SeqAt(a) = R!Plus(Start, Ofs(a))
    <3>1. Ofs(a) \in 0 .. Cap - 1 BY <1>a, <2>1
    <3>2. sequence[Ofs(a)] = R!Plus(Start, Ofs(a)) BY <3>1 DEF R!Init
    <3> QED BY <2>4, <3>2 DEF R!SeqAt
  <2>6. R!Plus(Start, Ofs(a)) \in R!Words /\ Ofs(R!Plus(Start, Ofs(a))) = Cap + Ofs(a)
    <3>1. Ofs(Start) + Ofs(a) < Word BY <1>a, <1>c, <2>1
    <3> QED BY <3>1, <1>a, <1>c, <2>1, OfsPlus
  <2>7. R!Plus(Start, Ofs(a)) = R!Plus(a, Cap)
    <3>1. Cap + Ofs(a) = Ofs(a) + Cap BY <1>a, <2>1
    <3> QED BY <3>1, <2>3, <2>6, OfsApart
  <2> QED BY <1>h, <2>1, <2>3, <2>5, <2>7 DEF GivenBack, Claimed, Published
<1>4. Writers /\ Pushers BY <1>e DEF Writers, Pushers, Writing
<1>5. Poppers /\ Holders /\ Lookers BY <1>e DEF Poppers, Holders, Holds, Lookers, Batching
<1>6. \A a \in R!Words : copied[a] = Void BY DEF R!Init, R!Words
<1>7. FreshCopied /\ HeldCopied BY <1>6 DEF FreshCopied, HeldCopied
<1>8. GoneCopied
  <2>1. \A a \in R!Words : ~(Cap <= Ofs(a) /\ Ofs(a) < Gone)
    <3> SUFFICES ASSUME NEW a \in R!Words PROVE ~(Cap <= Ofs(a) /\ Ofs(a) < Gone)
      OBVIOUS
    <3>1. Ofs(a) \in Nat BY OfsType
    <3> QED BY <3>1, <1>a, <1>h
  <2> QED BY <2>1 DEF GoneCopied
<1>9. ReadCopied BY <1>e DEF ReadCopied, Batching
<1> QED BY <1>b, <1>1, <1>2, <1>3, <1>4, <1>5, <1>7, <1>8, <1>9 DEF RingInv

LEMMA RingShapesAre == R!TypeOK => RingShapes
BY DEF R!TypeOK, RingShapes, RingSpots

\* Every step is of one of the kinds, and leads to places again.
LEMMA RingSteps ==
  ASSUME RingInv, R!Next
  PROVE  RingKinds /\ R!TypeOK' /\ RingPlaces'
<1>1. R!TypeOK /\ RingPlaces BY DEF RingInv
<1>2. RingKinds BY <1>1, RingNextKinds
<1>3. R!TypeOK' BY <1>1, RingTypesStep
<1>4. RingPlaces' BY <1>1, <1>2, RingShapesAre, RingPlacesStep
<1> QED BY <1>2, <1>3, <1>4

LEMMA RingInvStep == RingInv /\ [R!Next]_(R!vars) => RingInv'
<1> SUFFICES ASSUME RingInv, [R!Next]_(R!vars) PROVE RingInv'
  OBVIOUS
<1>1. CASE R!Next
  <2>1. RingKinds /\ R!TypeOK' /\ RingPlaces' BY <1>1, RingSteps
  <2>2. Counters' BY <2>1, CountersStep
  <2>3. Cycle' BY <2>1, SlotsStep
  <2>4. Writers' BY <2>1, WritersStep
  <2>5. Pushers' BY <2>1, PushersStep
  <2>6. Poppers' BY <2>1, PoppersStep
  <2>7. Holders' BY <2>1, HoldersStep
  <2>8. GoneCopied' BY <2>1, GoneCopiedStep
  <2>9. FreshCopied' BY <2>1, FreshCopiedStep
  <2>10. ReadCopied' BY <2>1, ReadCopiedStep
  <2>11. Lookers' BY <2>1, LookersStep
  <2>12. HeldCopied' BY <2>1, HeldCopiedStep
  <2> QED BY <2>1, <2>2, <2>3, <2>4, <2>5, <2>6, <2>7, <2>8, <2>9, <2>10, <2>11, <2>12
    DEF RingInv
<1>2. CASE UNCHANGED R!vars
  <2>1. UNCHANGED <<enq, deq, sequence, m_data, m_pc, m_pos, m_want, m_k, freed, m_sent, copied>>
    BY <1>2 DEF R!vars
  <2> USE <2>1
  <2>2. R!TypeOK' <=> R!TypeOK BY DEF R!TypeOK, R!Threads, R!Words
  <2>3. Popped' = Popped /\ Pushed' = Pushed /\ Gone' = Gone BY DEF Popped, Pushed, Gone, Ofs
  <2>4. R!Single' <=> R!Single BY DEF R!Single
  <2>5. RingPlaces' <=> RingPlaces BY <2>4 DEF RingPlaces, Users, Batching
  <2>6. \A a \in R!Words : /\ InTurn(a)' <=> InTurn(a)
                           /\ Claimed(a)' <=> Claimed(a)
                           /\ Published(a)' <=> Published(a)
                           /\ GivenBack(a)' <=> GivenBack(a)
                           /\ DataAt(a)' = DataAt(a)
                           /\ \A c \in Consumers : Holds(c, a)' <=> Holds(c, a)
    BY <2>3 DEF InTurn, Claimed, Published, GivenBack, DataAt, Holds, R!SeqAt, R!Slot, R!Plus, Ofs
  <2>7. Counters' <=> Counters BY <2>3 DEF Counters, Claims, Writing
  <2>8. Cycle' <=> Cycle BY <2>3, <2>6 DEF Cycle, Ofs, R!Words
  <2>9. Writers' <=> Writers
    BY <2>3 DEF Writers, Writing, InTurn, Claimed, DataAt, R!SeqAt, R!Slot, R!Value, Ofs, R!Words
  <2>10. Pushers' <=> Pushers BY <2>3 DEF Pushers, Ofs, R!SeqAt, R!Slot
  <2>11. Poppers' <=> Poppers
    BY <2>3, <2>4 DEF Poppers, Ofs, Batching, InTurn, Published, R!SeqAt, R!Slot, R!Plus, R!Words
  <2>12. Holders' <=> Holders BY <2>6 DEF Holders, R!Words
  <2>13. GoneCopied' <=> GoneCopied BY <2>3, <2>4 DEF GoneCopied, Ofs, R!Words
  <2>14. FreshCopied' <=> FreshCopied BY <2>3, <2>6 DEF FreshCopied, Ofs, R!Words
  <2>15. ReadCopied' <=> ReadCopied BY <2>3 DEF ReadCopied, Ofs, R!Words, Batching
  <2>17. HeldCopied' <=> HeldCopied BY <2>6 DEF HeldCopied, R!Words
  <2>16. Lookers' <=> Lookers BY <2>3 DEF Lookers, Ofs
  <2> QED BY <2>2, <2>5, <2>7, <2>8, <2>9, <2>10, <2>11, <2>12, <2>13, <2>14, <2>15, <2>16, <2>17
    DEF RingInv
<1> QED BY <1>1, <1>2

LEMMA RingAlways == R!Spec => []RingInv
BY RingStarts, RingInvStep, PTL DEF R!Spec

\* Every variable of the ring stays in its type.
THEOREM RingTypesCorrect == R!Spec => []R!TypeOK
<1>1. RingInv => R!TypeOK BY DEF RingInv
<1> QED BY <1>1, RingAlways, PTL

-----------------------------------------------------------------------------
(* The ring: what it answers *)

\* The oldest position not taken, and the length, in counts.
LEMMA FrontIs ==
  ASSUME RingInv
  PROVE  /\ R!Front \in R!Words /\ Ofs(R!Front) = Gone
         /\ R!Length = Pushed - Gone /\ Pushed - Gone \in 0 .. Cap
         /\ R!Diff(R!Front, Start) = Gone - Cap /\ Gone - Cap \in Nat
<1>a. R!TypeOK /\ RingPlaces /\ Counters /\ Poppers BY DEF RingInv
<1>b. /\ Pushed \in Nat /\ Popped \in Nat /\ Gone \in Nat /\ Cap \in Nat /\ Cap >= 2
      /\ Cap <= Popped /\ Popped <= Gone /\ Gone <= Pushed /\ Pushed <= Gone + Cap
      /\ Pushed <= Cap + Claimable /\ Claimable \in Nat /\ 2 * (Claimable + Cap) < Word
      /\ Word \in Nat /\ enq \in R!Words /\ deq \in R!Words
  BY <1>a, CountersAre, RingSetting, NearWords DEF Counters
<1>1. R!Front \in R!Words /\ Ofs(R!Front) = Gone
  <2>1. CASE {c \in Consumers : m_pc[c] = "bfree"} = {}
    <3>1. R!Front = deq BY <2>1 DEF R!Front
    <3>2. \A c \in Consumers : m_pc[c] # "bfree" BY <2>1
    <3>3. Gone = Popped BY <1>a, <3>2, GoneIs DEF GoneMeans
    <3> QED BY <1>b, <3>1, <3>3 DEF Popped
  <2>2. CASE {c \in Consumers : m_pc[c] = "bfree"} # {}
    <3>1. PICK d : d = CHOOSE x \in {c \in Consumers : m_pc[c] = "bfree"} : TRUE OBVIOUS
    <3>2. d \in {c \in Consumers : m_pc[c] = "bfree"} BY <2>2, <3>1
    <3>3. R!Front = R!Plus(m_pos[d], m_k[d]) BY <2>2, <3>1 DEF R!Front
    <3>4. d \in Consumers /\ m_pc[d] = "bfree" BY <3>2
    <3>5. m_pos[d] = deq /\ m_k[d] <= Cap BY <1>a, <3>4, HeldFirst DEF RingInv, Batching
    <3>6. m_k[d] \in 0 .. Cap
      <4>1. m_k[d] \in Nat BY <1>a, <3>4, CountersAre
      <4> QED BY <4>1, <3>5, <1>b
    <3>7. R!Plus(deq, m_k[d]) \in R!Words /\ Ofs(R!Plus(deq, m_k[d])) = Popped + m_k[d]
      BY <1>a, <3>6, NearWords
    <3>8. Gone = Popped + m_k[d] BY <1>a, <3>4, GoneIs DEF GoneMeans
    <3> QED BY <3>3, <3>5, <3>7, <3>8
  <2> QED BY <2>1, <2>2
<1>2. Pushed - Gone \in 0 .. Cap /\ Gone - Cap \in Nat BY <1>b
<1>3. R!Length = Pushed - Gone
  <2>1. Ofs(enq) = Pushed /\ Ofs(R!Front) = Gone BY <1>1 DEF Pushed
  <2>2. 2 * (Pushed - Gone) < Word /\ 2 * (Gone - Pushed) < Word BY <1>b
  <2>3. R!Diff(enq, R!Front) = Ofs(enq) - Ofs(R!Front) BY <1>1, <1>b, <2>1, <2>2, OfsDiff
  <2> QED BY <2>1, <2>3 DEF R!Length
<1>4. R!Diff(R!Front, Start) = Gone - Cap
  <2>1. Start \in R!Words /\ Ofs(Start) = Cap BY StartIs
  <2>2. 2 * (Gone - Cap) < Word /\ 2 * (Cap - Gone) < Word BY <1>b
  <2>3. R!Diff(R!Front, Start) = Ofs(R!Front) - Ofs(Start) BY <1>1, <2>1, <2>2, OfsDiff
  <2> QED BY <1>1, <2>1, <2>3
<1> QED BY <1>1, <1>2, <1>3, <1>4

\* Nothing is pushed and not taken.
LEMMA EmptyIs ==
  ASSUME RingInv, Pushed <= Popped
  PROVE  R!Length = 0
<1>1. Pushed \in Nat /\ Gone \in Nat /\ Popped \in Nat /\ Popped <= Gone /\ Gone <= Pushed
  BY CountersAre DEF RingInv, Counters
<1>2. R!Length = Pushed - Gone BY FrontIs
<1> QED BY <1>1, <1>2

LEMMA EmptyAnswer ==
  ASSUME RingInv, RingKinds, NEW th \in Consumers \cup Observers, m_pc[th] # "empty", m_pc'[th] = "empty"
  PROVE  R!Length = 0
<1>a. R!TypeOK /\ RingPlaces /\ Counters /\ Poppers /\ Lookers BY DEF RingInv
<1>1. enq = m_pos[th] /\ Ofs(m_pos[th]) <= Popped
  <2>1. CASE th \in Consumers
    <3>1. CKinds(th) BY <2>1, ConsumerThen
    <3>2. m_pc[th] = "why" /\ enq = m_pos[th]
      BY <3>1 DEF CKinds, CLooks, CTakes, CCopies, CAdvances, CFrees, BStarts, BReads, BStops,
            BCopies,
                  BFrees, BEnds, Goes
    <3> QED BY <1>a, <2>1, <3>2 DEF Poppers
  <2>2. CASE th \in Observers
    <3>1. OLooks(th)
      <4>1. ASSUME ObserversSame PROVE FALSE BY <2>2, <4>1 DEF ObserversSame
      <4>2. ASSUME NEW p \in Producers, PKinds(p) PROVE ObserversSame
        BY <4>2 DEF PKinds, PLooks, PClaims, PWrites, PPublishes, ByProducer
      <4>3. ASSUME NEW c \in Consumers, CKinds(c) PROVE ObserversSame
        BY <4>3 DEF CKinds, CLooks, CTakes, CCopies, CAdvances, CFrees, BStarts, BReads, BStops,
              BCopies,
                    BFrees, BEnds, ByConsumer
      <4>4. ASSUME NEW o \in Observers, OLooks(o), o # th PROVE FALSE BY <2>2, <4>4 DEF OLooks
      <4> QED BY <4>1, <4>2, <4>3, <4>4 DEF RingKinds
    <3>2. m_pc[th] = "look" /\ enq = m_pos[th] BY <3>1 DEF OLooks, Goes
    <3> QED BY <1>a, <2>2, <3>2 DEF Lookers
  <2> QED BY <2>1, <2>2
<1>2. Pushed <= Popped BY <1>1 DEF Pushed
<1> QED BY <1>2, EmptyIs

\* A word differs from itself by nothing.
LEMMA DiffSame ==
  ASSUME NEW a \in R!Words
  PROVE  R!Diff(a, a) = 0
<1>1. Ofs(a) \in Nat /\ Word \in Nat /\ 0 < Word BY OfsType, RingSetting
<1>2. R!Diff(a, a) = Ofs(a) - Ofs(a) BY <1>1, OfsDiff
<1> QED BY <1>1, <1>2

\* A slot of an earlier word of the counters says a later one.
LEMMA SeqLater ==
  ASSUME RingInv, NEW x \in R!Words, Cap <= Ofs(x), Ofs(x) < Pushed
  PROVE  R!SeqAt(x) \in R!Words /\ Ofs(x) <= Ofs(R!SeqAt(x)) /\ Ofs(R!SeqAt(x)) < Pushed + Cap
<1>a. R!TypeOK /\ RingPlaces /\ Counters /\ Cycle BY DEF RingInv
<1>b. /\ Pushed \in Nat /\ Cap \in Nat /\ Cap >= 2 /\ Cap <= Pushed /\ Pushed + Cap < Word /\ Word \in Nat
      /\ Ofs(x) \in Nat /\ Pushed - Cap \in Nat /\ Pushed - Cap + Cap <= Word
  <2>1. Pushed \in Nat /\ Gone \in Nat /\ Popped \in Nat /\ Pushed + Cap < Word BY <1>a, CountersAre
  <2>2. Cap <= Pushed BY <1>a, <2>1, RingSetting DEF Counters
  <2> QED BY <2>1, <2>2, RingSetting, OfsType
<1>1. PICK b \in R!Words : R!Slot(b) = R!Slot(x) /\ Pushed - Cap <= Ofs(b) /\ Ofs(b) < Pushed - Cap + Cap
  BY <1>b, SlotWithin
<1>2. Ofs(b) \in Nat BY OfsType
<1>3. InTurn(b) BY <1>1, <1>2, <1>b DEF InTurn
<1>4. Ofs(x) <= Ofs(b)
  <2>1. ASSUME Ofs(b) < Ofs(x) PROVE FALSE
    <3>1. Ofs(x) < Ofs(b) + Cap /\ Ofs(b) < Ofs(x) + Cap BY <1>1, <1>2, <1>b, <2>1
    <3>2. x = b BY <1>1, <3>1, SlotsDiffer
    <3> QED BY <2>1, <3>2, <1>b
  <2> QED BY <2>1, <1>2, <1>b
<1>5. R!SeqAt(x) = R!SeqAt(b) BY <1>1 DEF R!SeqAt
<1>6. R!SeqAt(b) \in {b, R!Plus(b, 1), R!Plus(b, Cap)}
  BY <1>3, <1>a DEF Cycle, Claimed, Published, GivenBack
<1>7. /\ R!Plus(b, 1) \in R!Words /\ Ofs(R!Plus(b, 1)) = Ofs(b) + 1
      /\ R!Plus(b, Cap) \in R!Words /\ Ofs(R!Plus(b, Cap)) = Ofs(b) + Cap
  BY <1>3, <1>a, InTurnWord
<1>8. R!SeqAt(b) \in R!Words /\ Ofs(b) <= Ofs(R!SeqAt(b)) /\ Ofs(R!SeqAt(b)) <= Ofs(b) + Cap
  <2>1. CASE R!SeqAt(b) = b BY <2>1, <1>2, <1>b
  <2>2. CASE R!SeqAt(b) = R!Plus(b, 1) BY <2>2, <1>2, <1>7, <1>b
  <2>3. CASE R!SeqAt(b) = R!Plus(b, Cap) BY <2>3, <1>2, <1>7, <1>b
  <2> QED BY <1>6, <2>1, <2>2, <2>3
<1>9. Ofs(R!SeqAt(b)) \in Nat BY <1>8, OfsType
<1> QED BY <1>1, <1>2, <1>4, <1>5, <1>8, <1>9, <1>b

LEMMA FullAnswer ==
  ASSUME RingInv, RingKinds, NEW p \in Producers, m_pc[p] # "full", m_pc'[p] = "full"
  PROVE  R!SeqAt(enq) # enq
<1>a. R!TypeOK /\ RingPlaces /\ Counters /\ Pushers BY DEF RingInv
<1>1. m_pc[p] = "seq" /\ R!Diff(R!SeqAt(m_pos[p]), m_pos[p]) < 0
  <2>1. ASSUME ProducersSame PROVE FALSE BY <2>1 DEF ProducersSame
  <2>2. ASSUME NEW c \in Consumers, CKinds(c) PROVE ProducersSame
    BY <2>2 DEF CKinds, CLooks, CTakes, CCopies, CAdvances, CFrees, BStarts, BReads, BStops,
          BCopies,
                BFrees, BEnds, ByConsumer
  <2>3. ASSUME NEW o \in Observers, OLooks(o) PROVE ProducersSame BY <2>3 DEF OLooks
  <2>4. ASSUME NEW q \in Producers, PKinds(q), q # p PROVE FALSE
    BY <2>4 DEF PKinds, PLooks, PClaims, PWrites, PPublishes, ByProducer
  <2>5. PKinds(p) BY <2>1, <2>2, <2>3, <2>4 DEF RingKinds
  <2> QED BY <2>5 DEF PKinds, PLooks, PClaims, PWrites, PPublishes, Goes
<1>2. PICK x \in R!Words : x = m_pos[p] BY <1>a, ThreadsApart DEF R!TypeOK
<1>3. Cap <= Ofs(x) /\ Ofs(x) <= Pushed BY <1>a, <1>1, <1>2 DEF Pushers
<1>4. R!Diff(R!SeqAt(x), x) < 0 BY <1>1, <1>2
<1>5. /\ Ofs(x) \in Nat /\ Pushed \in Nat /\ enq \in R!Words /\ Cap \in Nat /\ Word \in Nat
      /\ Pushed <= Cap + Claimable /\ Claimable \in Nat /\ 2 * (Claimable + Cap) < Word
  BY <1>a, OfsType, CountersAre, RingSetting DEF R!TypeOK
<1>6. CASE Ofs(x) < Pushed
  <2>1. R!SeqAt(x) \in R!Words /\ Ofs(x) <= Ofs(R!SeqAt(x)) /\ Ofs(R!SeqAt(x)) < Pushed + Cap
    BY <1>3, <1>6, SeqLater
  <2>2. PICK w \in R!Words : w = R!SeqAt(x) BY <2>1
  <2>3. Ofs(w) \in Nat /\ Ofs(x) <= Ofs(w) /\ Ofs(w) < Pushed + Cap BY <2>1, <2>2, OfsType
  <2>4. 2 * (Ofs(w) - Ofs(x)) < Word /\ 2 * (Ofs(x) - Ofs(w)) < Word BY <2>3, <1>3, <1>5
  <2>5. R!Diff(w, x) = Ofs(w) - Ofs(x) BY <2>4, OfsDiff
  <2> QED BY <1>4, <1>5, <2>2, <2>3, <2>5
<1>7. CASE Ofs(x) = Pushed
  <2>1. x = enq BY <1>5, <1>7, OfsApart DEF Pushed
  <2> QED BY <1>4, <1>5, <2>1, DiffSame
<1> QED BY <1>3, <1>5, <1>6, <1>7

\* mpq: a queue said to be empty holds nothing, not even a cell that is claimed only, and a
\* push is refused only while the slot whose turn it is has not been given back
\* (mpq.h:70-85, 101-128).
THEOREM AnswersTrueCorrect == R!Spec => AnswersTrue
<1>1. ASSUME RingInv, R!Next
      PROVE  /\ \A th \in Consumers \cup Observers : m_pc[th] # "empty" /\ m_pc'[th] = "empty" => R!Length = 0
             /\ \A p \in Producers : m_pc[p] # "full" /\ m_pc'[p] = "full" => R!SeqAt(enq) # enq
  <2>1. RingKinds BY <1>1, RingSteps
  <2> QED BY <1>1, <2>1, EmptyAnswer, FullAnswer
<1>2. RingInv /\ [R!Next]_(R!vars) =>
        [/\ \A th \in Consumers \cup Observers : m_pc[th] # "empty" /\ m_pc'[th] = "empty" => R!Length = 0
         /\ \A p \in Producers : m_pc[p] # "full" /\ m_pc'[p] = "full" => R!SeqAt(enq) # enq]_(R!vars)
  BY <1>1
<1> QED BY <1>2, RingAlways, PTL DEF R!Spec, AnswersTrue, R!AnswersTrue

-----------------------------------------------------------------------------
(* The ring: its queue, position by position *)

\* What is at a position that is not taken, and what came out of one that is.
CellAt(a) == [val |-> R!ValueAt(a), ready |-> Published(a)]
OutOf(a) == IF copied[a] = Void THEN DataAt(a) ELSE copied[a]

\* The two sequences by their positions.
CellsMeant ==
  /\ Pushed - Gone \in Nat /\ R!Cells = [i \in 1 .. Pushed - Gone |-> R!Cells[i]]
  /\ \A i \in 1 .. Pushed - Gone, a \in R!Words : Ofs(a) = Gone + i - 1 => R!Cells[i] = CellAt(a)
TakenMeant ==
  /\ Gone - Cap \in Nat /\ R!Taken = [i \in 1 .. Gone - Cap |-> R!Taken[i]]
  /\ \A i \in 1 .. Gone - Cap, a \in R!Words : Ofs(a) = Cap + i - 1 => R!Taken[i] = OutOf(a)

LEMMA CellsAre == RingInv => CellsMeant
<1> SUFFICES ASSUME RingInv PROVE CellsMeant
  OBVIOUS
<1>a. /\ R!Front \in R!Words /\ Ofs(R!Front) = Gone /\ R!Length = Pushed - Gone
      /\ Pushed - Gone \in 0 .. Cap
  BY FrontIs
<1>b. Pushed \in Nat /\ Gone \in Nat /\ Pushed + Cap < Word /\ Cap \in Nat /\ Word \in Nat
  BY CountersAre, RingSetting DEF RingInv
<1>1. Pushed - Gone \in Nat BY <1>a, <1>b
<1>2. R!Cells = [i \in 1 .. Pushed - Gone |->
                   [val |-> R!ValueAt(R!Plus(R!Front, i - 1)),
                    ready |-> R!SeqAt(R!Plus(R!Front, i - 1)) = R!Plus(R!Plus(R!Front, i - 1), 1)]]
  BY <1>a DEF R!Cells
<1>3. R!Cells = [i \in 1 .. Pushed - Gone |-> R!Cells[i]]
  <2>1. PICK q : q = R!Cells OBVIOUS
  <2>2. q = [i \in 1 .. Pushed - Gone |-> q[i]] BY <2>1, <1>2
  <2> QED BY <2>1, <2>2
<1>4. ASSUME NEW i \in 1 .. Pushed - Gone, NEW a \in R!Words, Ofs(a) = Gone + i - 1
      PROVE  R!Cells[i] = CellAt(a)
  <2>1. i - 1 \in Nat /\ Ofs(R!Front) + (i - 1) < Word /\ Gone + (i - 1) = Gone + i - 1
    BY <1>a, <1>b, <1>4
  <2>2. R!Plus(R!Front, i - 1) \in R!Words /\ Ofs(R!Plus(R!Front, i - 1)) = Gone + (i - 1)
    BY <1>a, <2>1, OfsPlus
  <2>3. a = R!Plus(R!Front, i - 1) BY <1>4, <2>1, <2>2, OfsApart
  <2>4. R!Cells[i] = [val |-> R!ValueAt(R!Plus(R!Front, i - 1)),
                      ready |-> R!SeqAt(R!Plus(R!Front, i - 1)) = R!Plus(R!Plus(R!Front, i - 1), 1)]
    BY <1>2, <1>4
  <2> QED BY <2>3, <2>4 DEF CellAt, Published
<1> QED BY <1>1, <1>3, <1>4 DEF CellsMeant

LEMMA TakenAre == RingInv => TakenMeant
<1> SUFFICES ASSUME RingInv PROVE TakenMeant
  OBVIOUS
<1>a. R!Diff(R!Front, Start) = Gone - Cap /\ Gone - Cap \in Nat /\ Start \in R!Words /\ Ofs(Start) = Cap
  BY FrontIs, StartIs
<1>b. /\ Gone \in Nat /\ Pushed \in Nat /\ Gone <= Pushed /\ Pushed + Cap < Word /\ Cap \in Nat
      /\ Word \in Nat
  BY CountersAre, RingSetting DEF RingInv, Counters
<1>2. R!Taken = [i \in 1 .. Gone - Cap |->
                   IF copied[R!Plus(Start, i - 1)] = Void THEN m_data[R!Slot(R!Plus(Start, i - 1))]
                   ELSE copied[R!Plus(Start, i - 1)]]
  BY <1>a DEF R!Taken
<1>3. R!Taken = [i \in 1 .. Gone - Cap |-> R!Taken[i]]
  <2>1. PICK q : q = R!Taken OBVIOUS
  <2>2. q = [i \in 1 .. Gone - Cap |-> q[i]] BY <2>1, <1>2
  <2> QED BY <2>1, <2>2
<1>4. ASSUME NEW i \in 1 .. Gone - Cap, NEW a \in R!Words, Ofs(a) = Cap + i - 1
      PROVE  R!Taken[i] = OutOf(a)
  <2>1. i - 1 \in Nat /\ Ofs(Start) + (i - 1) < Word /\ Cap + (i - 1) = Cap + i - 1
    BY <1>a, <1>b, <1>4
  <2>2. R!Plus(Start, i - 1) \in R!Words /\ Ofs(R!Plus(Start, i - 1)) = Cap + (i - 1)
    BY <1>a, <2>1, OfsPlus
  <2>3. a = R!Plus(Start, i - 1) BY <1>4, <2>1, <2>2, OfsApart
  <2>4. R!Taken[i] = IF copied[R!Plus(Start, i - 1)] = Void
                     THEN m_data[R!Slot(R!Plus(Start, i - 1))] ELSE copied[R!Plus(Start, i - 1)]
    BY <1>2, <1>4
  <2> QED BY <2>3, <2>4 DEF OutOf, DataAt
<1> QED BY <1>a, <1>3, <1>4 DEF TakenMeant

\* There is a word for each position up to enq.
LEMMA WordFor ==
  ASSUME RingInv, NEW x \in Nat, x <= Pushed
  PROVE  \E a \in R!Words : Ofs(a) = x
<1>1. Pushed \in Nat /\ Pushed + Cap < Word /\ Cap \in Nat /\ Word \in Nat
  BY CountersAre, RingSetting DEF RingInv
<1>2. x \in 0 .. Word - 1 BY <1>1
<1> QED BY <1>2, OfsWordAt

\* A claimed position has the value of its producer, or what has been written.
ValueMeans ==
  \A a \in R!Words :
    /\ \A p \in Producers : Writing(p) /\ m_pos[p] = a => R!ValueAt(a) = <<p, m_sent[p] + 1>>
    /\ (\A p \in Producers : ~(Writing(p) /\ m_pos[p] = a)) => R!ValueAt(a) = DataAt(a)

LEMMA ValueAtIs == Writers => ValueMeans
<1> SUFFICES ASSUME Writers, NEW a \in R!Words
    PROVE  /\ \A p \in Producers : Writing(p) /\ m_pos[p] = a => R!ValueAt(a) = <<p, m_sent[p] + 1>>
           /\ (\A p \in Producers : ~(Writing(p) /\ m_pos[p] = a)) => R!ValueAt(a) = DataAt(a)
  BY DEF ValueMeans
<1> DEFINE W == {p \in Producers : m_pc[p] \in {"write", "publish"} /\ m_pos[p] = a}
<1>1. R!ValueAt(a) = IF W = {} THEN DataAt(a) ELSE R!Value(CHOOSE p \in W : TRUE)
  BY DEF R!ValueAt, DataAt
<1>2. ASSUME NEW p \in Producers, Writing(p), m_pos[p] = a PROVE R!ValueAt(a) = <<p, m_sent[p] + 1>>
  <2>1. PICK r : r = CHOOSE x \in W : TRUE OBVIOUS
  <2>2. p \in W BY <1>2 DEF Writing
  <2>3. r \in W BY <2>1, <2>2
  <2>4. r \in Producers /\ Writing(r) /\ m_pos[r] = a BY <2>3 DEF Writing
  <2>5. r = p BY <1>2, <2>4 DEF Writers
  <2> QED BY <1>1, <2>1, <2>2, <2>5 DEF R!Value
<1>3. ASSUME \A p \in Producers : ~(Writing(p) /\ m_pos[p] = a) PROVE R!ValueAt(a) = DataAt(a)
  <2>1. W = {} BY <1>3 DEF Writing
  <2> QED BY <1>1, <2>1
<1> QED BY <1>2, <1>3

\* A producer that is writing goes on with it until it publishes.
LEMMA WritingStays ==
  ASSUME RingInv, RingKinds, NEW p \in Producers, Writing(p), ~PPublishes(p)
  PROVE  Writing(p)' /\ m_pos'[p] = m_pos[p] /\ m_sent'[p] = m_sent[p]
<1>1. ASSUME NEW q \in Producers, PKinds(q), q # p
      PROVE  Writing(p)' /\ m_pos'[p] = m_pos[p] /\ m_sent'[p] = m_sent[p]
  <2>1. m_pc'[p] = m_pc[p] /\ m_pos'[p] = m_pos[p]
    BY <1>1 DEF PKinds, PLooks, PClaims, PWrites, PPublishes, ByProducer
  <2>2. m_sent'[p] = m_sent[p]
    <3>1. m_sent \in [Producers -> 0 .. MaxPush] BY DEF RingInv, R!TypeOK
    <3> QED BY <1>1, <3>1 DEF PKinds, PLooks, PClaims, PWrites, PPublishes
  <2> QED BY <2>1, <2>2 DEF Writing
<1>2. ASSUME PKinds(p) PROVE Writing(p)' /\ m_pos'[p] = m_pos[p] /\ m_sent'[p] = m_sent[p]
  BY <1>2 DEF PKinds, PLooks, PClaims, PWrites, Goes, Stays, Writing
<1>3. ASSUME ProducersSame, m_sent' = m_sent
      PROVE  Writing(p)' /\ m_pos'[p] = m_pos[p] /\ m_sent'[p] = m_sent[p]
  BY <1>3 DEF ProducersSame, Writing
<1>4. ASSUME NEW c \in Consumers, CKinds(c) PROVE ProducersSame /\ m_sent' = m_sent
  BY <1>4 DEF CKinds, CLooks, CTakes, CCopies, CAdvances, CFrees, BStarts, BReads, BStops, BCopies,
              BFrees, BEnds, ByConsumer
<1>5. ASSUME NEW o \in Observers, OLooks(o) PROVE ProducersSame /\ m_sent' = m_sent
  BY <1>5 DEF OLooks
<1> QED BY <1>1, <1>2, <1>3, <1>4, <1>5 DEF RingKinds

\* Positions between the oldest that is not taken and enq are of the turn.
LEMMA QueuedInTurn ==
  ASSUME RingInv, NEW a \in R!Words, Gone <= Ofs(a), Ofs(a) < Pushed
  PROVE  InTurn(a) /\ ~GivenBack(a) /\ a # enq
<1>1. /\ Pushed \in Nat /\ Gone \in Nat /\ Cap \in Nat /\ Pushed <= Gone + Cap /\ Ofs(a) \in Nat
  BY CountersAre, OfsType, RingSetting DEF RingInv, Counters
<1>2. InTurn(a) BY <1>1 DEF InTurn
<1>3. ~GivenBack(a) BY <1>2 DEF RingInv, Cycle
<1>4. a # enq BY <1>1 DEF Pushed
<1> QED BY <1>2, <1>3, <1>4

\* The value of a position is that of its claim.
LEMMA ValueStays ==
  ASSUME RingInv, RingKinds, RingPlaces', Writers', NEW a \in R!Words, InTurn(a), a # enq
  PROVE  R!ValueAt(a)' = R!ValueAt(a)
<1>a. Writers /\ ValueMeans BY ValueAtIs DEF RingInv
<1>b. ValueMeans'
  <2>1. Writers' => ValueMeans' BY ValueAtIs, PTL
  <2> QED BY <2>1
<1>c. /\ \A p \in Producers : Writing(p)' /\ m_pos'[p] = a => R!ValueAt(a)' = <<p, m_sent'[p] + 1>>
      /\ (\A p \in Producers : ~(Writing(p)' /\ m_pos'[p] = a)) => R!ValueAt(a)' = DataAt(a)'
  BY <1>b DEF ValueMeans, R!Words
<1>d. /\ \A p \in Producers : Writing(p) /\ m_pos[p] = a => R!ValueAt(a) = <<p, m_sent[p] + 1>>
      /\ (\A p \in Producers : ~(Writing(p) /\ m_pos[p] = a)) => R!ValueAt(a) = DataAt(a)
  BY <1>a DEF ValueMeans
<1>1. ASSUME NEW q \in Producers, Writing(q)', m_pos'[q] = a
      PROVE  Writing(q) /\ m_pos[q] = a /\ ~PPublishes(q)
  BY <1>1, WritingThen
<1>2. CASE \A p \in Producers : ~(Writing(p) /\ m_pos[p] = a)
  <2>1. \A p \in Producers : ~(Writing(p)' /\ m_pos'[p] = a) BY <1>1, <1>2
  <2>2. \A p \in Producers : PWrites(p) => m_pos[p] # a BY <1>2 DEF PWrites, Goes, Writing
  <2>3. DataAt(a)' = DataAt(a) BY <2>2, DataStays
  <2> QED BY <1>2, <1>c, <1>d, <2>1, <2>3
<1>3. ASSUME NEW p \in Producers, Writing(p), m_pos[p] = a PROVE R!ValueAt(a)' = R!ValueAt(a)
  <2>1. CASE ~PPublishes(p)
    <3>1. Writing(p)' /\ m_pos'[p] = m_pos[p] /\ m_sent'[p] = m_sent[p] BY <1>3, <2>1, WritingStays
    <3> QED BY <1>3, <1>c, <1>d, <3>1
  <2>2. CASE PPublishes(p)
    <3>1. ASSUME NEW q \in Producers, Writing(q)', m_pos'[q] = a PROVE FALSE
      <4>1. Writing(q) /\ m_pos[q] = a /\ ~PPublishes(q) BY <1>1, <3>1
      <4>2. q = p BY <1>3, <1>a, <4>1 DEF Writers
      <4> QED BY <2>2, <4>1, <4>2
    <3>2. R!ValueAt(a)' = DataAt(a)' BY <1>c, <3>1
    <3>3. m_pc[p] = "publish" /\ m_data' = m_data BY <2>2 DEF PPublishes, Goes
    <3>4. DataAt(a)' = DataAt(a) BY <3>3 DEF DataAt, R!Slot
    <3>5. DataAt(a) = <<p, m_sent[p] + 1>> BY <1>3, <1>a, <3>3 DEF Writers, R!Value
    <3> QED BY <1>3, <1>d, <3>2, <3>4, <3>5
  <2> QED BY <2>1, <2>2
<1> QED BY <1>2, <1>3

\* Whether a position can be taken changes only when its producer publishes it.
LEMMA ReadyStays ==
  ASSUME RingInv, RingKinds, RingPlaces', NEW a \in R!Words, Gone <= Ofs(a), Ofs(a) < Pushed,
         \A p \in Producers : PPublishes(p) => m_pos[p] # a
  PROVE  Published(a)' <=> Published(a)
<1>1. InTurn(a) /\ ~GivenBack(a) /\ a # enq BY QueuedInTurn
<1>2. InTurn(a)' BY <1>1, SlotFate
<1>3. Gone \in Nat /\ Ofs(a) \in Nat BY CountersAre, OfsType DEF RingInv
<1>4. \A c \in Consumers : ~SlotFrees(c, a) BY <1>3 DEF SlotFrees
<1>5. R!SeqAt(a)' = R!SeqAt(a) BY <1>1, <1>2, <1>4, SlotFate
<1> QED BY <1>5 DEF Published, R!Plus

LEMMA CellStays ==
  ASSUME RingInv, RingKinds, RingPlaces', Writers', NEW a \in R!Words, Gone <= Ofs(a), Ofs(a) < Pushed,
         \A p \in Producers : PPublishes(p) => m_pos[p] # a
  PROVE  CellAt(a)' = CellAt(a)
<1>1. InTurn(a) /\ a # enq BY QueuedInTurn
<1>2. R!ValueAt(a)' = R!ValueAt(a) BY <1>1, ValueStays
<1>3. Published(a)' <=> Published(a) BY ReadyStays
<1>4. Published(a) \in BOOLEAN /\ Published(a)' \in BOOLEAN BY DEF Published
<1> QED BY <1>2, <1>3, <1>4 DEF CellAt

\* What came out of a position does not change.
LEMMA OutStays ==
  ASSUME RingInv, RingKinds, RingPlaces', NEW a \in R!Words, Cap <= Ofs(a), Ofs(a) < Gone
  PROVE  OutOf(a)' = OutOf(a)
<1>a. R!TypeOK /\ RingPlaces /\ Counters /\ Gone \in Nat /\ Popped \in Nat /\ Ofs(a) \in Nat
  BY CountersAre, OfsType DEF RingInv
<1>0. OutOf(a)' = IF copied'[a] = Void THEN DataAt(a)' ELSE copied'[a] BY DEF OutOf
<1>1. CASE copied[a] = Void
  <2>1. PICK c \in Consumers : m_pc[c] = "copy" /\ ~R!Single /\ m_pos[c] = a
    BY <1>1 DEF RingInv, GoneCopied
  <2>2. Holds(c, a) BY <2>1 DEF Holds
  <2>3. InTurn(a) /\ ~Claimed(a) /\ DataAt(a) # Void BY <2>2, HeldWord
  <2>4. DataAt(a)' = DataAt(a) BY <2>3, DataKept
  <2>5. copied'[a] = Void \/ copied'[a] = DataAt(a) BY <1>1, CopiedThen
  <2> QED BY <1>0, <1>1, <2>3, <2>4, <2>5 DEF OutOf
<1>2. CASE copied[a] # Void
  <2>1. copied'[a] = copied[a]
    <3>1. ASSUME NEW c \in Consumers, Holds(c, a), copied'[a] = DataAt(a)
          PROVE  copied'[a] = copied[a]
      BY <3>1, <1>2 DEF RingInv, HeldCopied
    <3> QED BY <3>1, CopiedThen
  <2> QED BY <1>0, <1>2, <2>1 DEF OutOf
<1> QED BY <1>1, <1>2

\* What comes out of a position is what was claimed for it, and it was published.
LEMMA OutNew ==
  ASSUME RingInv, RingKinds, RingPlaces', NEW a \in R!Words, Gone <= Ofs(a), Ofs(a) < Gone'
  PROVE  OutOf(a)' = R!ValueAt(a) /\ Published(a)
<1>1. InTurn(a) /\ Published(a) /\ ~Claimed(a) BY TakenPublished
<1>2. DataAt(a)' = DataAt(a) BY <1>1, DataKept
<1>3. R!ValueAt(a) = DataAt(a)
  <2>1. ValueMeans BY ValueAtIs DEF RingInv
  <2>2. \A p \in Producers : ~(Writing(p) /\ m_pos[p] = a) BY <1>1 DEF RingInv, Writers
  <2> QED BY <2>1, <2>2 DEF ValueMeans
<1>4. copied'[a] = copied[a]
  <2>1. copied' = copied
    <3>1. \E c \in Consumers : CTakes(c) \/ CAdvances(c) \/ BStops(c) BY TakenPublished
    <3> QED BY <3>1 DEF CTakes, CAdvances, BStops
  <2> QED BY <2>1
<1>5. copied[a] # Void => copied[a] = DataAt(a) BY DEF RingInv, FreshCopied
<1>6. OutOf(a)' = IF copied'[a] = Void THEN DataAt(a)' ELSE copied'[a] BY DEF OutOf
<1> QED BY <1>1, <1>2, <1>3, <1>4, <1>5, <1>6

-----------------------------------------------------------------------------
(* The ring: it is a ClaimQueue *)

\* A function over the first numbers is a sequence, and what its operators make of it.
Counted(f, n) == f = [i \in 1 .. n |-> f[i]]

LEMMA CountedSeq ==
  ASSUME NEW n \in Nat, NEW f, Counted(f, n)
  PROVE  /\ f \in Seq({f[i] : i \in 1 .. n}) /\ Len(f) = n /\ DOMAIN f = 1 .. n
<1>1. f \in [1 .. n -> {f[i] : i \in 1 .. n}]
  <2>1. PICK g : g = f OBVIOUS
  <2>2. g = [i \in 1 .. n |-> g[i]] BY <2>1 DEF Counted
  <2> QED BY <2>1, <2>2
<1>2. f \in Seq({f[i] : i \in 1 .. n}) BY <1>1
<1>3. DOMAIN f = 1 .. n BY <1>1
<1> QED BY <1>2, <1>3

LEMMA CountedSame ==
  ASSUME NEW n \in Nat, NEW f, NEW g, Counted(f, n), Counted(g, n),
         \A i \in 1 .. n : g[i] = f[i]
  PROVE  g = f
<1> DEFINE h == [i \in 1 .. n |-> f[i]]
<1>1. [i \in 1 .. n |-> g[i]] = h OBVIOUS
<1> QED BY <1>1 DEF Counted

LEMMA CountedAppend ==
  ASSUME NEW n \in Nat, NEW f, NEW g, NEW e, Counted(f, n),
         Counted(g, n + 1), \A i \in 1 .. n : g[i] = f[i], g[n + 1] = e
  PROVE  g = Append(f, e)
<1> DEFINE S == {f[i] : i \in 1 .. n} \cup {e}
           h == Append(f, e)
<1>1. f \in Seq(S) /\ Len(f) = n /\ e \in S
  <2>1. f \in Seq({f[i] : i \in 1 .. n}) /\ Len(f) = n BY CountedSeq
  <2> QED BY <2>1
<1>2. /\ h \in Seq(S) /\ Len(h) = n + 1
      /\ \A i \in 1 .. n : h[i] = f[i]
      /\ h[n + 1] = e
  BY <1>1, AppendProperties
<1> HIDE DEF S, h
<1>3. Counted(h, n + 1) BY <1>2 DEF Counted
<1>4. ASSUME NEW i \in 1 .. n + 1 PROVE g[i] = h[i]
  <2>1. CASE i = n + 1 BY <1>2, <2>1
  <2>2. CASE i # n + 1
    <3>1. i \in 1 .. n BY <2>2
    <3> QED BY <1>2, <3>1
  <2> QED BY <2>1, <2>2
<1>5. n + 1 \in Nat OBVIOUS
<1>6. g = h BY <1>3, <1>4, <1>5, CountedSame
<1> QED BY <1>6 DEF h

LEMMA CountedSub ==
  ASSUME NEW n \in Nat, NEW k \in 0 .. n, NEW f, NEW g, Counted(f, n),
         Counted(g, n - k), \A i \in 1 .. n - k : g[i] = f[k + i]
  PROVE  g = SubSeq(f, k + 1, Len(f))
<1> DEFINE S == {f[i] : i \in 1 .. n}
           h == SubSeq(f, k + 1, n)
<1>1. f \in Seq(S) /\ Len(f) = n BY CountedSeq
<1> HIDE DEF S
<1>2. h = [i \in 1 .. n - k |-> f[i + k]]
  <2>1. h = [i \in 1 .. n - (k + 1) + 1 |-> f[(k + 1) + i - 1]] BY <1>1
  <2>2. n - (k + 1) + 1 = n - k /\ \A i \in 1 .. n - k : (k + 1) + i - 1 = i + k OBVIOUS
  <2> QED BY <2>1, <2>2
<1> HIDE DEF h
<1>3. Counted(h, n - k) BY <1>2 DEF Counted
<1>4. ASSUME NEW i \in 1 .. n - k PROVE g[i] = h[i]
  <2>1. i + k = k + i OBVIOUS
  <2>2. h[i] = f[i + k] BY <1>2
  <2>3. g[i] = f[k + i] OBVIOUS
  <2> QED BY <2>1, <2>2, <2>3
<1>5. n - k \in Nat OBVIOUS
<1>6. g = h BY <1>3, <1>4, <1>5, CountedSame
<1> QED BY <1>1, <1>6 DEF h

LEMMA CountedConcat ==
  ASSUME NEW m \in Nat, NEW k \in Nat, NEW t, NEW u, NEW v,
         Counted(t, m), Counted(u, m + k), Counted(v, k),
         \A i \in 1 .. m : u[i] = t[i], \A i \in 1 .. k : u[m + i] = v[i]
  PROVE  u = t \o v
<1> DEFINE S == {t[i] : i \in 1 .. m} \cup {v[i] : i \in 1 .. k}
           h == t \o v
<1>1. t \in Seq(S) /\ Len(t) = m /\ v \in Seq(S) /\ Len(v) = k
  <2>1. t \in Seq({t[i] : i \in 1 .. m}) /\ Len(t) = m BY CountedSeq
  <2>2. v \in Seq({v[i] : i \in 1 .. k}) /\ Len(v) = k BY CountedSeq
  <2> QED BY <2>1, <2>2
<1> HIDE DEF S
<1>2. /\ h \in Seq(S) /\ Len(h) = m + k
      /\ \A i \in 1 .. m + k : h[i] = IF i <= m THEN t[i] ELSE v[i - m]
  <2>1. h \in Seq(S) /\ Len(h) = Len(t) + Len(v) BY <1>1, ConcatProperties
  <2>2. \A i \in 1 .. Len(t) + Len(v) : h[i] = IF i <= Len(t) THEN t[i] ELSE v[i - Len(t)]
    BY <1>1, ConcatProperties
  <2> HIDE DEF h
  <2> QED BY <1>1, <2>1, <2>2
<1> HIDE DEF h
<1>3. Counted(h, m + k) BY <1>2 DEF Counted
<1>4. ASSUME NEW i \in 1 .. m + k PROVE u[i] = h[i]
  <2>1. CASE i <= m
    <3>1. i \in 1 .. m BY <2>1
    <3> QED BY <1>2, <2>1, <3>1
  <2>2. CASE ~(i <= m)
    <3>1. i - m \in 1 .. k /\ m + (i - m) = i BY <2>2
    <3>2. u[m + (i - m)] = v[i - m] BY <3>1
    <3> QED BY <1>2, <2>2, <3>1, <3>2
  <2> QED BY <2>1, <2>2
<1>5. m + k \in Nat OBVIOUS
<1>6. u = h BY <1>3, <1>4, <1>5, CountedSame
<1> QED BY <1>6 DEF h

\* What a step needs to say of the two sequences.
QueueStep == RingInv /\ RingInv' /\ RingKinds

LEMMA QueueIs ==
  ASSUME QueueStep
  PROVE  /\ CellsMeant /\ CellsMeant' /\ TakenMeant /\ TakenMeant'
         /\ RingPlaces' /\ Writers'
         /\ Pushed \in Nat /\ Gone \in Nat /\ Cap \in Nat /\ Cap <= Gone /\ Gone <= Pushed
         /\ Pushed' \in Nat /\ Gone' \in Nat /\ Gone <= Gone' /\ Gone' <= Pushed
<1>1. CellsMeant /\ TakenMeant BY CellsAre, TakenAre DEF QueueStep
<1>2. CellsMeant' /\ TakenMeant'
  <2>1. RingInv' => CellsMeant' BY CellsAre, PTL
  <2>2. RingInv' => TakenMeant' BY TakenAre, PTL
  <2> QED BY <2>1, <2>2 DEF QueueStep
<1>3. RingPlaces' /\ Writers' BY DEF QueueStep, RingInv
<1>4. Pushed' \in Nat /\ Gone' \in Nat /\ Gone <= Gone' /\ Gone' <= Pushed
  BY <1>3, Forward DEF QueueStep
<1>5. RingInv BY DEF QueueStep
<1>6. /\ Pushed \in Nat /\ Gone \in Nat /\ Popped \in Nat /\ Cap \in Nat
      /\ Cap <= Popped /\ Popped <= Gone /\ Gone <= Pushed
  BY <1>5, CountersAre, RingSetting DEF RingInv, Counters
<1> QED BY <1>1, <1>2, <1>3, <1>4, <1>6

\* The cells that are there before and after a step.
LEMMA CellsKept ==
  ASSUME QueueStep, NEW i \in 1 .. Pushed - Gone, NEW j \in 1 .. Pushed' - Gone', Gone + i = Gone' + j,
         NEW a \in R!Words, Ofs(a) = Gone + i - 1,
         \A p \in Producers : PPublishes(p) => m_pos[p] # a
  PROVE  R!Cells'[j] = R!Cells[i]
<1>1. R!Cells[i] = CellAt(a) BY QueueIs DEF CellsMeant
<1>2. R!Cells'[j] = CellAt(a)'
  <2>1. Ofs(a) = Gone' + j - 1 BY QueueIs
  <2>2. \A x \in 1 .. Pushed' - Gone', b \in R!Words : Ofs(b) = Gone' + x - 1 => R!Cells'[x] = CellAt(b)'
    BY QueueIs DEF CellsMeant, Ofs, R!Words
  <2> QED BY <2>1, <2>2
<1>3. Gone <= Ofs(a) /\ Ofs(a) < Pushed BY QueueIs
<1>4. CellAt(a)' = CellAt(a) BY <1>3, QueueIs, CellStays DEF QueueStep
<1> QED BY <1>1, <1>2, <1>4

\* Nothing is taken, and what was taken is the same.
LEMMA TakenKept ==
  ASSUME QueueStep
  PROVE  \A i \in 1 .. Gone - Cap : R!Taken'[i] = R!Taken[i]
<1> SUFFICES ASSUME NEW i \in 1 .. Gone - Cap PROVE R!Taken'[i] = R!Taken[i]
  OBVIOUS
<1>1. Cap + i - 1 \in Nat /\ Cap + i - 1 <= Pushed /\ i \in 1 .. Gone' - Cap BY QueueIs
<1>2. PICK a \in R!Words : Ofs(a) = Cap + i - 1 BY <1>1, WordFor DEF QueueStep
<1>3. R!Taken[i] = OutOf(a) BY <1>2, QueueIs DEF TakenMeant
<1>4. R!Taken'[i] = OutOf(a)'
  <2>1. \A x \in 1 .. Gone' - Cap, b \in R!Words : Ofs(b) = Cap + x - 1 => R!Taken'[x] = OutOf(b)'
    BY QueueIs DEF TakenMeant, Ofs, R!Words
  <2> QED BY <1>1, <1>2, <2>1
<1>5. Cap <= Ofs(a) /\ Ofs(a) < Gone BY <1>2, QueueIs
<1>6. OutOf(a)' = OutOf(a) BY <1>5, QueueIs, OutStays DEF QueueStep
<1> QED BY <1>3, <1>4, <1>6

LEMMA TakenSame ==
  ASSUME QueueStep, Gone' = Gone
  PROVE  R!Taken' = R!Taken
<1>1. /\ R!Taken = [i \in 1 .. Gone - Cap |-> R!Taken[i]]
      /\ R!Taken' = [i \in 1 .. Gone - Cap |-> R!Taken'[i]]
      /\ Gone - Cap \in Nat
  BY QueueIs DEF TakenMeant
<1>2. PICK f, g : f = R!Taken /\ g = R!Taken' OBVIOUS
<1>3. \A i \in 1 .. Gone - Cap : g[i] = f[i] BY <1>2, TakenKept
<1>4. Counted(f, Gone - Cap) BY <1>1, <1>2 DEF Counted
<1>5. Counted(g, Gone - Cap) BY <1>1, <1>2 DEF Counted
<1>6. g = f BY <1>1, <1>3, <1>4, <1>5, CountedSame
<1> QED BY <1>2, <1>6

\* A step that neither claims, publishes nor takes is none of the queue's.
LEMMA QueueStutters ==
  ASSUME QueueStep, Pushed' = Pushed, Gone' = Gone, \A p \in Producers : ~PPublishes(p)
  PROVE  R!Cells' = R!Cells /\ R!Taken' = R!Taken
<1>1. /\ R!Cells = [i \in 1 .. Pushed - Gone |-> R!Cells[i]]
      /\ R!Cells' = [i \in 1 .. Pushed - Gone |-> R!Cells'[i]]
      /\ Pushed - Gone \in Nat
  BY QueueIs DEF CellsMeant
<1>2. PICK f, g : f = R!Cells /\ g = R!Cells' OBVIOUS
<1>3. ASSUME NEW i \in 1 .. Pushed - Gone PROVE g[i] = f[i]
  <2>1. Gone + i - 1 \in Nat /\ Gone + i - 1 <= Pushed BY QueueIs
  <2>2. PICK a \in R!Words : Ofs(a) = Gone + i - 1 BY <2>1, WordFor DEF QueueStep
  <2>3. R!Cells'[i] = R!Cells[i] BY <2>2, CellsKept
  <2> QED BY <1>2, <2>3
<1>4. Counted(f, Pushed - Gone) BY <1>1, <1>2 DEF Counted
<1>5. Counted(g, Pushed - Gone) BY <1>1, <1>2 DEF Counted
<1>6. g = f BY <1>1, <1>3, <1>4, <1>5, CountedSame
<1> QED BY <1>2, <1>6, TakenSame

\* A push that claims a position appends a cell that cannot be taken yet.
LEMMA ClaimStep ==
  ASSUME QueueStep, NEW p \in Producers, PClaims(p)
  PROVE  \E v \in Producers \X (1 .. MaxPush) : R!Q!Claim(v)
<1>a. RingInv /\ RingKinds /\ RingPlaces' /\ R!TypeOK /\ RingPlaces /\ Counters /\ Cycle /\ Writers
  BY QueueIs DEF QueueStep, RingInv
<1>b. m_pc[p] = "cas" /\ m_pc'[p] = "write" /\ m_pos[p] = enq /\ m_pos'[p] = enq /\ m_sent' = m_sent
  BY DEF PClaims, Goes, Stays
<1>c. Pushed' = Pushed + 1 /\ Gone' = Gone BY <1>a, ProducerMoves DEF PKinds
<1>d. enq \in R!Words /\ Ofs(enq) = Pushed BY <1>a, NearWords DEF Pushed
<1> DEFINE n == Pushed - Gone
           v == <<p, m_sent[p] + 1>>
           e == [val |-> v, ready |-> FALSE]
<1>1. v \in Producers \X (1 .. MaxPush)
  <2>1. m_sent[p] < MaxPush BY <1>a, <1>b DEF RingPlaces
  <2>2. m_sent[p] \in 0 .. MaxPush /\ MaxPush \in Nat BY <1>a, RingSetting DEF R!TypeOK
  <2>3. m_sent[p] + 1 \in 1 .. MaxPush BY <2>1, <2>2
  <2> QED BY <2>3
<1>2. n \in Nat /\ n < Cap
  <2>1. R!SeqAt(enq) = enq BY <1>a, <1>b DEF RingInv, Pushers
  <2>2. Pushed < Gone + Cap BY <1>a, <2>1, ClaimRoom
  <2> QED BY <2>2, QueueIs
<1>3. /\ R!Cells = [i \in 1 .. n |-> R!Cells[i]]
      /\ R!Cells' = [i \in 1 .. n + 1 |-> R!Cells'[i]]
  <2>1. Pushed' - Gone' = n + 1 BY <1>c, QueueIs
  <2> QED BY <2>1, QueueIs DEF CellsMeant
<1>4. \A i \in 1 .. n : R!Cells'[i] = R!Cells[i]
  <2> SUFFICES ASSUME NEW i \in 1 .. n PROVE R!Cells'[i] = R!Cells[i]
    OBVIOUS
  <2>1. Gone + i - 1 \in Nat /\ Gone + i - 1 <= Pushed /\ i \in 1 .. Pushed' - Gone'
    BY <1>c, QueueIs
  <2>2. PICK a \in R!Words : Ofs(a) = Gone + i - 1 BY <2>1, <1>a, WordFor
  <2>3. \A q \in Producers : ~PPublishes(q) BY DEF PClaims, PPublishes, ByProducer, Goes
  <2> QED BY <1>c, <2>1, <2>2, <2>3, CellsKept
<1>5. R!Cells'[n + 1] = e
  <2>1. PICK a \in R!Words : a = enq BY <1>d
  <2>2. R!Cells'[n + 1] = CellAt(a)'
    <3>1. \A x \in 1 .. Pushed' - Gone', b \in R!Words : Ofs(b) = Gone' + x - 1 => R!Cells'[x] = CellAt(b)'
      BY QueueIs DEF CellsMeant, Ofs, R!Words
    <3>2. n + 1 \in 1 .. Pushed' - Gone' /\ Ofs(a) = Gone' + (n + 1) - 1
      BY <1>c, <1>d, <2>1, QueueIs
    <3> QED BY <3>1, <3>2
  <2>3. R!ValueAt(a)' = v
    <3>1. \A q \in Producers : Writing(q)' /\ m_pos'[q] = a => R!ValueAt(a)' = <<q, m_sent'[q] + 1>>
      <4>1. Writers' => ValueMeans' BY ValueAtIs, PTL
      <4> QED BY <4>1, QueueIs DEF ValueMeans, R!Words
    <3>2. Writing(p)' /\ m_pos'[p] = a BY <1>b, <2>1 DEF Writing
    <3> QED BY <1>b, <3>1, <3>2
  <2>4. Published(a)' = FALSE
    <3>1. SlotClaims(p) BY <1>a, ClaimSlot
    <3>2. SeqSame /\ R!SeqAt(enq) = enq BY <3>1 DEF SlotClaims
    <3>3. R!SeqAt(a)' = a BY <2>1, <3>2 DEF SeqSame
    <3>4. Ofs(a) <= Pushed BY <1>d, <2>1, QueueIs
    <3>5. a # R!Plus(a, 1) BY <1>a, <3>4, TurnWords
    <3> QED BY <3>3, <3>5 DEF Published, R!Plus
  <2> QED BY <2>2, <2>3, <2>4 DEF CellAt
<1>6. R!Cells' = Append(R!Cells, e)
  <2>1. PICK f, g : f = R!Cells /\ g = R!Cells' OBVIOUS
  <2>2. Counted(f, n) BY <1>3, <2>1 DEF Counted
  <2>3. Counted(g, n + 1) BY <1>3, <2>1 DEF Counted
  <2>4. \A i \in 1 .. n : g[i] = f[i] BY <1>4, <2>1
  <2>5. g[n + 1] = e BY <1>5, <2>1
  <2>6. n \in Nat BY <1>2
  <2> HIDE DEF e, n
  <2>7. g = Append(f, e) BY ONLY <2>2, <2>3, <2>4, <2>5, <2>6, CountedAppend
  <2> QED BY <2>1, <2>7
<1>7. Len(R!Cells) = n
  <2>1. PICK f : f = R!Cells OBVIOUS
  <2>2. Counted(f, n) BY <1>3, <2>1 DEF Counted
  <2>3. Len(f) = n BY <1>2, <2>2, CountedSeq
  <2> QED BY <2>1, <2>3
<1>8. R!Taken' = R!Taken BY <1>c, TakenSame
<1>9. R!Q!Claim(v) BY <1>2, <1>6, <1>7, <1>8 DEF R!Q!Claim
<1> QED BY <1>1, <1>9

LEMMA MadeReady ==
  ASSUME NEW w, NEW r, r = [val |-> w, ready |-> FALSE]
  PROVE  [r EXCEPT !.ready = TRUE] = [val |-> w, ready |-> TRUE]
<1> DEFINE s == [r EXCEPT !.ready = TRUE]
<1>1. r \in [val : {w}, ready : BOOLEAN] OBVIOUS
<1>2. s \in [val : {w}, ready : BOOLEAN] BY <1>1
<1>3. s.val = w /\ s.ready = TRUE BY <1>1
<1> HIDE DEF s
<1>4. s = [val |-> s.val, ready |-> s.ready] BY <1>2
<1> QED BY <1>3, <1>4 DEF s

\* A push that publishes makes its cell one that can be taken.
LEMMA PublishStep ==
  ASSUME QueueStep, NEW p \in Producers, PPublishes(p)
  PROVE  \E i \in DOMAIN R!Cells : R!Q!Publish(i)
<1>a. RingInv /\ RingKinds /\ RingPlaces' /\ R!TypeOK /\ RingPlaces /\ Counters /\ Cycle /\ Writers
  BY QueueIs DEF QueueStep, RingInv
<1>b. m_pc[p] = "publish" /\ ~PClaims(p) BY DEF PPublishes, PClaims, Goes
<1>c. Pushed' = Pushed /\ Gone' = Gone BY <1>a, <1>b, ProducerMoves DEF PKinds
<1>d. PICK a \in R!Words : SlotPublishes(p, a) BY <1>a, PublishSlot
<1>e. /\ a = m_pos[p] /\ Claimed(a) /\ InTurn(a) /\ R!SeqAt(a)' = R!Plus(a, 1)
  BY <1>d DEF SlotPublishes, SeqBut
<1>f. Ofs(a) \in Nat /\ Gone <= Ofs(a) /\ Ofs(a) < Pushed
  <2>1. Ofs(a) \in Nat /\ Ofs(a) < Pushed BY <1>a, <1>e, InTurnWord
  <2>2. ~(Ofs(a) < Gone) BY <1>a, <1>e DEF Cycle
  <2> QED BY <2>1, <2>2, QueueIs
<1>g. ASSUME NEW q \in Producers, PPublishes(q) PROVE q = p
  <2>1. ASSUME q # p PROVE FALSE BY <1>g, <2>1 DEF PPublishes, ByProducer, Goes
  <2> QED BY <2>1
<1> DEFINE n == Pushed - Gone
           m == Ofs(a) - Gone + 1
<1>1. n \in Nat /\ m \in 1 .. n /\ Ofs(a) = Gone + m - 1 BY <1>f, QueueIs
<1>2. /\ R!Cells = [i \in 1 .. n |-> R!Cells[i]]
      /\ R!Cells' = [i \in 1 .. n |-> R!Cells'[i]]
  BY <1>c, QueueIs DEF CellsMeant
<1>3. \A i \in 1 .. n : i # m => R!Cells'[i] = R!Cells[i]
  <2> SUFFICES ASSUME NEW i \in 1 .. n, i # m PROVE R!Cells'[i] = R!Cells[i]
    OBVIOUS
  <2>1. Gone + i - 1 \in Nat /\ Gone + i - 1 <= Pushed /\ i \in 1 .. Pushed' - Gone'
    BY <1>c, QueueIs
  <2>2. PICK b \in R!Words : Ofs(b) = Gone + i - 1 BY <2>1, <1>a, WordFor
  <2>3. b # a BY <1>1, <2>1, <2>2, QueueIs
  <2>4. \A q \in Producers : PPublishes(q) => m_pos[q] # b BY <1>e, <1>g, <2>3
  <2> QED BY <1>c, <2>1, <2>2, <2>4, CellsKept
<1>4. R!Cells[m] = CellAt(a) BY <1>1, QueueIs DEF CellsMeant
<1>5. R!Cells'[m] = CellAt(a)'
  <2>1. \A x \in 1 .. Pushed' - Gone', b \in R!Words : Ofs(b) = Gone' + x - 1 => R!Cells'[x] = CellAt(b)'
    BY QueueIs DEF CellsMeant, Ofs, R!Words
  <2> QED BY <1>1, <1>c, <2>1
<1>6. R!ValueAt(a)' = R!ValueAt(a)
  <2>1. a # enq BY <1>a, <1>f, QueuedInTurn
  <2> QED BY <1>a, <1>e, <2>1, QueueIs, ValueStays
<1>7. Published(a)' = TRUE /\ Published(a) = FALSE
  <2>1. Published(a)' BY <1>e DEF Published, R!Plus
  <2>2. ~Published(a) BY <1>a, <1>e, InTurnWord DEF Claimed, Published
  <2> QED BY <2>1, <2>2 DEF Published
<1>8. R!Cells[m] = [val |-> R!ValueAt(a), ready |-> FALSE] BY <1>4, <1>7 DEF CellAt
<1>9. R!Cells'[m] = [val |-> R!ValueAt(a), ready |-> TRUE] BY <1>5, <1>6, <1>7 DEF CellAt
<1>10. R!Cells' = [R!Cells EXCEPT ![m].ready = TRUE]
  <2>1. PICK f, g, w : f = R!Cells /\ g = R!Cells' /\ w = R!ValueAt(a) OBVIOUS
  <2>2. /\ f = [i \in 1 .. n |-> f[i]] /\ g = [i \in 1 .. n |-> g[i]]
        /\ f[m] = [val |-> w, ready |-> FALSE] /\ g[m] = [val |-> w, ready |-> TRUE]
        /\ \A i \in 1 .. n : i # m => g[i] = f[i]
    BY <1>2, <1>3, <1>8, <1>9, <2>1
  <2> DEFINE h == [f EXCEPT ![m].ready = TRUE]
  <2> HIDE DEF n, m
  <2>3. Counted(h, n) BY <2>2 DEF Counted
  <2>6. Counted(g, n) /\ Counted(f, n) BY <2>2 DEF Counted
  <2>4. ASSUME NEW i \in 1 .. n PROVE g[i] = h[i]
    <3>1. CASE i = m
      <4>1. h[m] = [f[m] EXCEPT !.ready = TRUE] BY <1>1, <2>2
      <4>2. h[m] = [val |-> w, ready |-> TRUE] BY <4>1, <2>2, MadeReady
      <4> QED BY <3>1, <4>2, <2>2
    <3>2. CASE i # m
      <4>1. h[i] = f[i] BY <3>2, <2>2
      <4> QED BY <3>2, <4>1, <2>2
    <3> QED BY <3>1, <3>2
  <2> HIDE DEF h
  <2>5. g = h BY <1>1, <2>3, <2>4, <2>6, CountedSame
  <2> QED BY <2>1, <2>5 DEF h
<1>11. R!Taken' = R!Taken BY <1>c, TakenSame
<1>12. m \in DOMAIN R!Cells
  <2>1. PICK f : f = R!Cells OBVIOUS
  <2>2. Counted(f, n) BY <1>2, <2>1 DEF Counted
  <2>3. DOMAIN f = 1 .. n BY <1>1, <2>2, CountedSeq
  <2> QED BY <1>1, <2>1, <2>3
<1>13. ~R!Cells[m].ready BY <1>8
<1>14. R!Q!Publish(m) BY <1>10, <1>11, <1>13 DEF R!Q!Publish
<1> QED BY <1>12, <1>14

\* What a consumer takes are the oldest cells, all published, as many as it says.
LEMMA TakeStep ==
  ASSUME QueueStep, Pushed' = Pushed, \A p \in Producers : ~PPublishes(p),
         NEW w \in 1 .. Cap, NEW l \in 1 .. w, Gone' = Gone + l,
         l < w => \A a \in R!Words : Ofs(a) = Gone' => ~Published(a)
  PROVE  R!Q!Take(l, w)
<1>a. RingInv /\ RingKinds /\ RingPlaces' BY QueueIs DEF QueueStep
<1> DEFINE n == Pushed - Gone
<1>1. n \in Nat /\ l \in 0 .. n /\ l \in 1 .. n /\ n - l = Pushed' - Gone' BY QueueIs
<1>2. /\ R!Cells = [i \in 1 .. n |-> R!Cells[i]]
      /\ R!Cells' = [i \in 1 .. n - l |-> R!Cells'[i]]
  BY <1>1, QueueIs DEF CellsMeant
<1>3. Len(R!Cells) = n
  <2>1. PICK f : f = R!Cells OBVIOUS
  <2>2. Counted(f, n) BY <1>2, <2>1 DEF Counted
  <2>3. Len(f) = n BY <1>1, <2>2, CountedSeq
  <2> QED BY <2>1, <2>3
<1>4. ASSUME NEW i \in 1 .. l
      PROVE  R!Cells[i].ready /\ R!Taken'[Gone - Cap + i] = R!Cells[i].val
  <2>1. Gone + i - 1 \in Nat /\ Gone + i - 1 <= Pushed /\ i \in 1 .. Pushed - Gone BY <1>1, QueueIs
  <2>2. PICK a \in R!Words : Ofs(a) = Gone + i - 1 BY <2>1, <1>a, WordFor
  <2>3. R!Cells[i] = CellAt(a) BY <2>1, <2>2, QueueIs DEF CellsMeant
  <2>4. Gone <= Ofs(a) /\ Ofs(a) < Gone' BY <2>2, QueueIs
  <2>5. OutOf(a)' = R!ValueAt(a) /\ Published(a) BY <1>a, <2>4, OutNew
  <2>6. R!Taken'[Gone - Cap + i] = OutOf(a)'
    <3>1. \A x \in 1 .. Gone' - Cap, b \in R!Words : Ofs(b) = Cap + x - 1 => R!Taken'[x] = OutOf(b)'
      BY QueueIs DEF TakenMeant, Ofs, R!Words
    <3>2. Gone - Cap + i \in 1 .. Gone' - Cap /\ Ofs(a) = Cap + (Gone - Cap + i) - 1
      BY <2>2, QueueIs
    <3> QED BY <3>1, <3>2
  <2> QED BY <2>3, <2>5, <2>6 DEF CellAt
<1>5. ASSUME l < w, l < n PROVE ~R!Cells[l + 1].ready
  <2>1. Gone + (l + 1) - 1 \in Nat /\ Gone + (l + 1) - 1 <= Pushed /\ l + 1 \in 1 .. Pushed - Gone
    BY <1>1, <1>5, QueueIs
  <2>2. PICK a \in R!Words : Ofs(a) = Gone + (l + 1) - 1 BY <2>1, <1>a, WordFor
  <2>3. R!Cells[l + 1] = CellAt(a) BY <2>1, <2>2, QueueIs DEF CellsMeant
  <2>4. Ofs(a) = Gone' BY <2>2, QueueIs
  <2>5. ~Published(a) BY <1>5, <2>4
  <2> QED BY <2>3, <2>5 DEF CellAt
<1>6. R!Cells' = SubSeq(R!Cells, l + 1, Len(R!Cells))
  <2>1. ASSUME NEW i \in 1 .. n - l PROVE R!Cells'[i] = R!Cells[l + i]
    <3>1. /\ l + i \in 1 .. Pushed - Gone /\ i \in 1 .. Pushed' - Gone'
          /\ Gone + (l + i) = Gone' + i
          /\ Gone + (l + i) - 1 \in Nat /\ Gone + (l + i) - 1 <= Pushed
      BY <1>1, QueueIs
    <3>2. PICK a \in R!Words : Ofs(a) = Gone + (l + i) - 1 BY <3>1, <1>a, WordFor
    <3> QED BY <3>1, <3>2, CellsKept
  <2>2. PICK f, g : f = R!Cells /\ g = R!Cells' OBVIOUS
  <2>3. Counted(f, n) BY <1>2, <2>2 DEF Counted
  <2>5. Counted(g, n - l) BY <1>2, <2>2 DEF Counted
  <2>6. \A i \in 1 .. n - l : g[i] = f[l + i] BY <2>1, <2>2
  <2>7. n \in Nat /\ l \in 0 .. n BY <1>1
  <2> HIDE DEF n
  <2>4. g = SubSeq(f, l + 1, Len(f)) BY ONLY <2>3, <2>5, <2>6, <2>7, CountedSub
  <2> QED BY <2>2, <2>4
<1>7. R!Taken' = R!Taken \o [i \in 1 .. l |-> R!Cells[i].val]
  <2> DEFINE m == Gone - Cap
  <2>1. m \in Nat /\ l \in Nat /\ Gone' - Cap = m + l BY QueueIs
  <2>2. /\ R!Taken = [i \in 1 .. m |-> R!Taken[i]]
        /\ R!Taken' = [i \in 1 .. m + l |-> R!Taken'[i]]
    BY <2>1, QueueIs DEF TakenMeant
  <2>3. PICK f, g, v : f = R!Taken /\ g = R!Taken' /\ v = [i \in 1 .. l |-> R!Cells[i].val] OBVIOUS
  <2>4. \A i \in 1 .. m : g[i] = f[i] BY <2>3, TakenKept
  <2>5. \A i \in 1 .. l : g[m + i] = v[i] BY <2>3, <1>4
  <2>6. Counted(f, m) /\ Counted(g, m + l) BY <2>2, <2>3 DEF Counted
  <2>7. Counted(v, l) BY <2>3 DEF Counted
  <2> HIDE DEF m
  <2>9. m \in Nat /\ l \in Nat BY <2>1
  <2>8. g = f \o v BY ONLY <2>9, <2>4, <2>5, <2>6, <2>7, CountedConcat
  <2> QED BY <2>3, <2>8
<1>8. l <= w /\ l <= Len(R!Cells) BY <1>1, <1>3
<1>9. \A i \in 1 .. l : R!Cells[i].ready BY <1>4
<1>10. l < w /\ l < Len(R!Cells) => ~R!Cells[l + 1].ready BY <1>3, <1>5
<1> QED BY <1>6, <1>7, <1>8, <1>9, <1>10 DEF R!Q!Take

\* A step of the ring is one of the queue, or the queue does not see it.
QueueMoves == R!Q!Next \/ (R!Cells' = R!Cells /\ R!Taken' = R!Taken)

LEMMA ProducerQueue ==
  ASSUME QueueStep, NEW p \in Producers, PKinds(p)
  PROVE  QueueMoves
<1>1. CASE PClaims(p)
  <2>1. PICK v \in Producers \X (1 .. MaxPush) : R!Q!Claim(v) BY <1>1, ClaimStep
  <2> QED BY <2>1 DEF QueueMoves, R!Q!Next
<1>2. CASE PPublishes(p)
  <2>1. PICK i \in DOMAIN R!Cells : R!Q!Publish(i) BY <1>2, PublishStep
  <2> QED BY <2>1 DEF QueueMoves, R!Q!Next
<1>3. CASE PLooks(p) \/ PWrites(p)
  <2>1. m_pc[p] # "publish" /\ ~PClaims(p)
    BY <1>3 DEF PLooks, PWrites, PClaims, Goes, Writing
  <2>2. ASSUME NEW q \in Producers, PPublishes(q) PROVE FALSE
    <3>1. q # p BY <2>1, <2>2 DEF PPublishes, Goes
    <3>2. m_pc'[q] = m_pc[q] BY <1>3, <3>1 DEF PLooks, PWrites, ByProducer
    <3> QED BY <2>2, <3>2 DEF PPublishes, Goes
  <2>3. Pushed' = Pushed /\ Gone' = Gone
    BY <2>1, QueueIs, ProducerMoves DEF QueueStep
  <2> QED BY <2>2, <2>3, QueueStutters DEF QueueMoves
<1> QED BY <1>1, <1>2, <1>3 DEF PKinds

\* Taking the oldest cells, as many as are asked for or as are published.
LEMMA QueueTakes ==
  ASSUME QueueStep, Pushed' = Pushed, \A p \in Producers : ~PPublishes(p),
         NEW w \in 1 .. Cap, NEW l \in 1 .. w, Gone' = Gone + l,
         l < w => \A a \in R!Words : Ofs(a) = Gone' => ~Published(a)
  PROVE  QueueMoves
<1>1. R!Q!Take(l, w) BY TakeStep
<1> QED BY <1>1 DEF QueueMoves, R!Q!Next

LEMMA ConsumerQueue ==
  ASSUME QueueStep, NEW c \in Consumers, CKinds(c)
  PROVE  QueueMoves
<1>a. RingInv /\ RingPlaces' BY QueueIs DEF QueueStep
<1>b. R!TypeOK /\ RingPlaces /\ Counters /\ Poppers /\ Holders BY <1>a DEF RingInv
<1>c. ProducersSame
  BY DEF CKinds, CLooks, CTakes, CCopies, CAdvances, CFrees, BStarts, BReads, BStops, BCopies,
         BFrees, BEnds, ByConsumer
<1>d. \A p \in Producers : ~PPublishes(p) BY <1>c DEF ProducersSame, PPublishes, Goes
<1>e. Pushed' = Pushed BY <1>a, ConsumerMoves
<1>1. CASE CTakes(c) \/ CAdvances(c)
  <2>1. Gone' = Gone + 1 BY <1>1, <1>a, ConsumerMoves
  <2>2. 1 \in 1 .. Cap /\ 1 \in 1 .. 1 /\ ~(1 < 1) BY RingSetting
  <2> QED BY <1>d, <1>e, <2>1, <2>2, QueueTakes
<1>2. CASE BStops(c)
  <2>1. Gone = Popped /\ Gone' = Popped + m_k[c] BY <1>2, <1>a, ConsumerMoves
  <2>2. PICK l, w : l = m_k[c] /\ w = m_want[c] OBVIOUS
  <2>3. m_pc[c] = "bseq" BY <1>2 DEF BStops, Goes
  <2>4. l \in Nat /\ w \in Nat /\ w >= 1 /\ l <= w /\ w <= Cap
    <3>1. l \in Nat /\ w \in Nat BY <1>b, <2>2, CountersAre
    <3>2. w >= 1 /\ l <= w BY <1>b, <2>2, <2>3 DEF RingPlaces, Batching
    <3>3. w \in 0 .. MaxBatch BY <1>b, <2>2 DEF R!TypeOK
    <3> QED BY <3>1, <3>2, <3>3, RingSetting
  <2>5. Gone' = Gone + l BY <2>1, <2>2
  <2>6. CASE l = 0
    <3>1. Gone' = Gone BY <2>5, <2>6, QueueIs
    <3> QED BY <1>d, <1>e, <3>1, QueueStutters DEF QueueMoves
  <2>7. CASE l # 0
    <3>1. w \in 1 .. Cap /\ l \in 1 .. w BY <2>4, <2>7, RingSetting
    <3>2. ASSUME l < w, NEW a \in R!Words, Ofs(a) = Gone' PROVE ~Published(a)
      <4>1. m_pos[c] = deq BY <1>b, <2>3, HeldFirst DEF Batching
      <4>2. l \in 0 .. Cap BY <2>4, RingSetting
      <4>3. R!Plus(deq, l) \in R!Words /\ Ofs(R!Plus(deq, l)) = Popped + l BY <1>b, <4>2, NearWords
      <4>4. a = R!Plus(deq, l) BY <2>1, <2>2, <3>2, <4>3, OfsApart
      <4>5. ~(l >= w) BY <2>4, <3>2
      <4> QED BY <1>2, <2>2, <4>1, <4>4, <4>5 DEF BStops
    <3> QED BY <1>d, <1>e, <2>5, <3>1, <3>2, QueueTakes
  <2> QED BY <2>6, <2>7
<1>3. CASE ~(CTakes(c) \/ CAdvances(c) \/ BStops(c))
  <2>1. Gone' = Gone BY <1>3, <1>a, ConsumerMoves
  <2> QED BY <1>d, <1>e, <2>1, QueueStutters DEF QueueMoves
<1> QED BY <1>1, <1>2, <1>3

LEMMA QueueSees == RingInv /\ RingInv' /\ [R!Next]_(R!vars) => QueueMoves
<1> SUFFICES ASSUME RingInv, RingInv', [R!Next]_(R!vars) PROVE QueueMoves
  OBVIOUS
<1>1. CASE R!Next
  <2>1. QueueStep BY <1>1, RingSteps DEF QueueStep
  <2>2. ASSUME NEW o \in Observers, OLooks(o) PROVE QueueMoves
    <3>1. Pushed' = Pushed /\ Gone' = Gone BY <2>1, <2>2, QueueIs, ObserverMoves DEF QueueStep
    <3>2. \A p \in Producers : ~PPublishes(p) BY <2>2 DEF OLooks, ProducersSame, PPublishes, Goes
    <3> QED BY <2>1, <3>1, <3>2, QueueStutters DEF QueueMoves
  <2> QED BY <2>1, <2>2, ProducerQueue, ConsumerQueue DEF QueueStep, RingKinds
<1>2. CASE UNCHANGED R!vars
  <2>1. UNCHANGED <<enq, deq, sequence, m_data, m_pc, m_pos, m_want, m_k, freed, m_sent, copied>>
    BY <1>2 DEF R!vars
  <2>2. R!Front' = R!Front BY <2>1 DEF R!Front, R!Plus
  <2>3. R!Length' = R!Length BY <2>1, <2>2 DEF R!Length, R!Diff
  <2>4. R!Cells' = R!Cells
    BY <2>1, <2>2, <2>3 DEF R!Cells, R!ValueAt, R!Value, R!SeqAt, R!Slot, R!Plus
  <2>5. R!Taken' = R!Taken BY <2>1, <2>2 DEF R!Taken, R!Diff, R!Slot, R!Plus
  <2> QED BY <2>4, <2>5 DEF QueueMoves
<1> QED BY <1>1, <1>2

LEMMA QueueStarts == R!Init => R!Q!Init
<1> SUFFICES ASSUME R!Init PROVE R!Cells = <<>> /\ R!Taken = <<>>
  BY DEF R!Q!Init
<1>1. RingInv BY RingStarts
<1>2. CellsMeant /\ TakenMeant BY <1>1, CellsAre, TakenAre
<1>3. Pushed = Cap /\ Gone = Cap /\ Cap \in Nat
  <2>1. Ofs(Start) = Cap /\ Cap \in Nat BY StartIs, RingSetting
  <2>2. Pushed = Cap BY <2>1 DEF R!Init, Pushed
  <2>3. Gone \in Nat /\ Popped \in Nat /\ Cap <= Popped /\ Popped <= Gone /\ Gone <= Pushed
    BY <1>1, CountersAre DEF RingInv, Counters
  <2> QED BY <2>1, <2>2, <2>3
<1>4. Pushed - Gone = 0 /\ Gone - Cap = 0 BY <1>3
<1>5. ASSUME NEW f, Counted(f, 0) PROVE f = <<>>
  <2>1. Len(f) = 0 /\ f \in Seq({f[i] : i \in 1 .. 0}) BY <1>5, CountedSeq
  <2> QED BY <2>1, EmptySeq
<1>6. R!Cells = <<>>
  <2>1. PICK f : f = R!Cells OBVIOUS
  <2>2. Counted(f, 0) BY <1>2, <1>4, <2>1 DEF CellsMeant, Counted
  <2> QED BY <1>5, <2>1, <2>2
<1>7. R!Taken = <<>>
  <2>1. PICK f : f = R!Taken OBVIOUS
  <2>2. Counted(f, 0) BY <1>2, <1>4, <2>1 DEF TakenMeant, Counted
  <2> QED BY <1>5, <2>1, <2>2
<1> QED BY <1>6, <1>7

\* mpq: the ring is a bounded queue whose cells are claimed in one step and published in a
\* later one.  What is taken out is what was claimed, in the order of the claims, nothing
\* lost, twice or before it is published (mpq.h:11-13).
THEOREM ImplementsClaimQueueCorrect == R!Spec => ImplementsClaimQueue
<1>1. RingInv /\ [R!Next]_(R!vars) => [R!Q!Next]_<<R!Cells, R!Taken>>
  BY QueueSees, RingInvStep DEF QueueMoves
<1> QED
  BY <1>1, RingAlways, QueueStarts, PTL DEF R!Spec, ImplementsClaimQueue, R!ImplementsClaimQueue,
      R!Q!Spec
================================================================================
