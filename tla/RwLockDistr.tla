----------------------------- MODULE RwLockDistr -----------------------------
(***************************************************************************)
(* The distributed reader-writer lock of lib/thread/rwlock_distr.c, which  *)
(* guards the task table: a registered reader only raises a flag in a slot *)
(* of its own and looks at write_flag; a writer raises write_flag and then *)
(* waits for every slot.  Threads without a slot, and writers among each   *)
(* other, use an ordinary reader-writer lock, the fallback.                *)
(***************************************************************************)
EXTENDS Integers, FiniteSets

CONSTANTS
  Threads,
  NSlots,     \* slots in the pool
  MaxDepth,   \* bound: nested read locks of one thread
  MaxWrite,   \* bound: write locks in a run
  None

ASSUME RwLockAssumption ==
  /\ NSlots \in Nat \ {0} /\ MaxDepth \in Nat \ {0} /\ MaxWrite \in Nat
  /\ None \notin Threads /\ None \notin 0 .. NSlots - 1

VARIABLES
  write_flag,      \* a writer is in, or waits for the readers to leave
  active, in_use,  \* slot -> its reader holds the lock; it is given to a thread
  slot, depth,     \* thread -> its slot or None, and its nested read locks
  readers, writer, \* the fallback lock: readers, and writer or None
  at,              \* thread -> the slot a writer waits for
  pc,              \* thread -> where it is
  writes           \* write locks taken so far

vars == <<write_flag, active, in_use, slot, depth, readers, writer, at, pc, writes>>
pool == <<in_use, slot>>
fallback == <<readers, writer>>

Slots == 0 .. NSlots - 1
Goto(th, l) == pc' = [pc EXCEPT ![th] = l]

Init ==
  /\ write_flag = 0
  /\ active = [s \in Slots |-> 0] /\ in_use = [s \in Slots |-> 0]
  /\ slot = [th \in Threads |-> None] /\ depth = [th \in Threads |-> 0]
  /\ readers = {} /\ writer = None
  /\ at = [th \in Threads |-> 0]
  /\ pc = [th \in Threads |-> "idle"]
  /\ writes = 0

-----------------------------------------------------------------------------
(* rwlock_distr_register, rwlock_distr_unregister *)

\* A thread that finds no slot stays without one.
Register(th) ==
  /\ pc[th] = "idle" /\ slot[th] = None
  /\ \E s \in Slots :
       /\ in_use[s] = 0
       /\ in_use' = [in_use EXCEPT ![s] = 1]
       /\ slot' = [slot EXCEPT ![th] = s]
  /\ UNCHANGED <<write_flag, active, depth, fallback, at, pc, writes>>

\* A thread that holds nothing gives its slot back.  Its depth and active are 0
\* already, so that of the two stores (rwlock_distr.c:86-87) the first changes nothing
\* and the second, of in_use, is the step.
Unregister(th) ==
  /\ pc[th] = "idle" /\ slot[th] # None
  /\ in_use' = [in_use EXCEPT ![slot[th]] = 0]
  /\ active' = [active EXCEPT ![slot[th]] = 0]
  /\ slot' = [slot EXCEPT ![th] = None]
  /\ depth' = [depth EXCEPT ![th] = 0]
  /\ UNCHANGED <<write_flag, fallback, at, pc, writes>>

-----------------------------------------------------------------------------
(* rwlock_distr_rdlock, rwlock_distr_runlock *)

ReadLock(th) ==
  /\ pc[th] = "idle" /\ slot[th] # None
  /\ depth' = [depth EXCEPT ![th] = 1]
  /\ Goto(th, "raise")
  /\ UNCHANGED <<write_flag, active, pool, fallback, at, writes>>

\* Mutant: a nested read lock goes through the handshake again.
ReadNested_again(th) ==
  /\ pc[th] = "reading" /\ depth[th] < MaxDepth
  /\ depth' = [depth EXCEPT ![th] = @ + 1]
  /\ Goto(th, "raise")
  /\ UNCHANGED <<write_flag, active, pool, fallback, at, writes>>

\* A nested read lock only counts.
ReadNested(th) ==
  /\ pc[th] = "reading" /\ depth[th] < MaxDepth
  /\ depth' = [depth EXCEPT ![th] = @ + 1]
  /\ UNCHANGED <<write_flag, active, pool, fallback, at, pc, writes>>

Raise(th) ==
  /\ pc[th] = "raise"
  /\ active' = [active EXCEPT ![slot[th]] = 1]
  /\ Goto(th, "check")
  /\ UNCHANGED <<write_flag, pool, depth, fallback, at, writes>>

Check(th) ==
  /\ pc[th] = "check"
  /\ Goto(th, IF write_flag = 0 THEN "reading" ELSE "yield")
  /\ UNCHANGED <<write_flag, active, pool, depth, fallback, at, writes>>

\* A writer is there: the reader takes its flag back and waits.
Yield(th) ==
  /\ pc[th] = "yield"
  /\ active' = [active EXCEPT ![slot[th]] = 0]
  /\ Goto(th, "spin")
  /\ UNCHANGED <<write_flag, pool, depth, fallback, at, writes>>

Spin(th) ==
  /\ pc[th] = "spin" /\ write_flag = 0
  /\ Goto(th, "raise")
  /\ UNCHANGED <<write_flag, active, pool, depth, fallback, at, writes>>

\* Only the outermost unlock clears the slot.
ReadUnlock(th) ==
  /\ pc[th] = "reading"
  /\ depth' = [depth EXCEPT ![th] = @ - 1]
  /\ active' = IF depth[th] = 1 THEN [active EXCEPT ![slot[th]] = 0] ELSE active
  /\ Goto(th, IF depth[th] = 1 THEN "idle" ELSE "reading")
  /\ UNCHANGED <<write_flag, pool, fallback, at, writes>>

ReadFallback(th) ==
  /\ pc[th] = "idle" /\ slot[th] = None /\ writer = None
  /\ readers' = readers \cup {th}
  /\ Goto(th, "fallback")
  /\ UNCHANGED <<write_flag, active, pool, depth, writer, at, writes>>

ReadFallbackEnd(th) ==
  /\ pc[th] = "fallback"
  /\ readers' = readers \ {th}
  /\ Goto(th, "idle")
  /\ UNCHANGED <<write_flag, active, pool, depth, writer, at, writes>>

-----------------------------------------------------------------------------
(* rwlock_distr_wrlock, rwlock_distr_wrunlock *)

WriteLock(th) ==
  /\ pc[th] = "idle" /\ writes < MaxWrite
  /\ writer = None /\ readers = {}
  /\ writer' = th
  /\ writes' = writes + 1
  /\ Goto(th, "flag")
  /\ UNCHANGED <<write_flag, active, pool, depth, readers, at>>

WriteFlag(th) ==
  /\ pc[th] = "flag"
  /\ write_flag' = 1
  /\ at' = [at EXCEPT ![th] = 0]
  /\ Goto(th, "scan")
  /\ UNCHANGED <<active, pool, depth, fallback, writes>>

\* The slots one by one, each until its reader has left.
Scan(th) ==
  /\ pc[th] = "scan" /\ active[at[th]] = 0
  /\ at' = [at EXCEPT ![th] = @ + 1]
  /\ Goto(th, IF at[th] + 1 = NSlots THEN "writing" ELSE "scan")
  /\ UNCHANGED <<write_flag, active, pool, depth, fallback, writes>>

\* Mutant: the flag stays up.
WriteUnlock_keepsFlag(th) ==
  /\ pc[th] = "writing"
  /\ Goto(th, "unlock")
  /\ UNCHANGED <<write_flag, active, pool, depth, fallback, at, writes>>

WriteUnlock(th) ==
  /\ pc[th] = "writing"
  /\ write_flag' = 0
  /\ Goto(th, "unlock")
  /\ UNCHANGED <<active, pool, depth, fallback, at, writes>>

WriteUnlockEnd(th) ==
  /\ pc[th] = "unlock"
  /\ writer' = None
  /\ Goto(th, "idle")
  /\ UNCHANGED <<write_flag, active, pool, depth, readers, at, writes>>

-----------------------------------------------------------------------------
\* What a thread does once it has begun.
Proceed(th) ==
  \/ Raise(th) \/ Check(th) \/ Yield(th) \/ Spin(th) \/ ReadUnlock(th)
  \/ ReadFallbackEnd(th)
  \/ WriteFlag(th) \/ Scan(th) \/ WriteUnlock(th) \/ WriteUnlockEnd(th)

Begin(th) ==
  \/ Register(th) \/ Unregister(th)
  \/ ReadLock(th) \/ ReadNested(th) \/ ReadFallback(th) \/ WriteLock(th)

Next == \E th \in Threads : Begin(th) \/ Proceed(th)

Spec == Init /\ [][Next]_vars

\* Every thread runs, and what it does under a lock comes to an end.
FairSpec ==
  /\ Spec
  /\ \A th \in Threads : /\ WF_vars(Proceed(th))
                         /\ SF_vars(depth[th] = 1 /\ ReadUnlock(th))

-----------------------------------------------------------------------------
Labels == {"idle", "raise", "check", "yield", "spin", "reading", "fallback",
           "flag", "scan", "writing", "unlock"}

\* Every variable stays in its type.
TypeOK ==
  /\ write_flag \in {0, 1}
  /\ active \in [Slots -> {0, 1}] /\ in_use \in [Slots -> {0, 1}]
  /\ slot \in [Threads -> Slots \cup {None}]
  /\ depth \in [Threads -> 0 .. MaxDepth]
  /\ readers \subseteq Threads /\ writer \in Threads \cup {None}
  /\ at \in [Threads -> 0 .. NSlots]
  /\ pc \in [Threads -> Labels]
  /\ writes \in Nat

\* A thread reads from its outermost lock to its outermost unlock.
Reads(th) == pc[th] \in {"reading", "fallback"} \/ depth[th] > 1

\* A writer is alone: no reader of any kind, no other writer, although neither
\* side of the handshake takes a lock (rwlock_distr.c:100-111, 135-143).
Exclusive ==
  \A w \in Threads : pc[w] = "writing" =>
    \A th \in Threads \ {w} : ~Reads(th) /\ pc[th] # "writing"

\* Two threads never share a slot (rwlock_distr.c:64-71).
SlotsApart ==
  \A a, b \in Threads : slot[a] # None /\ slot[a] = slot[b] => a = b

\* A writer that has raised its flag gets in: readers that come later yield, and
\* no slot of a reader that yielded stays raised.  A reader that yielded gets in
\* once writers pause.
EveryoneGetsIn ==
  \A th \in Threads : /\ pc[th] = "flag" ~> pc[th] = "writing"
                      /\ pc[th] = "spin" ~> pc[th] = "reading"
=============================================================================
