------------------------------- MODULE TimeWheel -------------------------------
(***************************************************************************)
(* The timing wheel (lib/utils/tw.c): threads add timers through a queue,  *)
(* one thread sorts them into five levels of slots, runs those that are    *)
(* due and sleeps until it has to turn the wheel again (lib/thread/        *)
(* waiter.h).  Times are in milliseconds.  The widths of the levels are    *)
(* constants; in the code they are 2^8 and 2^6.                            *)
(***************************************************************************)
EXTENDS Naturals, Sequences

CONSTANTS
  Timers,        \* each is added once, by a thread of its own
  TVR_SIZE,      \* slots of the first level
  TVN_SIZE,      \* slots of each of the other four
  Timeouts,      \* what a timer may be asked to wait; with 0 it runs at once, outside the wheel
  Starts,        \* what the clock may show when the wheel begins
  AddWithin,     \* bound: timers are added so long after the start at most
  MaxLag,        \* bound: how far the threads may fall behind the clock
  Horizon        \* bound: the clock stops so long after the start

\* What an instance gives the constants.
ASSUME WheelAssumption ==
  /\ TVR_SIZE \in Nat \ {0} /\ TVN_SIZE \in Nat \ {0}
  /\ Timeouts \subseteq Nat \ {0} /\ Starts \subseteq Nat
  /\ AddWithin \in Nat /\ MaxLag \in Nat /\ Horizon \in Nat

Levels == 1..5

\* Milliseconds of one slot, number of slots, and milliseconds of a whole turn.
Unit(k) ==
  CASE k = 1 -> 1
    [] k = 2 -> TVR_SIZE
    [] k = 3 -> TVR_SIZE * TVN_SIZE
    [] k = 4 -> TVR_SIZE * TVN_SIZE * TVN_SIZE
    [] k = 5 -> TVR_SIZE * TVN_SIZE * TVN_SIZE * TVN_SIZE
Size(k) == IF k = 1 THEN TVR_SIZE ELSE TVN_SIZE
Turn(k) == Unit(k) * Size(k)

VARIABLES
  clock, start,\* the clock, and what it showed at the start
  jiffies,     \* the next millisecond to run
  curtick,     \* what the thread last read from the clock
  wake_at,     \* until when it means to sleep
  at,          \* where the thread of the wheel is
  wstate,      \* its waiter: "awake", "sleep" or "waking"
  moved,       \* has the epoch of the waiter moved since the thread read it
  reqadd,      \* the queue: cells [n, ready]
  expires,     \* timer -> when it is to run, or 0
  slot,        \* timer -> <<level, index>>, or <<>> outside the wheel
  adder,       \* timer -> where the thread that adds it is
  exit, main,  \* tw_free
  owed,        \* timer in the wheel -> the tick it was owed when it came in (history)
  wrong        \* timers that ran in another one (history)

thread == <<curtick, wake_at, at>>
waiter == <<wstate, moved>>
wheel == <<jiffies, slot, owed, wrong>>
vars == <<clock, start, thread, waiter, wheel, reqadd, expires, adder, exit, main>>

Init ==
  /\ clock \in Starts /\ start = clock
  /\ jiffies = clock  \* _tw_loop begins
  /\ curtick = 0 /\ wake_at = clock /\ at = "top"
  /\ wstate = "awake" /\ moved = FALSE
  /\ reqadd = <<>>
  /\ expires = [n \in Timers |-> 0]
  /\ slot = [n \in Timers |-> <<>>]
  /\ adder = [n \in Timers |-> "out"]
  /\ exit = FALSE /\ main = "out"
  /\ owed = [n \in Timers |-> 0] /\ wrong = {}

NobodyInside == main \in {"out", "done"} /\ \A n \in Timers : adder[n] \in {"out", "done"}

\* Time passes while a timer is left.  Threads that add and the thread of the wheel may
\* be slow, within the bounds.
Clock ==
  /\ clock < start + Horizon /\ clock < wake_at + MaxLag
  /\ \E n \in Timers : expires[n] # 0 \/ (adder[n] = "out" /\ clock < start + AddWithin)
  /\ NobodyInside \/ clock < start + AddWithin + MaxLag
  /\ clock' = clock + 1
  /\ UNCHANGED <<start, thread, waiter, wheel, reqadd, expires, adder, exit, main>>

-----------------------------------------------------------------------------
(* tw_add and tw_free *)

AdderGoto(n, a) == adder' = [adder EXCEPT ![n] = a]

Add(n) ==
  /\ adder[n] = "out" /\ ~exit /\ clock <= start + AddWithin
  /\ \E ms \in Timeouts : expires' = [expires EXCEPT ![n] = clock + ms]
  /\ reqadd' = Append(reqadd, [n |-> n, ready |-> FALSE])
  /\ AdderGoto(n, "publish")
  /\ UNCHANGED <<clock, start, thread, waiter, wheel, exit, main>>

Publish(n) ==
  /\ adder[n] = "publish"
  /\ reqadd' = [i \in DOMAIN reqadd |->
                  IF reqadd[i].n = n THEN [reqadd[i] EXCEPT !.ready = TRUE] ELSE reqadd[i]]
  /\ AdderGoto(n, "look")
  /\ UNCHANGED <<clock, start, thread, waiter, wheel, expires, exit, main>>

\* waiter_state_get, waiter_mark_waking: only one of those that see it asleep wakes it.
Look(n) ==
  /\ adder[n] = "look"
  /\ IF wstate = "sleep" THEN wstate' = "waking" /\ AdderGoto(n, "wake")
     ELSE UNCHANGED wstate /\ AdderGoto(n, "done")
  /\ UNCHANGED <<clock, start, thread, moved, wheel, reqadd, expires, exit, main>>

\* waiter_wake: the epoch, then whoever sleeps on it.
FutexWake == at' = IF at = "asleep" THEN "woke" ELSE at

WakeEpoch(n) ==
  /\ adder[n] = "wake"
  /\ moved' = TRUE
  /\ AdderGoto(n, "futex")
  /\ UNCHANGED <<clock, start, thread, wstate, wheel, reqadd, expires, exit, main>>

Wake(n) ==
  /\ adder[n] = "futex"
  /\ FutexWake
  /\ AdderGoto(n, "done")
  /\ UNCHANGED <<clock, start, curtick, wake_at, waiter, wheel, reqadd, expires, exit, main>>

\* tw_free.  Those that add timers have been joined (loader.c).
TwFree ==
  /\ main = "out" /\ NobodyInside
  /\ exit' = TRUE /\ main' = "wake"
  /\ UNCHANGED <<clock, start, thread, waiter, wheel, reqadd, expires, adder>>

FreeEpoch ==
  /\ main = "wake"
  /\ moved' = TRUE /\ main' = "futex"
  /\ UNCHANGED <<clock, start, thread, wstate, wheel, reqadd, expires, adder, exit>>

FreeWake ==
  /\ main = "futex"
  /\ FutexWake
  /\ main' = "join"
  /\ UNCHANGED <<clock, start, curtick, wake_at, waiter, wheel, reqadd, expires, adder, exit>>

\* The thread has ended: what is left in the slots and in the queue is freed.
FreeRest ==
  /\ main = "join" /\ at = "exited"
  /\ slot' = [n \in Timers |-> <<>>]
  /\ reqadd' = <<>>
  /\ expires' = [n \in Timers |-> 0]
  /\ main' = "done"
  /\ UNCHANGED <<clock, start, thread, waiter, jiffies, owed, wrong, adder, exit>>

-----------------------------------------------------------------------------
(* The wheel *)

\* The level for a timer that is due in ms.
Level(ms) == CHOOSE k \in Levels : (k = 5 \/ ms < Turn(k)) /\ (k = 1 \/ ms >= Turn(k - 1))

\* A time beyond the turn of the last level is cut off.
Clamp(e) == IF e > jiffies + (Turn(5) - 1) THEN jiffies + (Turn(5) - 1) ELSE e

\* _tw_getslot, for a time cut off already.  What is due by now goes to the slot of now.
GetSlot(e) ==
  IF e <= jiffies THEN <<1, jiffies % TVR_SIZE>>
  ELSE LET k == Level(e - jiffies) IN <<k, (e \div Unit(k)) % Size(k)>>

\* A level moves its slot down when the indices of all finer levels are 0.
Cascades(k) == jiffies % Unit(k) = 0

\* _tw_cascade: the timers of the current slots of those levels get new ones.
Cascaded ==
  LET moving == {k \in Levels \ {1} : Cascades(k)}
      current == {<<k, (jiffies \div Unit(k)) % Size(k)>> : k \in moving}
  IN [n \in Timers |-> IF slot[n] \in current THEN GetSlot(expires[n]) ELSE slot[n]]

\* The first level has a timer in d milliseconds.
Full(d) == \E n \in Timers : slot[n] = <<1, (jiffies + d) % TVR_SIZE>>

\* Mutant: looks a whole turn ahead, past the next cascade.
NextDelta_far(d) ==
  d \in 0 .. TVR_SIZE - 1 /\ (d = TVR_SIZE - 1 \/ Full(d)) /\ \A c \in 0 .. d - 1 : ~Full(c)

\* _tw_next_delta: d milliseconds to the first timer or to the next cascade.
NextDelta(d) ==
  LET bound == (TVR_SIZE - (jiffies % TVR_SIZE)) % TVR_SIZE
  IN d \in 0 .. bound /\ (d = bound \/ Full(d)) /\ \A c \in 0 .. d - 1 : ~Full(c)

-----------------------------------------------------------------------------
(* _tw_loop *)

Top ==
  /\ at = "top"
  /\ at' = IF exit THEN "exited" ELSE "drain"
  /\ UNCHANGED <<clock, start, curtick, wake_at, waiter, wheel, reqadd, expires, adder, exit, main>>

HeadReady == reqadd # <<>> /\ Head(reqadd).ready

\* _tw_insert_all takes the cells that are ready ...
Insert ==
  /\ at = "drain" /\ HeadReady
  /\ LET n == Head(reqadd).n
         e == Clamp(expires[n])
     IN /\ expires' = [expires EXCEPT ![n] = e]
        /\ slot' = [slot EXCEPT ![n] = GetSlot(e)]
        /\ owed' = [owed EXCEPT ![n] = IF e > jiffies THEN e ELSE jiffies]
  /\ reqadd' = Tail(reqadd)
  /\ UNCHANGED <<clock, start, thread, waiter, jiffies, wrong, adder, exit, main>>

\* ... until there is none, then the clock is read.
Inserted ==
  /\ at = "drain" /\ ~HeadReady
  /\ curtick' = clock
  /\ at' = "run"
  /\ UNCHANGED <<clock, start, wake_at, waiter, wheel, reqadd, expires, adder, exit, main>>

\* _tw_run: the slot of this millisecond, after the coarser levels have moved down.
Run ==
  /\ at \in {"run", "ran"} /\ jiffies <= curtick
  /\ LET due == {n \in Timers : Cascaded[n] = <<1, jiffies % TVR_SIZE>>}
     IN /\ slot' = [n \in Timers |-> IF n \in due THEN <<>> ELSE Cascaded[n]]
        /\ expires' = [n \in Timers |-> IF n \in due THEN 0 ELSE expires[n]]
        /\ owed' = [n \in Timers |-> IF n \in due THEN 0 ELSE owed[n]]
        /\ wrong' = wrong \cup {n \in due : owed[n] # jiffies}
  /\ jiffies' = jiffies + 1
  /\ at' = "ran"
  /\ UNCHANGED <<clock, start, curtick, wake_at, waiter, reqadd, adder, exit, main>>

\* The clock is read again if anything ran; no sleep if the next time has passed meanwhile.
Sleepy ==
  /\ at \in {"run", "ran"} /\ jiffies > curtick
  /\ curtick' = IF at = "ran" THEN clock ELSE curtick
  /\ \E d \in 0 .. TVR_SIZE : NextDelta(d) /\ wake_at' = jiffies + d
  /\ at' = IF wake_at' <= curtick' THEN "top" ELSE "prepare"
  /\ UNCHANGED <<clock, start, waiter, wheel, reqadd, expires, adder, exit, main>>

\* waiter_prepare reads the epoch, then shows that the thread sleeps.
Prepare ==
  /\ at = "prepare"
  /\ moved' = FALSE
  /\ at' = "show"
  /\ UNCHANGED <<clock, start, curtick, wake_at, wstate, wheel, reqadd, expires, adder, exit, main>>

Show ==
  /\ at = "show"
  /\ wstate' = "sleep"
  /\ at' = "recheck"
  /\ UNCHANGED <<clock, start, curtick, wake_at, moved, wheel, reqadd, expires, adder, exit, main>>

\* The second look, then waiter_cancel or waiter_commit.
Recheck ==
  /\ at = "recheck"
  /\ at' = IF exit \/ reqadd # <<>> THEN "woke" ELSE "commit"
  /\ UNCHANGED <<clock, start, curtick, wake_at, waiter, wheel, reqadd, expires, adder, exit, main>>

Commit ==
  /\ at = "commit"
  /\ at' = IF moved THEN "woke" ELSE "asleep"
  /\ UNCHANGED <<clock, start, curtick, wake_at, waiter, wheel, reqadd, expires, adder, exit, main>>

\* Time is up, or the wait ends for no reason.
TimeOut ==
  /\ at = "asleep"
  /\ at' = "woke"
  /\ UNCHANGED <<clock, start, curtick, wake_at, waiter, wheel, reqadd, expires, adder, exit, main>>

Awake ==
  /\ at = "woke"
  /\ wstate' = "awake"
  /\ at' = "top"
  /\ UNCHANGED <<clock, start, curtick, wake_at, moved, wheel, reqadd, expires, adder, exit, main>>

Adds == \E n \in Timers : Add(n) \/ Publish(n) \/ Look(n) \/ WakeEpoch(n) \/ Wake(n)
Frees == TwFree \/ FreeEpoch \/ FreeWake \/ FreeRest
Turns == Insert \/ Inserted \/ Run
Sleeps == Sleepy \/ Prepare \/ Show \/ Recheck \/ Commit \/ TimeOut \/ Awake

Next == Clock \/ Adds \/ Frees \/ Top \/ Turns \/ Sleeps

Spec == Init /\ [][Next]_vars

-----------------------------------------------------------------------------
(* Correctness *)

InWheel == {n \in Timers : slot[n] # <<>>}

\* Each timer runs in the tick it was owed when it came into the wheel, and until then it stays.
RanWhenOwed == wrong = {} /\ \A n \in InWheel : jiffies <= owed[n]

WakeOnItsWay == main \in {"wake", "futex"} \/ \E n \in Timers : adder[n] \in {"wake", "futex"}

\* While the thread sleeps no timer of the wheel is owed before it means to wake, and for
\* a timer that has come since, or for the end, somebody wakes it or will still look.
SleepsInTime ==
  at = "asleep" =>
    /\ \A n \in InWheel : wake_at <= owed[n]
    /\ (\E i \in DOMAIN reqadd : reqadd[i].ready) =>
         WakeOnItsWay \/ (wstate = "sleep" /\ \E n \in Timers : adder[n] = "look")
    /\ exit => WakeOnItsWay

\* No timer runs early or late, across the boundaries of the levels, the cut-off and the
\* sleep of the thread (_tw_getslot, _tw_cascade, _tw_next_delta, the handshake of _tw_loop).
OnTime == RanWhenOwed /\ SleepsInTime
=============================================================================
