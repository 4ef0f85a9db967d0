-------------------------------- MODULE DbPool --------------------------------
(***************************************************************************)
(* The connection pool of a task (lib/srey/db_pool.c).                     *)
(*                                                                         *)
(* The coroutines of one task run on one thread; run is the stack of those *)
(* that have resumed each other, the dispatcher Main at its bottom.        *)
(* Opening, pinging, resetting and quitting a connection may suspend the   *)
(* coroutine in the middle of get, put, free or a round of the maintenance *)
(* coroutine Tick; meanwhile the others use the pool, and one of them may  *)
(* free it.  Whoever leaves the freed pool last destroys it.               *)
(*                                                                         *)
(* Ages (idle too long, at the end of its life, cooling down) are choices: *)
(* a check of one may go either way.                                       *)
(***************************************************************************)
EXTENDS Naturals, Sequences, FiniteSets, SequencesExt

CONSTANTS
  Users,    \* coroutines that borrow connections
  Main,     \* the dispatcher
  Tick,     \* the maintenance coroutine
  Conns,    \* the connections
  MinIdle,  \* open idle connections to keep
  Nil

ASSUME PoolAssumption ==
  /\ IsFiniteSet(Users) /\ Main \notin Users /\ Tick \notin Users /\ Main # Tick
  /\ IsFiniteSet(Conns) /\ Nil \notin Conns /\ MinIdle \in Nat

Coros == Users \cup {Tick}

VARIABLES
  run,              \* the stack of contexts
  mem,              \* "live" or "freed"
  closed, free_pending, ticking,
  busy, waiters,    \* the pool's counts
  added,            \* the connections the pool has
  idle,             \* the idle stack, as a set
  link,             \* connection -> "down", "ready", or "half": open, but not reusable
  cool,             \* connections that cool down after a failure
  queue,            \* those that wait for a connection, first come first
  at, con,          \* coroutine -> where it is, the connection it has in hand
  deadline, timed,  \* coroutine -> whether its get has a deadline, its wait a timer
  waking            \* coroutine -> those its wake_all has still to wake

vars == <<run, mem, closed, free_pending, ticking, busy, waiters, added, idle, link, cool, queue,
          at, con, deadline, timed, waking>>
flags == <<closed, free_pending, ticking, added>>
wait == <<waiters, queue, deadline, timed, waking>>

\* Where a coroutine waits for an answer of the server.
Calls == {"renew", "connect", "ping", "failquit", "reset", "putquit", "reapquit", "freequit"}

Places ==
  Calls \cup {"out", "hold", "get", "wait", "woke", "wakeall", "free", "freeidle",
             "none", "off", "forked", "top", "tick", "round", "fill", "gone"}

Top == Last(run)
Resume(x) == run' = Append(run, x)
Yield == run' = Front(run)
\* The call suspends the coroutine, or is over at once.
MaySuspend == Yield \/ UNCHANGED run
At(x, a) == Top = x /\ at[x] = a
Goto(x, a) == at' = [at EXCEPT ![x] = a]

\* Where a get or put that is over returns to.
Gone(x) == IF x = Tick THEN "top" ELSE "out"
Done(x) == IF x = Tick THEN "fill" ELSE "out"

\* The last one to leave a freed pool destroys it (b, w, t, f: the new counts and flags).
Release(b, w, t, f) == mem' = IF f /\ b = 0 /\ w = 0 /\ ~t THEN "freed" ELSE mem

Ready == {k \in idle : link[k] = "ready"}
Usable == {k \in idle : k \notin cool}

Init ==
  /\ run = <<Main>> /\ mem = "live"
  /\ closed = FALSE /\ free_pending = FALSE /\ ticking = FALSE
  /\ busy = 0 /\ waiters = 0
  /\ added = {} /\ idle = {} /\ link = [k \in Conns |-> "down"] /\ cool = {}
  /\ queue = <<>>
  /\ \E a \in {"none", "off"} : at = [x \in Coros |-> IF x = Tick THEN a ELSE "out"]
  /\ con = [x \in Coros |-> Nil]
  /\ deadline = [x \in Coros |-> FALSE] /\ timed = [x \in Coros |-> FALSE]
  /\ waking = [x \in Coros |-> <<>>]

-----------------------------------------------------------------------------
(* The dispatcher, and what a coroutine does with a connection *)

\* A message starts a coroutine, or answers one.
Start(x) ==
  /\ Top = Main /\ ~Contains(run, x)
  /\ at[x] \in Calls \cup {"out", "hold"}
  /\ Resume(x)
  /\ UNCHANGED <<mem, flags, busy, idle, link, cool, at, con, wait>>

\* The coroutine ends, or suspends with the connection in hand.
Finish(x) ==
  /\ Top = x /\ x \in Users /\ at[x] \in {"out", "hold"}
  /\ Yield
  /\ UNCHANGED <<mem, flags, busy, idle, link, cool, at, con, wait>>

\* A result was read half.
Half(x) ==
  /\ At(x, "hold") /\ x \in Users /\ link[con[x]] = "ready"
  /\ link' = [link EXCEPT ![con[x]] = "half"]
  /\ UNCHANGED <<run, mem, flags, busy, idle, cool, at, con, wait>>

\* The server closes a connection.
Break(k) ==
  /\ Top = Main /\ link[k] # "down"
  /\ link' = [link EXCEPT ![k] = "down"]
  /\ UNCHANGED <<run, mem, flags, busy, idle, cool, at, con, wait>>

CoolDown(k) ==
  /\ Top = Main /\ k \in cool
  /\ cool' = cool \ {k}
  /\ UNCHANGED <<run, mem, flags, busy, idle, link, at, con, wait>>

\* A connection, open or not, is added while none is borrowed or waited for.
Add(x, k) ==
  /\ At(x, "out") /\ x \in Users
  /\ ~closed /\ busy = 0 /\ waiters = 0 /\ k \notin added
  /\ added' = added \cup {k} /\ idle' = idle \cup {k}
  /\ \E l \in {"down", "ready"} : link' = [link EXCEPT ![k] = l]
  /\ UNCHANGED <<run, mem, closed, free_pending, ticking, busy, cool, at, con, wait>>

-----------------------------------------------------------------------------
(* checkout, and the ways back into the pool *)

\* k leaves the idle stack and is x's; what x does about it, and whether it waits.
Checkout(x, k) ==
  /\ idle' = idle \ {k}
  /\ busy' = busy + 1
  /\ con' = [con EXCEPT ![x] = k]
  /\ IF link[k] = "ready"
     THEN \/ Goto(x, "hold") /\ UNCHANGED run
          \/ \E a \in {"renew", "ping"} : Goto(x, a) /\ MaySuspend
     ELSE Goto(x, "connect") /\ MaySuspend
  /\ UNCHANGED <<mem, flags, link, cool, wait>>

\* The connection of x goes back to the idle stack.
PutIdle(x) ==
  /\ idle' = idle \cup {con[x]}
  /\ busy' = busy - 1
  /\ con' = [con EXCEPT ![x] = Nil]

\* Closed meanwhile: the connection, which is down, does not go back.
FailClosed(x) ==
  /\ busy' = busy - 1
  /\ con' = [con EXCEPT ![x] = Nil]
  /\ Release(busy - 1, waiters, ticking, free_pending)
  /\ Goto(x, Gone(x))
  /\ UNCHANGED <<run, flags, idle, cool, wait>>

\* Closed meanwhile, and the connection may be open: quit first.
QuitClosed(x) ==
  /\ Goto(x, "failquit") /\ MaySuspend
  /\ UNCHANGED <<mem, flags, busy, idle, cool, con, wait>>

Down(x) == link' = [link EXCEPT ![con[x]] = "down"]

\* The first waiter is woken to look again, if there is one.
WakeHead(x, a) ==
  /\ IF queue = <<>> THEN Goto(x, a) /\ UNCHANGED <<run, queue>>
     ELSE /\ at' = [at EXCEPT ![x] = a, ![Head(queue)] = "woke"]
          /\ Resume(Head(queue))
          /\ queue' = Tail(queue)
  /\ UNCHANGED <<waiters, deadline, timed, waking>>

FailQuitEnd(x) == At(x, "failquit") /\ Down(x) /\ FailClosed(x)

\* The end of its life: quit, then open it again.
RenewEnd(x) ==
  /\ At(x, "renew") /\ Down(x)
  /\ IF closed THEN FailClosed(x)
     ELSE /\ Goto(x, "connect") /\ MaySuspend
          /\ UNCHANGED <<mem, flags, busy, idle, cool, con, wait>>

OpenOk(x) ==
  /\ Top = x /\ at[x] \in {"connect", "ping"}
  /\ link' = [link EXCEPT ![con[x]] = "ready"]
  /\ IF closed THEN QuitClosed(x)
     ELSE /\ Goto(x, "hold")
          /\ cool' = cool \ {con[x]}
          /\ UNCHANGED <<run, mem, flags, busy, idle, con, wait>>

\* Mutant: the waiters are left to whoever borrows next.
OpenFailed_leaves(x) ==
  /\ Top = x /\ at[x] \in {"connect", "ping"} /\ Down(x)
  /\ IF closed THEN QuitClosed(x)
     ELSE /\ PutIdle(x)
          /\ cool' = cool \cup {con[x]}
          /\ Goto(x, IF x = Tick THEN "top" ELSE "get")
          /\ UNCHANGED <<run, mem, flags, wait>>

\* No connection: it cools down.  With nothing borrowed any more nobody would wake
\* the waiters, so that all of them are woken to fail as well.
OpenFailed(x) ==
  /\ Top = x /\ at[x] \in {"connect", "ping"} /\ Down(x)
  /\ IF closed THEN QuitClosed(x)
     ELSE /\ PutIdle(x)
          /\ cool' = cool \cup {con[x]}
          /\ IF waiters > 0 /\ busy = 1
             THEN /\ waking' = [waking EXCEPT ![x] = queue]
                  /\ queue' = <<>>
                  /\ Goto(x, "wakeall")
             ELSE /\ Goto(x, IF x = Tick THEN "top" ELSE "get")
                  /\ UNCHANGED <<queue, waking>>
          /\ UNCHANGED <<run, mem, flags, waiters, deadline, timed>>

WakeAllNext(x) ==
  LET w == Head(waking[x]) IN
  /\ Top = x /\ at[x] \in {"wakeall", "free"} /\ waking[x] # <<>>
  /\ waking' = [waking EXCEPT ![x] = Tail(@)]
  /\ Goto(w, "woke") /\ Resume(w)
  /\ UNCHANGED <<mem, flags, busy, idle, link, cool, con, waiters, queue, deadline, timed>>

\* Those it woke may have freed the pool: it is not looked at again.
WakeAllEnd(x) ==
  /\ At(x, "wakeall") /\ waking[x] = <<>>
  /\ Goto(x, Gone(x))
  /\ UNCHANGED <<run, mem, flags, busy, idle, link, cool, con, wait>>

-----------------------------------------------------------------------------
(* get *)

\* The first get starts the maintenance, if the configuration has work for it.
Get(x) ==
  /\ At(x, "out") /\ x \in Users /\ ~closed
  /\ \E d \in BOOLEAN : deadline' = [deadline EXCEPT ![x] = d]
  /\ ticking' = (at[Tick] # "off")
  /\ at' = [at EXCEPT ![x] = "get", ![Tick] = IF @ = "none" THEN "forked" ELSE @]
  /\ UNCHANGED <<run, mem, closed, free_pending, added, busy, waiters, idle, link, cool, queue,
                 con, timed, waking>>

\* An open one first.
GetTake(x, k) ==
  /\ At(x, "get") /\ ~closed
  /\ k \in Usable /\ (Ready \cap Usable # {} => k \in Ready)
  /\ Checkout(x, k)

\* The deadline is over, or nobody is left who would bring a connection.
GetFails(x) ==
  /\ At(x, "get") /\ ~closed /\ Usable = {}
  /\ deadline[x] \/ busy = 0
  /\ Goto(x, "out")
  /\ UNCHANGED <<run, mem, flags, busy, idle, link, cool, con, wait>>

\* Until the deadline, or the end of the first cooling.
GetWait(x) ==
  /\ At(x, "get") /\ ~closed /\ Usable = {} /\ busy > 0
  /\ waiters' = waiters + 1
  /\ queue' = Append(queue, x)
  /\ timed' = [timed EXCEPT ![x] = deadline[x] \/ idle # {}]
  /\ Goto(x, "wait") /\ Yield
  /\ UNCHANGED <<mem, flags, busy, idle, link, cool, con, deadline, waking>>

Expire(x) ==
  /\ Top = Main /\ at[x] = "wait" /\ timed[x]
  /\ \E i \in DOMAIN queue : queue[i] = x /\ queue' = RemoveAt(queue, i)
  /\ Goto(x, "woke") /\ Resume(x)
  /\ UNCHANGED <<mem, flags, busy, idle, link, cool, con, waiters, deadline, timed, waking>>

\* Closed, handed a connection, or to look again.
Woke(x) ==
  /\ At(x, "woke")
  /\ waiters' = waiters - 1
  /\ timed' = [timed EXCEPT ![x] = FALSE]
  /\ IF closed THEN Release(busy, waiters - 1, ticking, free_pending) /\ Goto(x, "out")
     ELSE UNCHANGED mem /\ Goto(x, IF con[x] = Nil THEN "get" ELSE "hold")
  /\ UNCHANGED <<run, flags, busy, idle, link, cool, queue, con, deadline, waking>>

-----------------------------------------------------------------------------
(* put *)

\* A connection that cannot be used again, or is at the end of its life, is quit; the
\* others are reset.  A closed pool takes none.
Put(x) ==
  /\ At(x, "hold")
  /\ IF closed THEN Goto(x, "failquit")
     ELSE \/ Goto(x, "putquit")
          \/ link[con[x]] = "ready" /\ Goto(x, "reset")
  /\ MaySuspend
  /\ UNCHANGED <<mem, flags, busy, idle, link, cool, con, wait>>

ResetFailed(x) ==
  /\ At(x, "reset")
  /\ Goto(x, "putquit") /\ MaySuspend
  /\ UNCHANGED <<mem, flags, busy, idle, link, cool, con, wait>>

\* Mutant: the pool is taken to be what it was before the reset.
ResetOk_stale(x) ==
  LET w == Head(queue) IN
  /\ At(x, "reset")
  /\ cool' = cool \ {con[x]}
  /\ IF queue # <<>>
     THEN /\ con' = [con EXCEPT ![x] = Nil, ![w] = con[x]]
          /\ at' = [at EXCEPT ![x] = Done(x), ![w] = "woke"]
          /\ Resume(w)
          /\ queue' = Tail(queue)
          /\ UNCHANGED <<busy, idle>>
     ELSE PutIdle(x) /\ Goto(x, Done(x)) /\ UNCHANGED <<run, queue>>
  /\ UNCHANGED <<mem, flags, link, waiters, deadline, timed, waking>>

\* Mutant: the connection is handed over and goes back to the idle stack too.
ResetOk_both(x) ==
  LET w == Head(queue) IN
  /\ At(x, "reset")
  /\ IF closed THEN QuitClosed(x) /\ UNCHANGED link
     ELSE /\ cool' = cool \ {con[x]}
          /\ idle' = idle \cup {con[x]}
          /\ IF queue # <<>>
             THEN /\ con' = [con EXCEPT ![x] = Nil, ![w] = con[x]]
                  /\ at' = [at EXCEPT ![x] = Done(x), ![w] = "woke"]
                  /\ Resume(w)
                  /\ queue' = Tail(queue)
                  /\ UNCHANGED busy
             ELSE PutIdle(x) /\ Goto(x, Done(x)) /\ UNCHANGED <<run, queue>>
          /\ UNCHANGED <<mem, flags, link, waiters, deadline, timed, waking>>

\* The first waiter gets the connection itself, and runs at once; it stays busy.
ResetOk(x) ==
  LET w == Head(queue) IN
  /\ At(x, "reset")
  /\ IF closed THEN QuitClosed(x) /\ UNCHANGED link
     ELSE /\ cool' = cool \ {con[x]}
          /\ IF queue # <<>>
             THEN /\ con' = [con EXCEPT ![x] = Nil, ![w] = con[x]]
                  /\ at' = [at EXCEPT ![x] = Done(x), ![w] = "woke"]
                  /\ Resume(w)
                  /\ queue' = Tail(queue)
                  /\ UNCHANGED <<busy, idle>>
             ELSE PutIdle(x) /\ Goto(x, Done(x)) /\ UNCHANGED <<run, queue>>
          /\ UNCHANGED <<mem, flags, link, waiters, deadline, timed, waking>>

\* It is down: the first waiter may open it.
PutQuitEnd(x) ==
  /\ At(x, "putquit") /\ Down(x)
  /\ IF closed THEN FailClosed(x)
     ELSE /\ PutIdle(x)
          /\ cool' = cool \ {con[x]}
          /\ WakeHead(x, Done(x))
          /\ UNCHANGED <<mem, flags>>

-----------------------------------------------------------------------------
(* The maintenance coroutine *)

TickStart ==
  /\ Top = Main /\ at[Tick] = "forked"
  /\ Goto(Tick, "top") /\ Resume(Tick)
  /\ UNCHANGED <<mem, flags, busy, idle, link, cool, con, wait>>

TickWait ==
  /\ At(Tick, "top") /\ ~closed
  /\ Goto(Tick, "tick") /\ Yield
  /\ UNCHANGED <<mem, flags, busy, idle, link, cool, con, wait>>

TickTimer ==
  /\ Top = Main /\ at[Tick] = "tick"
  /\ Goto(Tick, "round") /\ Resume(Tick)
  /\ UNCHANGED <<mem, flags, busy, idle, link, cool, con, wait>>

\* One idle too long is quit, down to MinIdle open ones.
Reap(k) ==
  /\ At(Tick, "round") /\ ~closed
  /\ k \in Ready /\ Cardinality(Ready) > MinIdle
  /\ idle' = idle \ {k} /\ busy' = busy + 1
  /\ con' = [con EXCEPT ![Tick] = k]
  /\ Goto(Tick, "reapquit") /\ MaySuspend
  /\ UNCHANGED <<mem, flags, link, cool, wait>>

ReapEnd ==
  /\ At(Tick, "reapquit") /\ Down(Tick)
  /\ IF closed THEN FailClosed(Tick)
     ELSE /\ PutIdle(Tick)
          /\ cool' = cool \ {con[Tick]}
          /\ WakeHead(Tick, "round")
          /\ UNCHANGED <<mem, flags>>

\* One more is opened, up to MinIdle, and put.
Fill(k) ==
  /\ Top = Tick /\ at[Tick] \in {"round", "fill"} /\ ~closed
  /\ Cardinality(Ready) < MinIdle
  /\ k \in Usable \ Ready
  /\ Checkout(Tick, k)

TickAgain ==
  /\ Top = Tick /\ at[Tick] \in {"round", "fill"}
  /\ Goto(Tick, "top")
  /\ UNCHANGED <<run, mem, flags, busy, idle, link, cool, con, wait>>

TickExit ==
  /\ At(Tick, "top") /\ closed
  /\ ticking' = FALSE
  /\ Release(busy, waiters, FALSE, free_pending)
  /\ Goto(Tick, "gone") /\ Yield
  /\ UNCHANGED <<closed, free_pending, added, busy, idle, link, cool, con, wait>>

-----------------------------------------------------------------------------
(* free *)

Free(x) ==
  /\ At(x, "out") /\ x \in Users /\ ~closed
  /\ closed' = TRUE
  /\ waking' = [waking EXCEPT ![x] = queue]
  /\ queue' = <<>>
  /\ Goto(x, "free")
  /\ UNCHANGED <<run, mem, free_pending, ticking, added, busy, waiters, idle, link, cool, con,
                 deadline, timed>>

\* All waiters are awake; now the maintenance.
FreeTick(x) ==
  /\ At(x, "free") /\ waking[x] = <<>>
  /\ IF at[Tick] = "tick"
     THEN at' = [at EXCEPT ![x] = "freeidle", ![Tick] = "top"] /\ Resume(Tick)
     ELSE Goto(x, "freeidle") /\ UNCHANGED run
  /\ UNCHANGED <<mem, flags, busy, idle, link, cool, con, wait>>

FreeIdle(x, k) ==
  /\ At(x, "freeidle") /\ k \in idle
  /\ idle' = idle \ {k}
  /\ con' = [con EXCEPT ![x] = k]
  /\ Goto(x, "freequit") /\ MaySuspend
  /\ UNCHANGED <<mem, flags, busy, link, cool, wait>>

FreeQuitEnd(x) ==
  /\ At(x, "freequit") /\ Down(x)
  /\ con' = [con EXCEPT ![x] = Nil]
  /\ Goto(x, "freeidle")
  /\ UNCHANGED <<run, mem, flags, busy, idle, cool, wait>>

\* Mutant: the pool goes with the last idle connection.
FreeEnd_atOnce(x) ==
  /\ At(x, "freeidle") /\ idle = {}
  /\ free_pending' = TRUE
  /\ Release(busy, waiters, FALSE, TRUE)
  /\ Goto(x, "out")
  /\ UNCHANGED <<run, closed, ticking, added, busy, idle, link, cool, con, wait>>

FreeEnd(x) ==
  /\ At(x, "freeidle") /\ idle = {}
  /\ free_pending' = TRUE
  /\ Release(busy, waiters, ticking, TRUE)
  /\ Goto(x, "out")
  /\ UNCHANGED <<run, closed, ticking, added, busy, idle, link, cool, con, wait>>

-----------------------------------------------------------------------------
Borrow(x) ==
  \/ Get(x) \/ GetFails(x) \/ GetWait(x) \/ Expire(x) \/ Woke(x)
  \/ \E k \in Conns : GetTake(x, k)
Server(x) ==
  \/ FailQuitEnd(x) \/ RenewEnd(x) \/ OpenOk(x) \/ OpenFailed(x) \/ WakeAllNext(x) \/ WakeAllEnd(x)
Return(x) == Put(x) \/ ResetFailed(x) \/ ResetOk(x) \/ PutQuitEnd(x)
Maintain ==
  \/ TickStart \/ TickWait \/ TickTimer \/ ReapEnd \/ TickAgain \/ TickExit
  \/ \E k \in Conns : Reap(k) \/ Fill(k)
Destroy(x) ==
  \/ Free(x) \/ FreeTick(x) \/ FreeQuitEnd(x) \/ FreeEnd(x)
  \/ \E k \in Conns : FreeIdle(x, k)

Next ==
  \/ \E x \in Coros : Start(x) \/ Finish(x) \/ Half(x) \/ Server(x) \/ Return(x)
  \/ \E x \in Users : Borrow(x) \/ Destroy(x) \/ \E k \in Conns : Add(x, k)
  \/ \E k \in Conns : Break(k) \/ CoolDown(k)
  \/ Maintain

Spec == Init /\ [][Next]_vars

-----------------------------------------------------------------------------
\* Every variable stays in its type.
TypeOK ==
  /\ run \in Seq(Coros \cup {Main}) /\ mem \in {"live", "freed"}
  /\ closed \in BOOLEAN /\ free_pending \in BOOLEAN /\ ticking \in BOOLEAN
  /\ busy \in Nat /\ waiters \in Nat
  /\ added \subseteq Conns /\ idle \subseteq added /\ cool \subseteq Conns
  /\ link \in [Conns -> {"down", "ready", "half"}]
  /\ at \in [Coros -> Places]
  /\ queue \in Seq(Users) /\ con \in [Coros -> Conns \cup {Nil}]
  /\ deadline \in [Coros -> BOOLEAN] /\ timed \in [Coros -> BOOLEAN]
  /\ waking \in [Coros -> Seq(Users)]

\* A connection is in one pair of hands or in the idle stack, never both, and busy
\* counts those in hand: what free and the waiting gets decide by.
OneHolder ==
  /\ \A x, y \in Coros : con[x] # Nil /\ con[x] = con[y] => x = y
  /\ \A x \in Coros : con[x] \notin idle
  /\ busy = Cardinality({x \in Coros : con[x] # Nil /\ at[x] # "freequit"})

\* Whoever is still inside the pool, or has a connection to bring back, finds it
\* alive.  After it woke the others a failed get does not look at it any more.
NoUseAfterFree ==
  mem = "freed" => \A x \in Coros : at[x] \in {"out", "none", "off", "gone"} \/ (x # Tick /\ at[x] = "wakeall")

\* A freed pool leaves nothing behind: when its memory goes every connection is down,
\* and it goes as soon as nobody is inside (db_pool.h:77-81).
NothingLeft ==
  /\ mem = "freed" => \A k \in Conns : link[k] = "down"
  /\ Top = Main /\ closed /\ (\A x \in Users : at[x] = "out") /\ at[Tick] \in {"none", "off", "gone"}
       => mem = "freed"

\* Nobody waits for a connection that nobody will bring: while one waits without a
\* timer a connection is borrowed, being opened or being closed.
NoneStranded ==
  Top = Main => \A x \in Users : at[x] = "wait" /\ ~timed[x] => busy > 0
=============================================================================
