------------------------------- MODULE CoroSess -------------------------------
(***************************************************************************)
(* Sessions and forks of the coroutine scheduler (lib/coro/coro.c), driven *)
(* by the dispatcher of a task (lib/srey/coro_task.c).                     *)
(*                                                                         *)
(* A coroutine waits on a session with a tag; a message of that session    *)
(* and tag wakes the first waiter, the close of a connection wakes all of  *)
(* its session, an expiry wakes those whose time is up.  Waking runs the   *)
(* coroutine at once, on top of the one that wakes: run is the stack, Main *)
(* (the dispatcher) at its bottom.  What runs on top may wait again, wake  *)
(* others, or fork while the calls below it are in the middle of a loop.   *)
(***************************************************************************)
EXTENDS Naturals, Sequences, FiniteSets, SequencesExt

CONSTANTS
  Coros,   \* coroutines
  Main,    \* the dispatcher
  Sess,    \* sessions
  Tags,    \* tags a waiter is told apart by
  MaxOps,  \* bound: operations of the whole run
  Nil

\* What an instance gives the constants.
SessAssumption ==
  /\ Main \notin Coros /\ Nil \notin Coros \cup Sess \cup BOOLEAN /\ Nil # Main
  /\ IsFiniteSet(Coros) /\ MaxOps \in Nat

Contexts == Coros \cup {Main}

VARIABLES
  run,           \* the stack of contexts
  phase,         \* of the dispatcher: "idle", "drain", or "expire"
  st,            \* coroutine -> "idle", "run", "wait", "fork" or "end"
  keep,          \* session -> Nil without an entry, else whether it stays when empty
  waiters,       \* session -> its waiters, first come first
  tag, timed,    \* coroutine -> the tag it waits with, whether with a timeout
  due,           \* waiters whose time is up
  all,           \* context -> the wake_all it is in: session, who is left, new coroutine, when
  fork_pending,  \* forks to start: the coroutine that waits for each, or Nil
  waited,        \* coroutine -> children its fork_wait still counts
  parent,        \* coroutine -> the one whose fork_wait it belongs to, or Nil
  since,         \* coroutine -> when it began to wait (history)
  ops            \* operations so far

vars == <<run, phase, st, keep, waiters, tag, timed, due, all, fork_pending, waited, parent,
          since, ops>>
sessions == <<keep, waiters, tag, timed, due, since>>
forks == <<fork_pending, waited, parent>>

Top == Last(run)
Resume(c) == run' = Append(run, c)
Yield == run' = Front(run)
Op == ops < MaxOps /\ ops' = ops + 1

NoAll == [on |-> Nil, list |-> <<>>, spawn |-> FALSE, at |-> 0]
InAll(x) == all[x].on # Nil

\* x executes its own code: a coroutine's body, or the dispatcher with a message.
Runs(x) == Top = x /\ ~InAll(x) /\ IF x = Main THEN phase = "idle" ELSE st[x] = "run"

\* After the message the dispatcher starts what was forked.
Handled(x) == phase' = IF x = Main THEN "drain" ELSE phase

\* Coroutines a start can use (the pool makes more; here the ones that the pending
\* forks and a pending close handler need are left for them).
Idle == {c \in Coros : st[c] = "idle"}
Spare(n) == Cardinality(Idle) >= Len(fork_pending) + n + (IF all[Main].spawn THEN 1 ELSE 0)

Init ==
  /\ run = <<Main>> /\ phase = "idle"
  /\ st = [c \in Coros |-> "idle"]
  /\ keep = [s \in Sess |-> Nil] /\ waiters = [s \in Sess |-> <<>>]
  /\ tag = [c \in Coros |-> Nil] /\ timed = [c \in Coros |-> FALSE] /\ due = {}
  /\ all = [x \in Contexts |-> NoAll]
  /\ fork_pending = <<>> /\ waited = [c \in Coros |-> 0] /\ parent = [c \in Coros |-> Nil]
  /\ since = [c \in Coros |-> 0] /\ ops = 0

-----------------------------------------------------------------------------
(* Starting and ending *)

\* A coroutine of the pool starts, as a child of p's fork_wait or of nobody.
Start(p) ==
  LET c == CHOOSE c \in Idle : TRUE IN
  /\ Resume(c)
  /\ st' = [st EXCEPT ![c] = "run"]
  /\ parent' = [parent EXCEPT ![c] = p]

\* A message nobody waits for starts a coroutine.
Spawn ==
  /\ Runs(Main) /\ Spare(1) /\ Op
  /\ Start(Nil) /\ Handled(Main)
  /\ UNCHANGED <<sessions, all, fork_pending, waited>>

Finish(c) ==
  /\ Runs(c) /\ parent[c] = Nil
  /\ st' = [st EXCEPT ![c] = "idle"]
  /\ Yield
  /\ UNCHANGED <<phase, sessions, all, forks, ops>>

\* Mutant: every child that ends resumes its waiter.
ChildEnd_each(c) ==
  LET p == parent[c] IN
  /\ Runs(c) /\ p # Nil
  /\ parent' = [parent EXCEPT ![c] = Nil]
  /\ waited' = [waited EXCEPT ![p] = @ - 1]
  /\ st' = [st EXCEPT ![c] = "end", ![p] = "run"]
  /\ Resume(p)
  /\ UNCHANGED <<phase, sessions, all, fork_pending, ops>>

\* A child of a fork_wait ends; the last one resumes the waiter, and after that
\* neither touches the record again, which lay on the waiter's stack.
ChildEnd(c) ==
  LET p == parent[c] IN
  /\ Runs(c) /\ p # Nil
  /\ parent' = [parent EXCEPT ![c] = Nil]
  /\ waited' = [waited EXCEPT ![p] = @ - 1]
  /\ IF waited[p] = 1
     THEN st' = [st EXCEPT ![c] = "end", ![p] = "run"] /\ Resume(p)
     ELSE st' = [st EXCEPT ![c] = "idle"] /\ Yield
  /\ UNCHANGED <<phase, sessions, all, fork_pending, ops>>

End(c) ==
  /\ Top = c /\ st[c] = "end"
  /\ st' = [st EXCEPT ![c] = "idle"]
  /\ Yield
  /\ UNCHANGED <<phase, sessions, all, forks, ops>>

-----------------------------------------------------------------------------
(* wait, wake *)

\* k counts only when the entry is made here.
Wait(c, s, t, k, timeout) ==
  /\ Runs(c) /\ Op
  /\ st' = [st EXCEPT ![c] = "wait"]
  /\ keep' = [keep EXCEPT ![s] = IF @ = Nil THEN k ELSE @]
  /\ waiters' = [waiters EXCEPT ![s] = Append(@, c)]
  /\ tag' = [tag EXCEPT ![c] = t]
  /\ timed' = [timed EXCEPT ![c] = timeout]
  /\ since' = [since EXCEPT ![c] = ops]
  /\ Yield
  /\ UNCHANGED <<phase, due, all, forks>>

\* c stops waiting and runs; its timeout is gone.
WakeUp(c) ==
  /\ st' = [st EXCEPT ![c] = "run"]
  /\ tag' = [tag EXCEPT ![c] = Nil]
  /\ timed' = [timed EXCEPT ![c] = FALSE]
  /\ due' = due \ {c}
  /\ Resume(c)

\* Whether the entry of s goes when its last waiter does.
Shrink(s, list, kept) ==
  /\ waiters' = [waiters EXCEPT ![s] = list]
  /\ keep' = [keep EXCEPT ![s] = IF list = <<>> /\ ~kept THEN Nil ELSE @]

\* A message: only the first waiter counts, and only if it waits for this tag.
Wake(x, s, t) ==
  LET c == Head(waiters[s]) IN
  /\ Runs(x) /\ waiters[s] # <<>> /\ tag[c] = t
  /\ Op /\ Handled(x)
  /\ Shrink(s, Tail(waiters[s]), keep[s])
  /\ WakeUp(c)
  /\ UNCHANGED <<all, forks, since>>

\* A reply, connect or close answer nobody waits for starts a coroutine.
WakeMiss(s, t) ==
  /\ Runs(Main) /\ Op /\ Handled(Main) /\ Spare(1)
  /\ ~(waiters[s] # <<>> /\ tag[Head(waiters[s])] = t)
  /\ Start(Nil)
  /\ UNCHANGED <<sessions, all, fork_pending, waited>>

-----------------------------------------------------------------------------
(* wake_all, unkeep *)

\* The waiters move to a list of this call; those that come later stay out of it.
WakeAll(x, s, spawn) ==
  /\ Runs(x) /\ Op /\ Handled(x) /\ (spawn => x = Main /\ Spare(1))
  /\ keep' = [keep EXCEPT ![s] = IF @ = Nil THEN Nil ELSE FALSE]
  /\ waiters' = [waiters EXCEPT ![s] = <<>>]
  /\ all' = [all EXCEPT ![x] = [on |-> s, list |-> waiters[s], spawn |-> spawn, at |-> ops]]
  /\ UNCHANGED <<run, st, tag, timed, due, since, forks>>

WakeAllNext(x) ==
  LET c == Head(all[x].list) IN
  /\ Top = x /\ InAll(x) /\ all[x].list # <<>>
  /\ all' = [all EXCEPT ![x].list = Tail(@)]
  /\ WakeUp(c)
  /\ UNCHANGED <<phase, keep, waiters, since, forks, ops>>

\* Mutant: whoever waits on the session by then is woken as well.
WakeAllSpawn_again(x) ==
  /\ Top = x /\ InAll(x) /\ all[x].list = <<>>
  /\ all[x].spawn \/ waiters[all[x].on] # <<>>
  /\ IF waiters[all[x].on] # <<>>
     THEN /\ all' = [all EXCEPT ![x].list = waiters[all[x].on]]
          /\ waiters' = [waiters EXCEPT ![all[x].on] = <<>>]
          /\ UNCHANGED <<run, st, parent>>
     ELSE /\ Idle # {} /\ Start(Nil)
          /\ all' = [all EXCEPT ![x].spawn = FALSE]
          /\ UNCHANGED waiters
  /\ UNCHANGED <<phase, keep, tag, timed, due, since, fork_pending, waited, ops>>

\* The close handler itself, after those that waited for the connection.
WakeAllSpawn(x) ==
  /\ Top = x /\ InAll(x) /\ all[x].list = <<>> /\ all[x].spawn
  /\ Idle # {} /\ Start(Nil)
  /\ all' = [all EXCEPT ![x].spawn = FALSE]
  /\ UNCHANGED <<phase, sessions, fork_pending, waited, ops>>

\* Mutant: the entry found at the beginning is deleted.
WakeAllEnd_blind(x) ==
  /\ Top = x /\ InAll(x) /\ all[x].list = <<>> /\ ~all[x].spawn
  /\ keep' = [keep EXCEPT ![all[x].on] = Nil]
  /\ all' = [all EXCEPT ![x] = NoAll]
  /\ UNCHANGED <<run, phase, st, waiters, tag, timed, due, since, forks, ops>>

\* The entry is looked up again: it goes unless somebody waits on it by now.
WakeAllEnd(x) ==
  LET s == all[x].on IN
  /\ Top = x /\ InAll(x) /\ all[x].list = <<>> /\ ~all[x].spawn
  /\ keep' = [keep EXCEPT ![s] = IF waiters[s] = <<>> THEN Nil ELSE @]
  /\ all' = [all EXCEPT ![x] = NoAll]
  /\ UNCHANGED <<run, phase, st, waiters, tag, timed, due, since, forks, ops>>

\* The connection is handed to another task.
Unkeep(x, s) ==
  /\ Runs(x) /\ Op /\ Handled(x) /\ keep[s] # Nil
  /\ keep' = [keep EXCEPT ![s] = IF waiters[s] = <<>> THEN Nil ELSE FALSE]
  /\ UNCHANGED <<run, st, waiters, tag, timed, due, since, all, forks>>

-----------------------------------------------------------------------------
(* expire: one look at the clock, then all whose time is up, first deadline first *)

Expire(D) ==
  /\ Runs(Main) /\ Op
  /\ D # {} /\ D \subseteq {c \in Coros : timed[c]}
  /\ due' = D
  /\ phase' = "expire"
  /\ UNCHANGED <<run, st, keep, waiters, tag, timed, since, all, forks>>

ExpireNext(c) ==
  LET s == CHOOSE s \in Sess : Contains(waiters[s], c)
      i == CHOOSE i \in DOMAIN waiters[s] : waiters[s][i] = c
  IN
  /\ Top = Main /\ phase = "expire" /\ c \in due
  /\ Shrink(s, RemoveAt(waiters[s], i), FALSE)
  /\ WakeUp(c)
  /\ UNCHANGED <<phase, since, all, forks, ops>>

ExpireEnd ==
  /\ Top = Main /\ phase = "expire" /\ due = {}
  /\ phase' = "drain"
  /\ UNCHANGED <<run, st, sessions, all, forks, ops>>

-----------------------------------------------------------------------------
(* fork *)

Fork(c) ==
  /\ Runs(c) /\ Op /\ Spare(1)
  /\ fork_pending' = Append(fork_pending, Nil)
  /\ UNCHANGED <<run, phase, st, sessions, all, waited, parent>>

ForkWait(c, n) ==
  /\ Runs(c) /\ Op /\ Spare(n)
  /\ fork_pending' = fork_pending \o [i \in 1 .. n |-> c]
  /\ waited' = [waited EXCEPT ![c] = n]
  /\ st' = [st EXCEPT ![c] = "fork"]
  /\ Yield
  /\ UNCHANGED <<phase, sessions, all, parent>>

\* Started one after the other until none is left, those forked meanwhile as well.
ForkDrain ==
  /\ Top = Main /\ ~InAll(Main) /\ phase = "drain" /\ fork_pending # <<>>
  /\ Idle # {} /\ Start(Head(fork_pending))
  /\ fork_pending' = Tail(fork_pending)
  /\ UNCHANGED <<phase, sessions, all, waited, ops>>

Dispatched ==
  /\ Top = Main /\ ~InAll(Main) /\ phase = "drain" /\ fork_pending = <<>>
  /\ phase' = "idle"
  /\ UNCHANGED <<run, st, sessions, all, forks, ops>>

-----------------------------------------------------------------------------
Work(c) ==
  \/ Finish(c) \/ ChildEnd(c) \/ End(c) \/ Fork(c)
  \/ \E n \in 1 .. 2 : ForkWait(c, n)
  \/ \E s \in Sess, t \in Tags, k, m \in BOOLEAN : Wait(c, s, t, k, m)

Wakes(x) ==
  \/ \E s \in Sess : \/ \E t \in Tags : Wake(x, s, t)
                     \/ \E b \in BOOLEAN : WakeAll(x, s, b)
                     \/ Unkeep(x, s)
  \/ WakeAllNext(x) \/ WakeAllSpawn(x) \/ WakeAllEnd(x)

Dispatch ==
  \/ Spawn \/ ExpireEnd \/ ForkDrain \/ Dispatched
  \/ \E s \in Sess, t \in Tags : WakeMiss(s, t)
  \/ \E D \in SUBSET Coros : Expire(D)
  \/ \E c \in Coros : ExpireNext(c)

Next == (\E c \in Coros : Work(c)) \/ (\E x \in Contexts : Wakes(x)) \/ Dispatch

Spec == Init /\ [][Next]_vars

-----------------------------------------------------------------------------
\* Every variable stays in its type.
TypeOK ==
  /\ run \in Seq(Contexts) /\ run # <<>> /\ phase \in {"idle", "drain", "expire"}
  /\ st \in [Coros -> {"idle", "run", "wait", "fork", "end"}]
  /\ keep \in [Sess -> BOOLEAN \cup {Nil}] /\ waiters \in [Sess -> Seq(Coros)]
  /\ tag \in [Coros -> Tags \cup {Nil}] /\ timed \in [Coros -> BOOLEAN]
  /\ due \subseteq Coros /\ fork_pending \in Seq(Coros \cup {Nil})
  /\ waited \in [Coros -> Nat] /\ parent \in [Coros -> Coros \cup {Nil}]
  /\ all \in [Contexts -> [on : Sess \cup {Nil}, list : Seq(Coros), spawn : BOOLEAN, at : Nat]]
  /\ since \in [Coros -> Nat] /\ ops \in 0 .. MaxOps

\* A waiting coroutine stands in exactly one list, the entry of one session or the
\* list of one wake_all, so that exactly one event resumes it; a timeout belongs to
\* a waiter whose entry the expiry will find (coro.c:427-431).  An entry without
\* waiters stays only if it is kept for the next request, or until the wake_all that
\* emptied it ends; any other would stay for ever.
Registered ==
  /\ \A c \in Coros :
       LET in_sess == {s \in Sess : Contains(waiters[s], c)}
           in_all == {x \in Contexts : Contains(all[x].list, c)}
       IN  /\ Cardinality(in_sess) + Cardinality(in_all) = (IF st[c] = "wait" THEN 1 ELSE 0)
           /\ \A s \in in_sess : keep[s] # Nil
           /\ timed[c] => st[c] = "wait"
           /\ c \in due => timed[c]
  /\ \A s \in Sess : keep[s] # Nil /\ waiters[s] = <<>> =>
       keep[s] \/ \E x \in Contexts : all[x].on = s

\* fork_wait counts the children of this call that have not ended, and it is over
\* when none is left: no child has a record whose stack frame is gone.
ForkCounted ==
  \A c \in Coros :
    /\ waited[c] = Cardinality({i \in DOMAIN fork_pending : fork_pending[i] = c})
                   + Cardinality({d \in Coros : parent[d] = c})
    /\ st[c] = "fork" <=> waited[c] > 0

\* wake_all wakes those that waited when it was called, not the ones that a woken
\* coroutine adds: a loop that sends and waits again would never let it end.
WakesOldWaiters ==
  \A c \in Coros : st[c] = "wait" /\ st'[c] # "wait" /\ InAll(Top) => since[c] < all[Top].at
OnlyOldWaiters == [][WakesOldWaiters]_vars
=============================================================================
