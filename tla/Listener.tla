-------------------------------- MODULE Listener --------------------------------
(***************************************************************************)
(* A listener shared by the event threads (ev_listen, ev_unlisten and the  *)
(* accept path of lib/event/usock.c, its commands in lib/event/cmds.c, and *)
(* ev_free in lib/event/uev.c).                                            *)
(*                                                                         *)
(* One object holds a listening socket for each of some event threads      *)
(* ("watchers").  It is counted: one for each of these sockets, one for    *)
(* each accepted connection on its way to another thread, one for the      *)
(* ev_unlisten under way.  At zero it is not freed but put in quarantine,  *)
(* because events already fetched and commands already queued still name   *)
(* it.  The quarantine lasts QTN_MS; what the code expects of that time is *)
(* that every watcher finishes the round it is in and the commands that    *)
(* were queued, and this is how it is modelled (busy, ahead).              *)
(***************************************************************************)
EXTENDS Naturals, Sequences, FiniteSets

CONSTANTS
  Watchers,   \* event threads
  Zero,       \* watcher 0, which ends an ev_unlisten
  Users,      \* other threads that listen and unlisten
  Listeners,
  MaxConns,   \* bound: connections accepted
  Nil

ListenerAssumption ==
  /\ IsFiniteSet(Watchers) /\ Zero \in Watchers /\ Watchers \cap Users = {}
  /\ Nil \notin Listeners /\ MaxConns \in Nat

Actors == Watchers \cup Users
Phases == {"loop", "got", "cb", "added"}
Ops == {"listen", "hold", "unlisten"}
Stages == {"no", "join", "done"}

VARIABLES
  mem,         \* listener -> "new", "live" or "freed"
  ref, remove, \* listener -> its count, its flag
  on,          \* listener -> the watchers it has a socket for (nlsn, lsnsock)
  fd,          \* listener -> those whose socket is open
  reg,         \* listener -> those whose socket is in the poller
  ev_cb,       \* listener -> those where its accept callback is set
  backoff,     \* listener -> those where accepting pauses (backoff_tick)
  arrlsn,      \* the listeners an id finds
  queue,       \* watcher -> its commands
  batch,       \* watcher -> listeners whose event it has fetched and not dispatched
  accept,      \* watcher -> the accept or CMD_ADDACP it is in
  call,        \* actor -> the ev_listen or ev_unlisten it is in
  qtn,         \* watcher -> its quarantine
  busy, ahead, \* listener -> the watchers, and their commands, it is in quarantine for
  stop, exited, flushed, stage,  \* ev_free
  conns        \* connections accepted (bound)

lsnsock == <<fd, reg, ev_cb, backoff>>
grace == <<qtn, busy, ahead>>
ending == <<stop, exited, flushed, stage>>
vars == <<mem, ref, remove, on, lsnsock, arrlsn, queue, batch, accept, call, grace, ending,
          conns>>

NoAccept == [lsn |-> Nil, at |-> "none"]
NoCall == [op |-> "none", lsn |-> Nil, todo |-> {}]
Cmd(c, l) == [cmd |-> c, lsn |-> l]
Commands == [cmd : {"LSN", "UNLSN", "LSN_UNREF", "ADDACP"}, lsn : Listeners] \cup {Cmd("STOP", Nil)}

Init ==
  /\ mem = [l \in Listeners |-> "new"]
  /\ ref = [l \in Listeners |-> 0] /\ remove = [l \in Listeners |-> FALSE]
  /\ on = [l \in Listeners |-> {}] /\ fd = [l \in Listeners |-> {}]
  /\ reg = [l \in Listeners |-> {}] /\ ev_cb = [l \in Listeners |-> {}]
  /\ backoff = [l \in Listeners |-> {}]
  /\ arrlsn = {}
  /\ queue = [w \in Watchers |-> <<>>] /\ batch = [w \in Watchers |-> {}]
  /\ accept = [w \in Watchers |-> NoAccept] /\ call = [a \in Actors |-> NoCall]
  /\ qtn = [w \in Watchers |-> {}]
  /\ busy = [l \in Listeners |-> {}]
  /\ ahead = [l \in Listeners |-> [w \in Watchers |-> 0]]
  /\ stop = [w \in Watchers |-> FALSE] /\ exited = {} /\ flushed = {} /\ stage = "no"
  /\ conns = 0

Send(w, c) == queue' = [queue EXCEPT ![w] = Append(@, c)]

\* The watcher is in its loop: in no accept and in no call.
InLoop(w) == w \notin exited /\ accept[w] = NoAccept /\ call[w] = NoCall

\* Where a thread may call ev_listen and ev_unlisten: on a watcher, in the callback
\* of some connection or in that of the connection just accepted.
MayCall(a) ==
  /\ call[a] = NoCall
  /\ IF a \in Watchers THEN a \notin exited /\ accept[a].at \in {"none", "cb", "added"}
     ELSE stage = "no"

-----------------------------------------------------------------------------
(* The count *)

\* The reference goes; the last one puts the listener in quarantine.  Every watcher
\* that has not exited has a round to finish, and the commands queued for it.
\* (left: what the other quarantines still have ahead.)
Unref(w, l, left) ==
  /\ ref' = [ref EXCEPT ![l] = @ - 1]
  /\ IF ref[l] = 1
     THEN /\ qtn' = [qtn EXCEPT ![w] = @ \cup {l}]
          /\ busy' = [busy EXCEPT ![l] = Watchers \ exited]
          /\ ahead' = [left EXCEPT ![l] = [v \in Watchers |-> Len(queue'[v])]]
     ELSE ahead' = left /\ UNCHANGED <<qtn, busy>>

\* The watcher closes its socket and forgets the listener.
RemoveLsn(w, l, left) ==
  /\ fd' = [fd EXCEPT ![l] = @ \ {w}]
  /\ reg' = [reg EXCEPT ![l] = @ \ {w}]
  /\ backoff' = [backoff EXCEPT ![l] = @ \ {w}]
  /\ ev_cb' = [ev_cb EXCEPT ![l] = @ \ {w}]
  /\ Unref(w, l, left)

\* Its socket enters the poller, or is closed; an ev_unlisten made on this thread
\* may have closed it before.
AddLsn(w, l) ==
  /\ \/ w \in fd[l] /\ reg' = [reg EXCEPT ![l] = @ \cup {w}] /\ UNCHANGED fd
     \/ w \in fd[l] /\ fd' = [fd EXCEPT ![l] = @ \ {w}] /\ UNCHANGED reg
     \/ w \notin fd[l] /\ UNCHANGED <<fd, reg>>
  /\ UNCHANGED <<ev_cb, backoff>>

-----------------------------------------------------------------------------
(* ev_listen *)

ListenStart(a, l, ws) ==
  /\ MayCall(a) /\ stage = "no" /\ mem[l] = "new"
  /\ mem' = [mem EXCEPT ![l] = "live"]
  /\ on' = [on EXCEPT ![l] = ws]
  /\ fd' = [fd EXCEPT ![l] = ws] /\ ev_cb' = [ev_cb EXCEPT ![l] = ws]
  /\ ref' = [ref EXCEPT ![l] = Cardinality(ws)]
  /\ call' = [call EXCEPT ![a] = [op |-> "listen", lsn |-> l, todo |-> ws]]
  /\ UNCHANGED <<remove, reg, backoff, arrlsn, queue, batch, accept, grace, ending, conns>>

\* On the thread itself the socket is added at once.
ListenSend(a, w) ==
  LET l == call[a].lsn IN
  /\ call[a].op = "listen" /\ w \in call[a].todo
  /\ call' = [call EXCEPT ![a].todo = @ \ {w}]
  /\ IF a = w THEN AddLsn(w, l) /\ UNCHANGED queue
     ELSE Send(w, Cmd("LSN", l)) /\ UNCHANGED lsnsock
  /\ UNCHANGED <<mem, ref, remove, on, arrlsn, batch, accept, grace, ending, conns>>

ListenEnd(a) ==
  /\ call[a].op = "listen" /\ call[a].todo = {}
  /\ arrlsn' = arrlsn \cup {call[a].lsn}
  /\ call' = [call EXCEPT ![a] = NoCall]
  /\ UNCHANGED <<mem, ref, remove, on, lsnsock, queue, batch, accept, grace, ending, conns>>

-----------------------------------------------------------------------------
(* ev_unlisten *)

\* Under the lock; a second caller finds nothing.
UnlistenTake(a, l) ==
  /\ MayCall(a) /\ l \in arrlsn
  /\ arrlsn' = arrlsn \ {l}
  /\ call' = [call EXCEPT ![a] = [op |-> "hold", lsn |-> l, todo |-> {}]]
  /\ UNCHANGED <<mem, ref, remove, on, lsnsock, queue, batch, accept, grace, ending, conns>>

\* Mutant: the caller takes no reference of its own.
UnlistenMark_bare(a) ==
  LET l == call[a].lsn IN
  /\ call[a].op = "hold"
  /\ remove' = [remove EXCEPT ![l] = TRUE]
  /\ call' = [call EXCEPT ![a].op = "unlisten", ![a].todo = on[l]]
  /\ UNCHANGED <<mem, ref, on, lsnsock, arrlsn, queue, batch, accept, grace, ending, conns>>

UnlistenMark(a) ==
  LET l == call[a].lsn IN
  /\ call[a].op = "hold"
  /\ ref' = [ref EXCEPT ![l] = @ + 1]
  /\ remove' = [remove EXCEPT ![l] = TRUE]
  /\ call' = [call EXCEPT ![a].op = "unlisten", ![a].todo = on[l]]
  /\ UNCHANGED <<mem, on, lsnsock, arrlsn, queue, batch, accept, grace, ending, conns>>

\* On the thread itself the socket is removed at once, in the midst of the accept
\* loop that may run below.
UnlistenSend(a, w) ==
  LET l == call[a].lsn IN
  /\ call[a].op = "unlisten" /\ w \in call[a].todo
  /\ call' = [call EXCEPT ![a].todo = @ \ {w}]
  /\ IF a = w THEN UNCHANGED queue /\ RemoveLsn(w, l, ahead)
     ELSE Send(w, Cmd("UNLSN", l)) /\ UNCHANGED <<lsnsock, ref, grace>>
  /\ UNCHANGED <<mem, remove, on, arrlsn, batch, accept, ending, conns>>

\* The caller's own reference is given up by watcher 0.
UnlistenEnd(a) ==
  LET l == call[a].lsn IN
  /\ call[a].op = "unlisten" /\ call[a].todo = {}
  /\ call' = [call EXCEPT ![a] = NoCall]
  /\ IF a = Zero THEN UNCHANGED queue /\ Unref(Zero, l, ahead)
     ELSE Send(Zero, Cmd("LSN_UNREF", l)) /\ UNCHANGED <<ref, grace>>
  /\ UNCHANGED <<mem, remove, on, lsnsock, arrlsn, batch, accept, ending, conns>>

-----------------------------------------------------------------------------
(* The accept callback *)

\* The poller returns some of the sockets that are ready.
Poll(w) ==
  /\ InLoop(w) /\ batch[w] = {} /\ ~stop[w]
  /\ \E ls \in SUBSET {l \in Listeners : w \in reg[l]} : batch' = [batch EXCEPT ![w] = ls]
  /\ busy' = [l \in Listeners |-> busy[l] \ {w}]
  /\ UNCHANGED <<mem, ref, remove, on, lsnsock, arrlsn, queue, accept, call, qtn, ahead, ending,
                 conns>>

Dispatch(w, l) ==
  /\ InLoop(w) /\ l \in batch[w]
  /\ batch' = [batch EXCEPT ![w] = @ \ {l}]
  /\ accept' = IF w \in ev_cb[l] THEN [accept EXCEPT ![w] = [lsn |-> l, at |-> "loop"]] ELSE accept
  /\ UNCHANGED <<mem, ref, remove, on, lsnsock, arrlsn, queue, call, grace, ending, conns>>

Accepting(w, at) == accept[w].at = at /\ call[w] = NoCall
AcceptTo(w, at) == accept' = [accept EXCEPT ![w].at = at]

AcceptOne(w) ==
  /\ Accepting(w, "loop") /\ ~remove[accept[w].lsn] /\ conns < MaxConns
  /\ conns' = conns + 1
  /\ AcceptTo(w, "got")
  /\ UNCHANGED <<mem, ref, remove, on, lsnsock, arrlsn, queue, batch, call, grace, ending>>

\* The connection stays on this thread: its callback runs inside the loop.
AcceptOwn(w) ==
  /\ Accepting(w, "got") /\ AcceptTo(w, "cb")
  /\ UNCHANGED <<mem, ref, remove, on, lsnsock, arrlsn, queue, batch, call, grace, ending, conns>>

AcceptBack(w) ==
  /\ Accepting(w, "cb") /\ AcceptTo(w, "loop")
  /\ UNCHANGED <<mem, ref, remove, on, lsnsock, arrlsn, queue, batch, call, grace, ending, conns>>

\* The connection goes to another thread, with a reference (where the kernel does
\* not spread the connections itself).
AcceptGive(w, to) ==
  LET l == accept[w].lsn IN
  /\ Accepting(w, "got") /\ to # w
  /\ ref' = [ref EXCEPT ![l] = @ + 1]
  /\ Send(to, Cmd("ADDACP", l))
  /\ AcceptTo(w, "loop")
  /\ UNCHANGED <<mem, remove, on, lsnsock, arrlsn, batch, call, grace, ending, conns>>

\* Nothing more to accept, or the listener is being removed.
AcceptEnd(w) ==
  /\ Accepting(w, "loop")
  /\ accept' = [accept EXCEPT ![w] = NoAccept]
  /\ UNCHANGED <<mem, ref, remove, on, lsnsock, arrlsn, queue, batch, call, grace, ending, conns>>

\* accept fails for want of descriptors or memory: the socket pauses.
AcceptPause(w) ==
  LET l == accept[w].lsn IN
  /\ Accepting(w, "loop") /\ ~remove[l]
  /\ reg' = [reg EXCEPT ![l] = @ \ {w}]
  /\ backoff' = [backoff EXCEPT ![l] = @ \cup {w}]
  /\ accept' = [accept EXCEPT ![w] = NoAccept]
  /\ UNCHANGED <<mem, ref, remove, on, fd, ev_cb, arrlsn, queue, batch, call, grace, ending, conns>>

\* The socket cannot be armed again, where the poller forgets it after an event: it
\* is given up, its reference stays.
AcceptLost(w) ==
  LET l == accept[w].lsn IN
  /\ Accepting(w, "loop") /\ ~remove[l]
  /\ fd' = [fd EXCEPT ![l] = @ \ {w}]
  /\ reg' = [reg EXCEPT ![l] = @ \ {w}]
  /\ ev_cb' = [ev_cb EXCEPT ![l] = @ \ {w}]
  /\ accept' = [accept EXCEPT ![w] = NoAccept]
  /\ UNCHANGED <<mem, ref, remove, on, backoff, arrlsn, queue, batch, call, grace, ending, conns>>

\* The tick: the socket is armed again.
BackoffOver(w, l) ==
  /\ InLoop(w) /\ w \in backoff[l]
  /\ backoff' = [backoff EXCEPT ![l] = @ \ {w}]
  /\ reg' = [reg EXCEPT ![l] = @ \cup {w}]
  /\ UNCHANGED <<mem, ref, remove, on, fd, ev_cb, arrlsn, queue, batch, accept, call, grace, ending,
                 conns>>

-----------------------------------------------------------------------------
(* Commands *)

\* The first command of the watcher, and one less ahead of the quarantines.
Takes(w, c) ==
  /\ InLoop(w) /\ queue[w] # <<>> /\ Head(queue[w]).cmd = c
  /\ queue' = [queue EXCEPT ![w] = Tail(@)]

OneLess(w) == [l \in Listeners |-> [ahead[l] EXCEPT ![w] = IF @ = 0 THEN 0 ELSE @ - 1]]

CmdLsn(w) ==
  /\ Takes(w, "LSN") /\ AddLsn(w, Head(queue[w]).lsn) /\ ahead' = OneLess(w)
  /\ UNCHANGED <<mem, ref, remove, on, arrlsn, batch, accept, call, qtn, busy, ending, conns>>

CmdUnlsn(w) ==
  /\ Takes(w, "UNLSN") /\ RemoveLsn(w, Head(queue[w]).lsn, OneLess(w))
  /\ UNCHANGED <<mem, remove, on, arrlsn, batch, accept, call, ending, conns>>

CmdLsnUnref(w) ==
  /\ Takes(w, "LSN_UNREF") /\ Unref(w, Head(queue[w]).lsn, OneLess(w))
  /\ UNCHANGED <<mem, remove, on, lsnsock, arrlsn, batch, accept, call, ending, conns>>

\* The connection is added here, its callback runs, then the reference goes.
CmdAddAcp(w) ==
  /\ Takes(w, "ADDACP") /\ ahead' = OneLess(w)
  /\ accept' = [accept EXCEPT ![w] = [lsn |-> Head(queue[w]).lsn, at |-> "added"]]
  /\ UNCHANGED <<mem, ref, remove, on, lsnsock, arrlsn, batch, call, qtn, busy, ending, conns>>

AddedEnd(w) ==
  /\ Accepting(w, "added")
  /\ accept' = [accept EXCEPT ![w] = NoAccept]
  /\ UNCHANGED queue /\ Unref(w, accept[w].lsn, ahead)
  /\ UNCHANGED <<mem, remove, on, lsnsock, arrlsn, batch, call, ending, conns>>

CmdStop(w) ==
  /\ Takes(w, "STOP") /\ ahead' = OneLess(w)
  /\ stop' = [stop EXCEPT ![w] = TRUE]
  /\ UNCHANGED <<mem, ref, remove, on, lsnsock, arrlsn, batch, accept, call, qtn, busy, exited,
                 flushed, stage, conns>>

-----------------------------------------------------------------------------
(* The end of the quarantine, and ev_free *)

\* QTN_MS has passed.
Release(w, l) ==
  /\ InLoop(w) /\ batch[w] = {} /\ l \in qtn[w]
  /\ busy[l] = {} /\ \A v \in Watchers \ exited : ahead[l][v] = 0
  /\ qtn' = [qtn EXCEPT ![w] = @ \ {l}]
  /\ mem' = [mem EXCEPT ![l] = "freed"]
  /\ UNCHANGED <<ref, remove, on, lsnsock, arrlsn, queue, batch, accept, call, busy, ahead, ending,
                 conns>>

\* The tasks are gone by now: only the watchers' own callbacks still call.
FreeStart ==
  /\ stage = "no" /\ \A u \in Users : call[u] = NoCall
  /\ stage' = "join"
  /\ queue' = [w \in Watchers |-> Append(queue[w], Cmd("STOP", Nil))]
  /\ UNCHANGED <<mem, ref, remove, on, lsnsock, arrlsn, batch, accept, call, grace, stop, exited,
                 flushed, conns>>

\* The watcher ends after the round in which it was told to stop.
Exit(w) ==
  /\ InLoop(w) /\ batch[w] = {} /\ stop[w]
  /\ exited' = exited \cup {w}
  /\ busy' = [l \in Listeners |-> busy[l] \ {w}]
  /\ UNCHANGED <<mem, ref, remove, on, lsnsock, arrlsn, queue, batch, accept, call, qtn, ahead, stop,
                 flushed, stage, conns>>

\* A command left behind gives its reference back; without threads the last one
\* frees at once.
Drain(w) ==
  LET c == Head(queue[w]) IN
  /\ exited = Watchers /\ queue[w] # <<>>
  /\ queue' = [queue EXCEPT ![w] = Tail(@)]
  /\ IF c.cmd \in {"ADDACP", "UNLSN", "LSN_UNREF"}
     THEN /\ ref' = [ref EXCEPT ![c.lsn] = @ - 1]
          /\ mem' = IF ref[c.lsn] = 1 THEN [mem EXCEPT ![c.lsn] = "freed"] ELSE mem
     ELSE UNCHANGED <<ref, mem>>
  /\ UNCHANGED <<remove, on, lsnsock, arrlsn, batch, accept, call, grace, ending, conns>>

Flush(w) ==
  /\ exited = Watchers /\ w \notin flushed /\ queue[w] = <<>>
  /\ flushed' = flushed \cup {w}
  /\ mem' = [l \in Listeners |-> IF l \in qtn[w] THEN "freed" ELSE mem[l]]
  /\ qtn' = [qtn EXCEPT ![w] = {}]
  /\ UNCHANGED <<ref, remove, on, lsnsock, arrlsn, queue, batch, accept, call, busy, ahead, stop,
                 exited, stage, conns>>

\* Those nobody unlistened.
FreeAll ==
  /\ flushed = Watchers /\ stage = "join"
  /\ mem' = [l \in Listeners |-> IF l \in arrlsn THEN "freed" ELSE mem[l]]
  /\ arrlsn' = {}
  /\ stage' = "done"
  /\ UNCHANGED <<ref, remove, on, lsnsock, queue, batch, accept, call, grace, stop, exited, flushed,
                 conns>>

-----------------------------------------------------------------------------
Listen(a) ==
  \/ \E l \in Listeners, ws \in (SUBSET Watchers) \ {{}} : ListenStart(a, l, ws)
  \/ \E w \in Watchers : ListenSend(a, w)
  \/ ListenEnd(a)
Unlisten(a) ==
  \/ \E l \in Listeners : UnlistenTake(a, l)
  \/ \E w \in Watchers : UnlistenSend(a, w)
  \/ UnlistenMark(a) \/ UnlistenEnd(a)
Loop(w) ==
  \/ Poll(w) \/ \E l \in Listeners : Dispatch(w, l) \/ BackoffOver(w, l) \/ Release(w, l)
Accept(w) ==
  \/ AcceptOne(w) \/ AcceptOwn(w) \/ AcceptBack(w) \/ AcceptEnd(w) \/ AcceptPause(w) \/ AcceptLost(w)
  \/ \E to \in Watchers : AcceptGive(w, to)
Commanded(w) ==
  \/ CmdLsn(w) \/ CmdUnlsn(w) \/ CmdLsnUnref(w) \/ CmdAddAcp(w) \/ AddedEnd(w) \/ CmdStop(w)
Free == FreeStart \/ FreeAll \/ \E w \in Watchers : Exit(w) \/ Drain(w) \/ Flush(w)

Next ==
  \/ \E a \in Actors : Listen(a) \/ Unlisten(a)
  \/ \E w \in Watchers : Loop(w) \/ Accept(w) \/ Commanded(w)
  \/ Free

Spec == Init /\ [][Next]_vars

-----------------------------------------------------------------------------
\* Every variable stays in its type.
TypeOK ==
  /\ mem \in [Listeners -> {"new", "live", "freed"}]
  /\ ref \in [Listeners -> Nat] /\ remove \in [Listeners -> BOOLEAN]
  /\ on \in [Listeners -> SUBSET Watchers] /\ busy \in [Listeners -> SUBSET Watchers]
  /\ fd \in [Listeners -> SUBSET Watchers] /\ reg \in [Listeners -> SUBSET Watchers]
  /\ ev_cb \in [Listeners -> SUBSET Watchers] /\ backoff \in [Listeners -> SUBSET Watchers]
  /\ arrlsn \subseteq Listeners
  /\ queue \in [Watchers -> Seq(Commands)]
  /\ batch \in [Watchers -> SUBSET Listeners] /\ qtn \in [Watchers -> SUBSET Listeners]
  /\ accept \in [Watchers -> {NoAccept} \cup [lsn : Listeners, at : Phases]]
  /\ call \in [Actors -> {NoCall} \cup [op : Ops, lsn : Listeners, todo : SUBSET Watchers]]
  /\ ahead \in [Listeners -> [Watchers -> Nat]]
  /\ stop \in [Watchers -> BOOLEAN] /\ exited \subseteq Watchers /\ flushed \subseteq exited
  /\ stage \in Stages /\ conns \in 0 .. MaxConns

\* What a watcher still reads the listener through: an event to come or fetched, a
\* tick, an accept, a command it has not handled.
ReadBy(w, l) ==
  \/ w \notin exited /\ (w \in reg[l] \/ l \in batch[w] \/ w \in backoff[l])
  \/ accept[w].lsn = l \/ l \in qtn[w]
  \/ \E i \in DOMAIN queue[w] :
       queue[w][i].lsn = l /\ (w \notin exited \/ queue[w][i].cmd # "LSN")

\* A listener lives exactly as long as something still leads to it: its id, a call
\* under way, a watcher.  So it is never used after it was freed nor freed twice,
\* and none is left when ev_free is done (usock.c:22, 1406, 1435).
AliveWhileReached ==
  \A l \in Listeners :
    mem[l] = "live" <=>
      l \in arrlsn \/ (\E a \in Actors : call[a].lsn = l) \/ (\E w \in Watchers : ReadBy(w, l))
=============================================================================
