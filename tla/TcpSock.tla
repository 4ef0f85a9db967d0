--------------------------------- MODULE TcpSock ---------------------------------
(***************************************************************************)
(* One TCP connection on its event thread (lib/event/usock.c, with the     *)
(* loop of uev.c and the commands that name it), the epoll build, level    *)
(* triggered, without TLS.                                                 *)
(*                                                                         *)
(* Everything runs on one thread; what makes it hard is that callbacks     *)
(* call back.  A receive callback sends, the send overflows a batch and is *)
(* made at once, its send callback sends and closes, the close is put off  *)
(* until the outermost callback has returned, and each level then finds    *)
(* the connection changed below it.  stack holds the functions under way:  *)
(* _usk_on_rw_cb at the bottom, then callbacks.                            *)
(*                                                                         *)
(* Where the code may go several ways, an operator returns the set of the  *)
(* states it may leave the connection in.  The object is reused: a life    *)
(* begins when it leaves the pool and has its own skid.                    *)
(***************************************************************************)
EXTENDS Naturals, Sequences, SequencesExt

CONSTANTS
  MaxQueue,  \* MAX_SENDQ_CNT: a longer send queue ends the connection
  MaxIov,    \* MAX_SEND_NIOV: a batch this long is sent at once
  MaxLives,  \* bound: lives of the object
  MaxCmds    \* bound: commands under way

ASSUME TcpAssumption ==
  {MaxQueue, MaxIov, MaxLives, MaxCmds} \subseteq Nat \ {0}

VARIABLES
  tcp,       \* the connection
  stack,     \* the functions under way, the innermost last
  batch,     \* its events fetched from the poller and not dispatched
  batch_of,  \* the skid they were fetched for
  cmds,      \* commands from other threads
  life       \* lives begun (bound)

vars == <<tcp, stack, batch, batch_of, cmds, life>>

Callbacks == {"acp", "conn", "recv", "send"}
Frame(fn, rtn, nested, todo) == [fn |-> fn, rtn |-> rtn, nested |-> nested, todo |-> todo]

\* place: in the pool, in use, in delayed close, in quarantine.  events: what is
\* registered.  buf_s: length of the send queue.  peer: how the other side ended.
\* told and ends: what the user has heard, how often of the close.
Fresh == [place |-> "pool", skid |-> 0, ev_cb |-> "none", events |-> {}, buf_s |-> 0,
          established |-> FALSE, error |-> FALSE, remove |-> FALSE, incb |-> FALSE,
          sending |-> FALSE, flushpend |-> FALSE, linger |-> FALSE, peer |-> "local",
          shut |-> "no", told |-> "no", ends |-> 0]

Init ==
  /\ tcp = Fresh /\ stack = <<>>
  /\ batch = {} /\ batch_of = 0
  /\ cmds = <<>> /\ life = 0

-----------------------------------------------------------------------------
(* Closing *)

Detach(t) == [t EXCEPT !.place = "qtn", !.ev_cb = "none", !.events = {}]
LingerBegin(t) ==
  [t EXCEPT !.place = "linger", !.skid = 0, !.ev_cb = "linger", !.events = {"R"}, !.buf_s = 0]

\* Mutant: closed at once, whatever callback is running.
CloseTcp_inCb(t) ==
  IF t.place # "live" THEN {t}
  ELSE LET u == [t EXCEPT !.flushpend = FALSE, !.ends = @ + 1] IN
       IF ~u.linger THEN {Detach(u)}
       ELSE {LingerBegin(u)} \cup IF "R" \in u.events THEN {} ELSE {Detach(u)}

\* _usk_close_tcp: not twice, not inside a callback of this connection.  A delayed
\* close needs the read event.
CloseTcp(t) ==
  IF t.place # "live" THEN {t}
  ELSE IF t.incb THEN {[t EXCEPT !.error = TRUE, !.remove = TRUE]}
  ELSE LET u == [t EXCEPT !.flushpend = FALSE, !.ends = @ + 1] IN
       IF ~u.linger THEN {Detach(u)}
       ELSE {LingerBegin(u)} \cup IF "R" \in u.events THEN {} ELSE {Detach(u)}

\* What every caller of a failed send or receive does.
Failed(t) == CloseTcp([t EXCEPT !.error = TRUE])

MarkClose(t, why) == IF t.error THEN t ELSE [t EXCEPT !.peer = why]

\* _usk_keep_event: registering may fail, staying registered may not.
KeepEvent(t, ev) ==
  {[t EXCEPT !.events = @ \cup {ev}]} \cup IF ev \in t.events THEN {} ELSE Failed(t)

\* _uev_disconnect: what can still be written is, and the shutdown makes one of the
\* two events come; the close follows with it.
Disconnect(t) ==
  IF t.error THEN {t}
  ELSE LET lingers == t.established /\ t.peer = "local"
           u == [t EXCEPT !.buf_s = 0, !.error = TRUE, !.linger = lingers,
                          !.shut = IF lingers THEN "WR" ELSE "RD"]
       IN {[u EXCEPT !.events = {"R", "W"}]} \cup
          IF u.events = {"R", "W"} THEN {} ELSE CloseTcp(u)

-----------------------------------------------------------------------------
(* Callbacks *)

\* _usk_cb_enter
Enter(t) == [t EXCEPT !.incb = TRUE]

\* _usk_cb_leave: the outermost callback ends; a close asked for meanwhile is made.
Left(t, f) == IF f.nested THEN t ELSE [t EXCEPT !.incb = FALSE]
ClosedInside(t, f) == ~f.nested /\ t.remove
CloseOnLeave(t, f) == CloseTcp([Left(t, f) EXCEPT !.remove = FALSE])

InCallback == stack # <<>> /\ Last(stack).fn \in Callbacks

-----------------------------------------------------------------------------
(* Sending and receiving *)

\* Mutant: whether anything is left is what it was before the callback.
AfterSend_stale(t, rtn) ==
  IF t.error THEN {t}
  ELSE IF rtn # "ok" THEN Failed(MarkClose(t, rtn))
  ELSE IF t.buf_s <= 1 THEN {[t EXCEPT !.events = @ \ {"W"}]}
  ELSE KeepEvent(t, "W")

\* The rest of _usk_tcp_send once the send callback has returned.
AfterSend(t, rtn) ==
  IF t.error THEN {t}
  ELSE IF rtn # "ok" THEN Failed(MarkClose(t, rtn))
  ELSE IF t.buf_s = 0 THEN {[t EXCEPT !.events = @ \ {"W"}]}
  ELSE KeepEvent(t, "W")

\* _usk_tcp_send from t, called on top of below: the kernel takes some of the queue,
\* the last buffer perhaps in part, or fails before its end; the send callback runs
\* if there is one and something was taken.
TcpSend(t, below) ==
  \/ t.error /\ tcp' = t /\ stack' = below
  \/ /\ ~t.error
     /\ \E n \in 0 .. t.buf_s, rtn \in {"ok", "abort"} :
          LET u == [t EXCEPT !.buf_s = @ - n] IN
          /\ rtn = "abort" => u.buf_s > 0
          /\ \/ tcp' \in AfterSend(u, rtn) /\ stack' = below
             \/ /\ t.buf_s > 0
                /\ tcp' = [Enter(u) EXCEPT !.sending = TRUE]
                /\ stack' = Append(below, Frame("send", rtn, t.incb, {}))

\* _uev_add_bufs_send: refused on a closing connection, too early or too much ends
\* it; while a send callback runs the data is only queued; else it waits for the end
\* of the round, or for the batch to be full, or for the write event.
AddBufsSend(below) ==
  LET u == [tcp EXCEPT !.buf_s = @ + 1] IN
  /\ ~tcp.error
  /\ IF ~tcp.established \/ tcp.buf_s >= MaxQueue
     THEN tcp' \in Disconnect(tcp) /\ stack' = below
     ELSE IF ~u.sending /\ u.flushpend /\ u.buf_s >= MaxIov
     THEN TcpSend([u EXCEPT !.flushpend = FALSE], below)
     ELSE /\ tcp' = [u EXCEPT !.flushpend = @ \/ (~u.sending /\ tcp.buf_s = 0)]
          /\ stack' = below

\* The rest of _usk_tcp_recv once the receive callback has returned: the read failed
\* or was the end, the buffer is full, or the read event is kept.
AfterRecv(t, rtn) ==
  IF rtn # "ok" THEN Failed(MarkClose(t, rtn)) ELSE KeepEvent(t, "R")

-----------------------------------------------------------------------------
(* A life begins *)

Born == [Fresh EXCEPT !.place = "live", !.skid = life + 1]
MayBegin == stack = <<>> /\ tcp.place = "pool" /\ life < MaxLives

\* An accepted connection.
AddAcp ==
  /\ MayBegin /\ life' = life + 1
  /\ tcp' = [Born EXCEPT !.ev_cb = "rw", !.established = TRUE, !.events = {"R"},
                         !.incb = TRUE, !.told = "open"]
  /\ stack' = <<Frame("acp", "ok", FALSE, {})>>
  /\ UNCHANGED <<batch, batch_of, cmds>>

\* It cannot be registered: straight back to the pool, without a callback.
AddAcpErr ==
  /\ MayBegin /\ life' = life + 1
  /\ UNCHANGED <<tcp, stack, batch, batch_of, cmds>>

\* _usk_on_connect_cb_err
ConnectErr(t) ==
  /\ tcp' = [Enter(t) EXCEPT !.established = FALSE, !.told = "failed"]
  /\ stack' = <<Frame("conn", "failed", FALSE, {})>>

\* A connection under way: the write event tells its end.
AddConn ==
  /\ MayBegin /\ life' = life + 1
  /\ LET t == [Born EXCEPT !.ev_cb = "connect"] IN
     \/ tcp' = [t EXCEPT !.events = {"W"}] /\ UNCHANGED stack
     \/ ConnectErr(t)
  /\ UNCHANGED <<batch, batch_of, cmds>>

-----------------------------------------------------------------------------
(* The loop: fetch, dispatch, commands, flush *)

\* A hang-up reports both events.
Poll ==
  /\ stack = <<>> /\ batch = {} /\ ~tcp.flushpend /\ tcp.events # {}
  /\ batch' \in (SUBSET tcp.events \ {{}}) \cup {{"R", "W"}}
  /\ batch_of' = tcp.skid
  /\ UNCHANGED <<tcp, stack, cmds, life>>

Dispatch(cb) ==
  /\ stack = <<>> /\ batch # {} /\ tcp.ev_cb = cb
  /\ batch' = {} /\ batch_of' = 0
  /\ UNCHANGED <<cmds, life>>

\* The connection was closed since.
DispatchNone == Dispatch("none") /\ UNCHANGED <<tcp, stack>>

OnConnect ==
  /\ Dispatch("connect")
  /\ LET t == [tcp EXCEPT !.ev_cb = "rw"] IN
     \/ ConnectErr(t)
     \/ /\ ~t.error
        /\ tcp' = [Enter(t) EXCEPT !.established = TRUE, !.events = {"R"}, !.told = "open"]
        /\ stack' = <<Frame("conn", "ok", FALSE, {})>>

\* A closing connection is closed by its next event.
OnRw ==
  /\ Dispatch("rw")
  /\ IF tcp.error THEN tcp' \in CloseTcp(tcp) /\ UNCHANGED stack
     ELSE stack' = <<Frame("rw", "ok", FALSE, batch)>> /\ UNCHANGED tcp

\* Delayed close: what comes is thrown away, until there is an end, an error or too much.
OnLinger == Dispatch("linger") /\ tcp' \in {tcp, Detach(tcp)} /\ UNCHANGED stack

LingerTick ==
  /\ stack = <<>> /\ batch = {} /\ tcp.place = "linger"
  /\ tcp' = Detach(tcp)
  /\ UNCHANGED <<stack, batch, batch_of, cmds, life>>

\* A command acts on the connection its skid names, or on nothing.
Command ==
  /\ stack = <<>> /\ cmds # <<>>
  /\ cmds' = Tail(cmds)
  /\ IF tcp.place = "live" /\ tcp.skid = Head(cmds).skid /\ ~tcp.error
     THEN IF Head(cmds).op = "send" THEN AddBufsSend(<<>>)
          ELSE tcp' \in Disconnect(tcp) /\ UNCHANGED stack
     ELSE UNCHANGED <<tcp, stack>>
  /\ UNCHANGED <<batch, batch_of, life>>

\* _uev_flush_pending, once the round's events are dispatched.
Flush ==
  LET t == [tcp EXCEPT !.flushpend = FALSE] IN
  /\ stack = <<>> /\ batch = {} /\ tcp.flushpend
  /\ IF tcp.error \/ tcp.buf_s = 0 THEN tcp' = t /\ UNCHANGED stack ELSE TcpSend(t, <<>>)
  /\ UNCHANGED <<batch, batch_of, cmds, life>>

\* The quarantine is over.
QtnDrain ==
  /\ stack = <<>> /\ batch = {} /\ tcp.place = "qtn"
  /\ tcp' = Fresh
  /\ UNCHANGED <<stack, batch, batch_of, cmds, life>>

-----------------------------------------------------------------------------
(* Inside _usk_on_rw_cb *)

Top == Last(stack)
InRw == stack # <<>> /\ Top.fn = "rw"
RwLeft(todo) == <<Frame("rw", "ok", FALSE, todo)>>

\* A connection that _usk_tcp_recv lost is closed here; else the write event follows.
RecvEnds(t, rtn, todo) ==
  /\ tcp' \in AfterRecv(t, rtn) \cup Failed(t)
  /\ stack' = IF tcp'.place = "live" THEN RwLeft(todo) ELSE <<>>

Read ==
  /\ InRw /\ "R" \in Top.todo
  /\ \E rtn \in {"ok", "fin", "abort"} :
       \/ RecvEnds(tcp, rtn, Top.todo \ {"R"})
       \/ /\ tcp' = Enter(tcp)
          /\ stack' = Append(RwLeft(Top.todo \ {"R"}), Frame("recv", rtn, FALSE, {}))
  /\ UNCHANGED <<batch, batch_of, cmds, life>>

Write ==
  /\ InRw /\ Top.todo = {"W"}
  /\ TcpSend(tcp, RwLeft({}))
  /\ UNCHANGED <<batch, batch_of, cmds, life>>

RwEnd ==
  /\ InRw /\ Top.todo = {}
  /\ stack' = Front(stack)
  /\ UNCHANGED <<tcp, batch, batch_of, cmds, life>>

-----------------------------------------------------------------------------
(* Inside a callback, and its return *)

UserSend == InCallback /\ AddBufsSend(stack) /\ UNCHANGED <<batch, batch_of, cmds, life>>

UserClose ==
  /\ InCallback /\ ~tcp.error
  /\ tcp' \in Disconnect(tcp)
  /\ UNCHANGED <<stack, batch, batch_of, cmds, life>>

Returns(fn) == stack # <<>> /\ Top.fn = fn /\ UNCHANGED <<batch, batch_of, cmds, life>>

\* accept and connect callbacks may refuse the connection.
AcpReturn ==
  /\ Returns("acp")
  /\ stack' = <<>>
  /\ tcp' \in IF ClosedInside(tcp, Top) THEN CloseOnLeave(tcp, Top)
              ELSE {Left(tcp, Top)} \cup Disconnect(Left(tcp, Top))

\* After a connection that failed the object goes to quarantine, unless the callback
\* has closed it.
ConnReturn ==
  /\ Returns("conn")
  /\ stack' = <<>>
  /\ tcp' \in IF ClosedInside(tcp, Top) THEN CloseOnLeave(tcp, Top)
              ELSE IF Top.rtn = "failed" THEN {Detach(Left(tcp, Top))}
              ELSE {Left(tcp, Top)} \cup Disconnect(Left(tcp, Top))

RecvReturn ==
  /\ Returns("recv")
  /\ IF ClosedInside(tcp, Top) THEN tcp' \in CloseOnLeave(tcp, Top) /\ stack' = <<>>
     ELSE RecvEnds(Left(tcp, Top), Top.rtn, Last(Front(stack)).todo)

SendReturn ==
  LET t == [tcp EXCEPT !.sending = FALSE] IN
  /\ Returns("send")
  /\ stack' = Front(stack)
  /\ tcp' \in IF ClosedInside(t, Top) THEN CloseOnLeave(t, Top) ELSE AfterSend(Left(t, Top), Top.rtn)

-----------------------------------------------------------------------------
\* Another thread that knows a connection sends or closes, also long after its end.
Post(op, k) ==
  /\ k <= life /\ Len(cmds) < MaxCmds
  /\ cmds' = Append(cmds, [op |-> op, skid |-> k])
  /\ UNCHANGED <<tcp, stack, batch, batch_of, life>>

Next ==
  \/ AddAcp \/ AddAcpErr \/ AddConn
  \/ Poll \/ DispatchNone \/ OnConnect \/ OnRw \/ OnLinger \/ LingerTick \/ Command \/ Flush \/ QtnDrain
  \/ Read \/ Write \/ RwEnd
  \/ UserSend \/ UserClose \/ AcpReturn \/ ConnReturn \/ RecvReturn \/ SendReturn
  \/ \E op \in {"send", "close"}, k \in 1 .. MaxLives : Post(op, k)

Spec == Init /\ [][Next]_vars

-----------------------------------------------------------------------------
Conns == [place : {"pool", "live", "linger", "qtn"}, skid : 0 .. MaxLives,
          ev_cb : {"none", "rw", "connect", "linger"}, events : SUBSET {"R", "W"},
          buf_s : 0 .. MaxQueue, established : BOOLEAN, error : BOOLEAN, remove : BOOLEAN,
          incb : BOOLEAN, sending : BOOLEAN, flushpend : BOOLEAN, linger : BOOLEAN,
          peer : {"local", "fin", "abort"}, shut : {"no", "RD", "WR"},
          told : {"no", "open", "failed"}, ends : Nat]
Frames == [fn : Callbacks \cup {"rw"}, rtn : {"ok", "fin", "abort", "failed"},
           nested : BOOLEAN, todo : SUBSET {"R", "W"}]

\* Every variable stays in its type.
TypeOK ==
  /\ tcp \in Conns /\ stack \in Seq(Frames)
  /\ batch \subseteq {"R", "W"} /\ batch_of \in 0 .. MaxLives
  /\ cmds \in Seq([op : {"send", "close"}, skid : 1 .. MaxLives]) /\ Len(cmds) <= MaxCmds
  /\ life \in 0 .. MaxLives

\* The user hears of the close once, after every other callback of the connection
\* has returned, and of every connection it was told of; what was fetched for one
\* life of the object never reaches the next, and only a connection in use waits for
\* the flush (evpub.h:82-87, usock.c:346-349).
OneFarewell ==
  /\ tcp.ends <= 1
  /\ tcp.ends = 1 => ~InCallback
  /\ tcp.place \in {"linger", "qtn"} => tcp.ends = 1 \/ tcp.told = "failed"
  /\ batch # {} /\ tcp.ev_cb \in {"rw", "connect"} => batch_of = tcp.skid
  /\ tcp.flushpend => tcp.place = "live"

\* Between two rounds a connection in use waits for an event that will come: for
\* reading always, for writing while data is queued or it is not yet connected; once
\* it is being closed, for the event its shutdown causes (usock.c:400-406, 640-650).
NotStranded ==
  stack = <<>> /\ batch = {} /\ tcp.place = "live" /\ ~tcp.flushpend =>
    IF tcp.error THEN "W" \in tcp.events \/ (tcp.shut = "RD" /\ "R" \in tcp.events)
    ELSE /\ tcp.ev_cb = "connect" => "W" \in tcp.events
         /\ tcp.ev_cb = "rw" => "R" \in tcp.events
         /\ tcp.buf_s > 0 => "W" \in tcp.events
=============================================================================
