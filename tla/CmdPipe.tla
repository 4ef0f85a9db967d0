------------------------------- MODULE CmdPipe -------------------------------
(***************************************************************************)
(* The command channel of one event thread (lib/event/cmds.c, uev.c,       *)
(* evpub.c): any thread queues a command and wakes the event thread by one *)
(* byte in a pipe, gated by wake_pending; the event thread drains the      *)
(* queue, runs what was deferred, and goes back to its wait.  ev_free      *)
(* stops it by a command of the same channel and frees what is left.       *)
(*                                                                         *)
(* The queue is a ClaimQueue.  A wait reports a write to the pipe once, as *)
(* in a build with TRIGGER_ET (uev.c:191-193).  By default epoll is level- *)
(* triggered and reports a byte until it is read (os.h:149-152); that is   *)
(* the same here, since a wait finds a byte exactly when its write has not *)
(* been reported (TriggersAgree, proved in CmdPipeProofs).                 *)
(***************************************************************************)
EXTENDS Integers, Sequences, FiniteSets, Functions

CONSTANTS
  Senders,   \* threads that send commands: workers and other event threads
  Main,      \* the thread that calls ev_free
  MaxCmd,    \* bound: sender -> commands it sends
  MaxRead,   \* commands taken from the queue at once (CMD_MAX_NREAD)
  Again      \* a callback of the event thread itself that defers itself again

Kinds == {"now", "defer"}  \* run when drained, or CMD_DEFER_EXEC
Cmds == UNION {{s} \X (1 .. MaxCmd[s]) \X Kinds : s \in Senders}
Stop == <<Main, 1, "stop">>
Threads == Senders \cup {Main}

ASSUME CmdPipeAssumption ==
  /\ MaxCmd \in [Senders -> Nat] /\ MaxRead \in Nat \ {0}
  /\ Main \notin Senders /\ Again \notin Cmds \cup {Stop}

VARIABLES
  qu,           \* commands, in the order their cells were claimed: [cmd, ready]
  wake_pending, \* a wake byte is on its way or in the pipe
  pipe,         \* bytes in the pipe
  edge,         \* the wait has a write to report
  stop,         \* watcher->stop
  stopping,     \* ev->stopping
  pc,           \* sending thread -> where it is
  wpc,          \* the event thread's place
  batch,        \* commands it has taken and not run yet
  defer_execs,  \* callbacks deferred to the end of the round
  pass, left,   \* pass of the drain, callbacks left in it
  sent,         \* sender -> commands queued so far
  ran, freed    \* commands run, and freed unrun (history)

vars == <<qu, wake_pending, pipe, edge, stop, stopping, pc, wpc, batch, defer_execs,
          pass, left, sent, ran, freed>>
channel == <<qu, wake_pending, pipe, edge>>
flags == <<stop, stopping>>
loop == <<wpc, batch, defer_execs, pass, left>>
history == <<sent, ran, freed>>

Goto(th, l) == pc' = [pc EXCEPT ![th] = l]

Init ==
  /\ qu = <<>> /\ wake_pending = 0 /\ pipe = 0 /\ edge = FALSE
  /\ stop = FALSE /\ stopping = FALSE
  /\ pc = [th \in Threads |-> "idle"]
  /\ wpc = "wait" /\ batch = <<>> /\ defer_execs = <<>> /\ pass = 0 /\ left = 0
  /\ sent = [s \in Threads |-> 0] /\ ran = {} /\ freed = {}

-----------------------------------------------------------------------------
(* _send_cmd *)

Claim(th, c) ==
  /\ qu' = Append(qu, [cmd |-> c, ready |-> FALSE])
  /\ sent' = [sent EXCEPT ![th] = @ + 1]
  /\ Goto(th, "publish")
  /\ UNCHANGED <<wake_pending, pipe, edge, flags, loop, ran, freed>>

Send(s, k) ==
  /\ pc[s] = "idle" /\ sent[s] < MaxCmd[s]
  /\ Claim(s, <<s, sent[s] + 1, k>>)

SendPublish(th) ==
  /\ pc[th] = "publish"
  /\ qu' = [i \in DOMAIN qu |-> IF qu[i].cmd[1] = th THEN [qu[i] EXCEPT !.ready = TRUE] ELSE qu[i]]
  /\ Goto(th, "cas")
  /\ UNCHANGED <<wake_pending, pipe, edge, flags, loop, history>>

\* Where a sender goes when its command is queued and somebody has been woken.
Sent(th) == IF th = Main THEN "join" ELSE "idle"

WakeCas(th) ==
  /\ pc[th] = "cas"
  /\ wake_pending' = 1
  /\ Goto(th, IF wake_pending = 0 THEN "write" ELSE Sent(th))
  /\ UNCHANGED <<qu, pipe, edge, flags, loop, history>>

\* Nothing is written to a thread that has stopped.
WakeStopped(th) ==
  /\ pc[th] = "write" /\ stop
  /\ Goto(th, Sent(th))
  /\ UNCHANGED <<channel, flags, loop, history>>

WakeCheck(th) ==
  /\ pc[th] = "write" /\ ~stop
  /\ Goto(th, "write2")
  /\ UNCHANGED <<channel, flags, loop, history>>

WakeWrite(th) ==
  /\ pc[th] = "write2"
  /\ pipe' = pipe + 1 /\ edge' = TRUE
  /\ Goto(th, Sent(th))
  /\ UNCHANGED <<qu, wake_pending, flags, loop, history>>

\* A write interrupted by a signal is tried again.
WakeInterrupted(th) ==
  /\ pc[th] = "write2"
  /\ Goto(th, "write")
  /\ UNCHANGED <<channel, flags, loop, history>>

\* A sender ends: a worker before ev_free, an event thread when it is stopped.
SenderEnd(s) ==
  /\ pc[s] = "idle"
  /\ Goto(s, "ended")
  /\ UNCHANGED <<channel, flags, loop, history>>

Wake(th) == SendPublish(th) \/ WakeCas(th) \/ WakeStopped(th) \/ WakeCheck(th) \/ WakeWrite(th)

-----------------------------------------------------------------------------
(* The event thread: _uev_cmd_loop, _uev_cmd_run and one round of _uev_loop_event *)

\* The wait ends by a report of the pipe, other input or its timeout.  The
\* callback of other input may defer one of its own.
Wait ==
  /\ wpc = "wait" /\ ~stop
  /\ edge' = FALSE
  /\ wpc' = IF edge THEN "read" ELSE "pass"
  /\ \/ UNCHANGED defer_execs
     \/ Again \notin {defer_execs[i] : i \in DOMAIN defer_execs}
        /\ defer_execs' = Append(defer_execs, Again)
  /\ pass' = 0 /\ left' = 0
  /\ UNCHANGED <<qu, wake_pending, pipe, flags, pc, batch, history>>

Ended ==
  /\ wpc = "wait" /\ stop
  /\ wpc' = "ended"
  /\ UNCHANGED <<channel, flags, pc, batch, defer_execs, pass, left, history>>

\* Mutant: the flag is cleared before the byte is read.
ReadTrigger_clearFirst ==
  /\ \/ wpc = "read" /\ wpc' = "clear" /\ wake_pending' = 0 /\ UNCHANGED pipe
     \/ wpc = "clear" /\ wpc' = "pop" /\ pipe' = 0 /\ UNCHANGED wake_pending
  /\ UNCHANGED <<qu, edge, flags, pc, batch, defer_execs, pass, left, history>>

\* First the bytes are read, then the flag is cleared.
ReadTrigger ==
  /\ \/ wpc = "read" /\ wpc' = "clear" /\ pipe' = 0 /\ UNCHANGED wake_pending
     \/ wpc = "clear" /\ wpc' = "pop" /\ wake_pending' = 0 /\ UNCHANGED pipe
  /\ UNCHANGED <<qu, edge, flags, pc, batch, defer_execs, pass, left, history>>

Ready(k) == k <= Len(qu) /\ \A i \in 1 .. k : qu[i].ready

Pop(k) ==
  /\ wpc = "pop" /\ batch = <<>> /\ Ready(k)
  /\ batch' = [i \in 1 .. k |-> qu[i].cmd]
  /\ qu' = SubSeq(qu, k + 1, Len(qu))
  /\ wpc' = "run"
  /\ UNCHANGED <<wake_pending, pipe, edge, flags, pc, defer_execs, pass, left, history>>

PopNone ==
  /\ wpc = "pop" /\ ~Ready(1)
  /\ wpc' = "empty"
  /\ UNCHANGED <<channel, flags, pc, batch, defer_execs, pass, left, history>>

\* A cell that is claimed and not published is waited for.
EmptyCheck ==
  /\ wpc = "empty"
  /\ wpc' = IF qu = <<>> THEN "pass" ELSE "pop"
  /\ UNCHANGED <<channel, flags, pc, batch, defer_execs, pass, left, history>>

\* Mutant: the commands of a batch that follow CMD_STOP are dropped.
RunCmd_stops ==
  /\ wpc = "run" /\ batch # <<>>
  /\ LET c == Head(batch)
     IN  /\ stop' = (stop \/ c = Stop)
         /\ ran' = IF c[3] = "defer" THEN ran ELSE ran \cup {c}
         /\ defer_execs' = IF c[3] = "defer" THEN Append(defer_execs, c) ELSE defer_execs
         /\ batch' = IF c = Stop THEN <<>> ELSE Tail(batch)
  /\ wpc' = IF batch' = <<>> THEN "pop" ELSE "run"
  /\ UNCHANGED <<channel, stopping, pc, pass, left, sent, freed>>

\* Mutant: the newest deferred callback comes first.
RunCmd_stack ==
  /\ wpc = "run" /\ batch # <<>>
  /\ LET c == Head(batch)
     IN  /\ stop' = (stop \/ c = Stop)
         /\ ran' = IF c[3] = "defer" THEN ran ELSE ran \cup {c}
         /\ defer_execs' = IF c[3] = "defer" THEN <<c>> \o defer_execs ELSE defer_execs
  /\ batch' = Tail(batch)
  /\ wpc' = IF Len(batch) = 1 THEN "pop" ELSE "run"
  /\ UNCHANGED <<channel, stopping, pc, pass, left, sent, freed>>

\* A batch is run to its end, CMD_STOP in it or not.
RunCmd ==
  /\ wpc = "run" /\ batch # <<>>
  /\ LET c == Head(batch)
     IN  /\ stop' = (stop \/ c = Stop)
         /\ ran' = IF c[3] = "defer" THEN ran ELSE ran \cup {c}
         /\ defer_execs' = IF c[3] = "defer" THEN Append(defer_execs, c) ELSE defer_execs
  /\ batch' = Tail(batch)
  /\ wpc' = IF Len(batch) = 1 THEN "pop" ELSE "run"
  /\ UNCHANGED <<channel, stopping, pc, pass, left, sent, freed>>

\* One callback of the drain; Again may defer itself once more.
DrainRun ==
  /\ wpc = "drain" /\ defer_execs # <<>>
  /\ \/ defer_execs' = Tail(defer_execs)
     \/ Head(defer_execs) = Again /\ defer_execs' = Append(Tail(defer_execs), Again)
  /\ ran' = IF Head(defer_execs) = Again THEN ran ELSE ran \cup {Head(defer_execs)}
  /\ left' = left - 1
  /\ wpc' = IF left = 1 THEN "pass" ELSE "drain"
  /\ UNCHANGED <<channel, flags, pc, batch, pass, sent, freed>>

\* Mutant: passes go on as long as there is something to run.
DrainPass_untilEmpty ==
  /\ wpc = "pass"
  /\ IF (pass = 0 /\ stop) \/ defer_execs = <<>> \/ (pass = 1 /\ stopping)
     THEN wpc' = "wait" /\ UNCHANGED <<pass, left>>
     ELSE wpc' = "drain" /\ pass' = 1 /\ left' = Len(defer_execs)
  /\ UNCHANGED <<channel, flags, pc, batch, defer_execs, history>>

\* Two passes at most; none once stopped, no second one while ev_free is at work.
DrainPass ==
  /\ wpc = "pass"
  /\ IF \/ (pass = 0 /\ stop) \/ pass = 2 \/ defer_execs = <<>> \/ (pass = 1 /\ stopping)
     THEN wpc' = "wait" /\ UNCHANGED <<pass, left>>
     ELSE wpc' = "drain" /\ pass' = pass + 1 /\ left' = Len(defer_execs)
  /\ UNCHANGED <<channel, flags, pc, batch, defer_execs, history>>

Watcher == \/ Wait \/ Ended \/ ReadTrigger
           \/ \E k \in 1 .. MaxRead : Pop(k)
           \/ PopNone \/ EmptyCheck \/ RunCmd \/ DrainRun \/ DrainPass

-----------------------------------------------------------------------------
(* ev_free *)

FreeStart ==
  /\ pc[Main] = "idle" /\ ~stopping
  /\ stopping' = TRUE
  /\ Goto(Main, "stop")
  /\ UNCHANGED <<channel, stop, loop, history>>

SendStop == pc[Main] = "stop" /\ Claim(Main, Stop)

\* Every event thread is joined before anything is freed.
Join ==
  /\ pc[Main] = "join"
  /\ wpc = "ended" /\ \A s \in Senders : pc[s] = "ended"
  /\ Goto(Main, "free")
  /\ UNCHANGED <<channel, flags, loop, history>>

Free ==
  /\ pc[Main] = "free"
  /\ freed' = freed \cup {qu[i].cmd : i \in DOMAIN qu}
                    \cup ({defer_execs[i] : i \in DOMAIN defer_execs} \ {Again})
  /\ qu' = <<>> /\ defer_execs' = <<>>
  /\ Goto(Main, "ended")
  /\ UNCHANGED <<wake_pending, pipe, edge, flags, wpc, batch, pass, left, sent, ran>>

EvFree == SendStop \/ Join \/ Free

\* Everything has ended.
Over == pc[Main] = "ended" /\ UNCHANGED vars

Next ==
  \/ \E s \in Senders : \/ \E k \in Kinds : Send(s, k)
                        \/ SenderEnd(s)
  \/ \E th \in Threads : Wake(th) \/ WakeInterrupted(th)
  \/ Watcher
  \/ FreeStart \/ EvFree
  \/ Over

Spec == Init /\ [][Next]_vars

\* The operating system runs every thread; a signal does not interrupt every
\* write for ever; senders end once ev_free has begun.
Fairness ==
  /\ WF_vars(Watcher)
  /\ \A th \in Threads : WF_vars(Wake(th)) /\ SF_vars(WakeWrite(th))
  /\ \A s \in Senders : WF_vars(stopping /\ SenderEnd(s))
  /\ WF_vars(EvFree)

FairSpec == Spec /\ Fairness

-----------------------------------------------------------------------------
InSeq(s) == {s[i] : i \in DOMAIN s}
Queued == {qu[i].cmd : i \in DOMAIN qu}
SentCmds == {c \in Queued \cup InSeq(batch) \cup InSeq(defer_execs) \cup ran \cup freed : c # Again}

\* Every variable stays in its type.
TypeOK ==
  /\ qu \in Seq([cmd : Cmds \cup {Stop}, ready : BOOLEAN])
  /\ wake_pending \in {0, 1} /\ pipe \in Nat /\ edge \in BOOLEAN
  /\ stop \in BOOLEAN /\ stopping \in BOOLEAN
  /\ pc \in [Threads -> {"idle", "publish", "cas", "write", "write2", "ended",
                         "stop", "join", "free"}]
  /\ wpc \in {"wait", "read", "clear", "pop", "run", "empty", "pass", "drain", "ended"}
  /\ batch \in Seq(Cmds \cup {Stop}) /\ Len(batch) <= MaxRead
  /\ defer_execs \in Seq(Cmds \cup {Again})
  /\ pass \in 0 .. 2 /\ left \in 0 .. Len(defer_execs)
  /\ sent \in [Threads -> Nat]
  /\ ran \subseteq Cmds \cup {Stop} /\ freed \subseteq Cmds \cup {Stop}

\* Never more than one byte in the pipe: a write cannot fail for want of room,
\* and one read takes all (uev.c:21-23, cmds.c:88-93).
AtMostOneByte == pipe + Cardinality({th \in Threads : pc[th] \in {"write", "write2"}}) <= 1

\* A queued command is never left to a sleeping event thread: a byte is in the
\* pipe and its edge not yet reported, or a sender has still to test the flag or
\* to write, or the event thread will look at the queue again (cmds.c:89-93).
NotStranded ==
  qu # <<>> /\ ~stop =>
    \/ pipe > 0 /\ (edge \/ wpc = "read")
    \/ \E th \in Threads : pc[th] \in {"publish", "cas", "write", "write2"}
    \/ wpc \in {"read", "clear", "pop", "run", "empty"}

\* The wake flag does both of its jobs at once: it writes few enough bytes, and
\* still enough of them.
WakeSound == AtMostOneByte /\ NotStranded

\* When the event thread begins a wait, the pipe has a byte exactly if a write has
\* not been reported: an edge-triggered wait and a level-triggered one return the
\* same (uev.c:191-193, os.h:149-152).
TriggersAgree == wpc = "wait" /\ ~stop => (edge <=> pipe > 0)

\* Where a command can be, and the sequences of those that are not over.
CmdPlaces == <<Queued, InSeq(batch), InSeq(defer_execs) \ {Again}, ran, freed>>
QueuedCmds == [i \in DOMAIN qu |-> qu[i].cmd]

\* Every command is in exactly one place: queued, taken, deferred, run or freed.
\* None is lost when CMD_STOP is in the middle of a batch or the drain is cut
\* short, and none is both run and freed (evpub.c:99-129, uev.c:658-672).
OnePlace ==
  /\ \A th \in Threads : {c[2] : c \in {d \in SentCmds : d[1] = th}} = 1 .. sent[th]
  /\ \A c, d \in SentCmds : c[1] = d[1] /\ c[2] = d[2] => c = d
  /\ \A p, q \in DOMAIN CmdPlaces : p # q => CmdPlaces[p] \cap CmdPlaces[q] = {}
  /\ IsInjective(QueuedCmds) /\ IsInjective(batch) /\ IsInjective(defer_execs)

\* The commands of one sender are run in the order it sent them, those run at
\* once and those deferred each among themselves, and across batches.
SenderOrder ==
  [][\A c \in ran' \ ran : \A d \in SentCmds :
       d[1] = c[1] /\ d[3] = c[3] /\ d[2] < c[2] => d \in ran]_vars

\* Again and again nothing is outstanding: every command is run, whatever the
\* callbacks defer meanwhile, since the two passes of the drain do not starve the
\* pipe (evpub.c:99-100), and once ev_free has begun it returns with what was left
\* freed.  The senders of an instance stop, so this says it of every command.
Settles == []<>(SentCmds = ran \cup freed /\ (stopping => pc[Main] = "ended"))
=============================================================================
