---------------------------- MODULE CmdPipeProofs ----------------------------
(***************************************************************************)
(* Proofs about the command channel, for any number of senders and of      *)
(* commands.                                                               *)
(*                                                                         *)
(* First the wake flag: never a second byte in the pipe, and never a       *)
(* command in the queue of an event thread that sleeps (IInv).             *)
(*                                                                         *)
(* Then the commands: each is in one place, from the cell its sender       *)
(* claims to the set of those run or freed, and those of one sender are    *)
(* run in the order they were sent (CmdInv).                               *)
(***************************************************************************)
EXTENDS CmdPipe, FiniteSetTheorems, SequenceTheorems, TLAPS

\* Those that have won the flag and have not written yet.
Writing(th) == pc[th] \in {"write", "write2"}
NoWriter == \A th \in Threads : ~Writing(th)

\* The event thread will look at the queue before it sleeps.
Looks == wpc \in {"read", "clear", "pop", "run", "empty"}

Places == {"idle", "publish", "cas", "write", "write2", "ended", "stop", "join", "free"}

Types ==
  /\ pc \in [Threads -> Places]
  /\ wake_pending \in {0, 1} /\ pipe \in {0, 1}
  /\ edge \in BOOLEAN /\ stop \in BOOLEAN

\* The flag stands for one byte, from the test that sets it to the read that takes
\* the byte: in the hands of a writer, in the pipe, or just read.
OneWake ==
  /\ wake_pending = 0 => pipe = 0 /\ NoWriter
  /\ \A a, b \in Threads : Writing(a) /\ Writing(b) => a = b
  /\ pipe = 1 => NoWriter
  /\ edge => pipe = 1
  /\ wpc = "read" => pipe = 1 /\ ~edge
  /\ wpc = "clear" => wake_pending = 1 /\ pipe = 0 /\ NoWriter

\* While the flag is up, that byte is still to be written, still to be reported,
\* or being read.
FlagIsBacked ==
  wake_pending = 1 /\ ~stop =>
    \/ \E th \in Threads : Writing(th)
    \/ pipe = 1 /\ (edge \/ wpc = "read")
    \/ wpc = "clear"

\* A command in the queue has its flag up, or a sender that has not tested it, or
\* the event thread awake.
FlagIsUp ==
  qu # <<>> /\ ~stop =>
    \/ wake_pending = 1
    \/ \E th \in Threads : pc[th] \in {"publish", "cas"}
    \/ Looks

IInv == Types /\ OneWake /\ FlagIsBacked /\ FlagIsUp

USE CmdPipeAssumption DEF Threads, Places

-----------------------------------------------------------------------------
\* Initially nothing is sent.
LEMMA InitOK == Init => IInv
<1> SUFFICES ASSUME Init PROVE IInv
  OBVIOUS
<1>1. \A th \in Threads : pc[th] = "idle" BY DEF Init
<1>2. NoWriter BY <1>1 DEF NoWriter, Writing
<1>3. Types BY DEF Init, Types
<1>4. OneWake BY <1>2 DEF Init, OneWake, NoWriter
<1>5. FlagIsBacked /\ FlagIsUp BY DEF Init, FlagIsBacked, FlagIsUp
<1> QED BY <1>3, <1>4, <1>5 DEF IInv

\* A step of one thread that neither writes nor was about to, that touches the
\* queue only if it tests the flag later, and leaves the rest alone.
LEMMA SenderStep ==
  ASSUME IInv, NEW th \in Threads, NEW l \in Places \ {"write", "write2"},
         ~Writing(th) \/ stop, Goto(th, l),
         UNCHANGED <<wake_pending, pipe, edge, stop, wpc>>,
         \/ l \in {"publish", "cas"}
         \/ qu' = qu /\ pc[th] \notin {"publish", "cas"}
  PROVE  IInv'
<1> USE DEF IInv, Types
<1>1. /\ pc' = [pc EXCEPT ![th] = l] /\ pc'[th] = l
      /\ \A t \in Threads : t # th => pc'[t] = pc[t]
      /\ UNCHANGED <<wake_pending, pipe, edge, stop, wpc>>
  BY DEF Goto
<1>2. Types' BY <1>1
<1>3. OneWake' BY <1>1 DEF OneWake, Writing, NoWriter
<1>4. FlagIsBacked' BY <1>1 DEF FlagIsBacked, Writing
<1>5. FlagIsUp' BY <1>1 DEF FlagIsUp, Looks
<1> QED BY <1>2, <1>3, <1>4, <1>5

\* The test of the flag: who finds it down will write the byte.
LEMMA WakeCasStep ==
  ASSUME IInv, NEW th \in Threads, WakeCas(th)
  PROVE  IInv'
<1> USE DEF IInv, Types
<1>1. /\ wake_pending' = 1 /\ pc[th] = "cas"
      /\ pc' = [pc EXCEPT ![th] = IF wake_pending = 0 THEN "write" ELSE Sent(th)]
      /\ UNCHANGED <<qu, pipe, edge, stop, wpc>>
  BY DEF WakeCas, Goto, channel, flags, loop
<1>2. /\ pc'[th] = IF wake_pending = 0 THEN "write" ELSE Sent(th)
      /\ Sent(th) \in {"join", "idle"}
      /\ \A t \in Threads : t # th => pc'[t] = pc[t]
  BY <1>1 DEF Sent
<1>3. Types' BY <1>1, <1>2
<1>4. OneWake' BY <1>1, <1>2 DEF OneWake, Writing, NoWriter
<1>5. FlagIsBacked' BY <1>1, <1>2 DEF FlagIsBacked, OneWake, Writing, NoWriter
<1>6. FlagIsUp' BY <1>1 DEF FlagIsUp
<1> QED BY <1>3, <1>4, <1>5, <1>6

\* The byte changes hands between the two places of a writer.
LEMMA RetryStep ==
  ASSUME IInv, NEW th \in Threads, WakeCheck(th) \/ WakeInterrupted(th)
  PROVE  IInv'
<1> USE DEF IInv, Types
<1>1. /\ Writing(th) /\ pc' \in [Threads -> Places] /\ Writing(th)'
      /\ \A t \in Threads : t # th => pc'[t] = pc[t]
      /\ UNCHANGED <<qu, wake_pending, pipe, edge, stop, wpc>>
  BY DEF WakeCheck, WakeInterrupted, Goto, channel, flags, loop, Writing
<1>2. \A t \in Threads : Writing(t)' <=> Writing(t) BY <1>1 DEF Writing
<1>3. Types' BY <1>1
<1>4. OneWake' BY <1>1, <1>2 DEF OneWake, NoWriter
<1>5. FlagIsBacked' BY <1>1, <1>2 DEF FlagIsBacked
<1>6. FlagIsUp' BY <1>1 DEF FlagIsUp, Looks, Writing
<1> QED BY <1>3, <1>4, <1>5, <1>6

\* The byte is written.
LEMMA WriteStep ==
  ASSUME IInv, NEW th \in Threads, WakeWrite(th)
  PROVE  IInv'
<1> USE DEF IInv, Types
<1>1. /\ pc[th] = "write2" /\ pipe' = pipe + 1 /\ edge'
      /\ pc' \in [Threads -> Places] /\ pc'[th] \in {"join", "idle"}
      /\ \A t \in Threads : t # th => pc'[t] = pc[t]
      /\ UNCHANGED <<qu, wake_pending, stop, wpc>>
  BY DEF WakeWrite, Goto, Sent, flags, loop
<1>2. /\ pipe = 0 /\ wake_pending = 1 /\ wpc \notin {"read", "clear"}
      /\ \A t \in Threads : t # th => ~Writing(t)
  BY <1>1 DEF OneWake, Writing, NoWriter
<1>3. Types' BY <1>1, <1>2
<1>4. OneWake' BY <1>1, <1>2 DEF OneWake, Writing, NoWriter
<1>5. FlagIsBacked' BY <1>1, <1>2 DEF FlagIsBacked
<1>6. FlagIsUp' BY <1>1, <1>2 DEF FlagIsUp
<1> QED BY <1>3, <1>4, <1>5, <1>6

\* The event thread takes the report, the byte and then the flag.
LEMMA WatcherReads ==
  ASSUME IInv, Wait \/ ReadTrigger
  PROVE  IInv'
<1> USE DEF IInv, Types
<1>1. UNCHANGED <<pc, qu, stop>> BY DEF Wait, ReadTrigger, flags
<1>2. \A th \in Threads : Writing(th)' <=> Writing(th) BY <1>1 DEF Writing
<1>3. CASE Wait
  <2>1. /\ wpc = "wait" /\ ~edge' /\ edge' \in BOOLEAN /\ wpc' = IF edge THEN "read" ELSE "pass"
        /\ UNCHANGED <<wake_pending, pipe>>
    BY <1>3 DEF Wait
  <2>2. Types' BY <1>1, <2>1
  <2>3. OneWake' BY <1>1, <1>2, <2>1 DEF OneWake, NoWriter
  <2>4. FlagIsBacked' BY <1>1, <1>2, <2>1 DEF FlagIsBacked, OneWake
  <2>5. FlagIsUp' BY <1>1, <2>1 DEF FlagIsUp, Looks
  <2> QED BY <2>2, <2>3, <2>4, <2>5
<1>4. CASE ReadTrigger
  <2>1. /\ UNCHANGED edge
        /\ \/ wpc = "read" /\ wpc' = "clear" /\ pipe' = 0 /\ UNCHANGED wake_pending
           \/ wpc = "clear" /\ wpc' = "pop" /\ wake_pending' = 0 /\ UNCHANGED pipe
    BY <1>4 DEF ReadTrigger
  <2>2. Types' BY <1>1, <2>1
  <2>3. OneWake' BY <1>1, <1>2, <2>1 DEF OneWake, NoWriter
  <2>4. FlagIsBacked' BY <1>1, <1>2, <2>1 DEF FlagIsBacked
  <2>5. FlagIsUp' BY <1>1, <2>1 DEF FlagIsUp, Looks
  <2> QED BY <2>2, <2>3, <2>4, <2>5
<1> QED BY <1>3, <1>4

\* The other steps of the event thread leave the channel's flag and pipe alone, and
\* it goes to sleep only with an empty queue.
LEMMA WatcherWorks ==
  ASSUME IInv, UNCHANGED <<pc, wake_pending, pipe, edge>>,
         wpc \notin {"read", "clear"}, wpc' \notin {"read", "clear"}, stop => stop',
         stop' \in BOOLEAN,
         qu' # <<>> /\ ~stop' => qu # <<>> /\ (Looks => Looks')
  PROVE  IInv'
<1> USE DEF IInv, Types
<1>1. \A th \in Threads : Writing(th)' <=> Writing(th) BY DEF Writing
<1>2. Types' OBVIOUS
<1>3. OneWake' BY <1>1 DEF OneWake, NoWriter
<1>4. FlagIsBacked' BY <1>1 DEF FlagIsBacked
<1>5. FlagIsUp' BY DEF FlagIsUp
<1> QED BY <1>2, <1>3, <1>4, <1>5

\* Every step keeps the invariant: one case per action.
LEMMA StepOK == IInv /\ [Next]_vars => IInv'
<1> SUFFICES ASSUME IInv, [Next]_vars PROVE IInv'
  OBVIOUS
<1> USE DEF channel, flags, loop, history
<1>1. ASSUME NEW s \in Senders, NEW k \in Kinds, Send(s, k) PROVE IInv'
  BY <1>1, SenderStep DEF Send, Claim, Writing
<1>2. ASSUME NEW s \in Senders, SenderEnd(s) PROVE IInv'
  BY <1>2, SenderStep DEF SenderEnd, Writing
<1>3. ASSUME NEW th \in Threads, SendPublish(th) PROVE IInv'
  BY <1>3, SenderStep DEF SendPublish, Writing
<1>4. ASSUME NEW th \in Threads, WakeStopped(th) PROVE IInv'
  BY <1>4, SenderStep DEF WakeStopped, Sent
<1>5. ASSUME NEW th \in Threads, Wake(th) \/ WakeInterrupted(th) PROVE IInv'
  BY <1>3, <1>4, <1>5, WakeCasStep, RetryStep, WriteStep DEF Wake
<1>6. ASSUME FreeStart PROVE IInv'
  BY <1>6, SenderStep DEF FreeStart, Writing
<1>7. ASSUME EvFree PROVE IInv'
  <2>1. CASE SendStop BY <2>1, SenderStep DEF SendStop, Claim, Writing
  <2>2. CASE Join BY <2>2, SenderStep DEF Join, Writing
  <2>3. CASE Free
    <3>1. qu' = <<>> /\ Goto(Main, "ended") /\ pc[Main] = "free"
          /\ UNCHANGED <<wake_pending, pipe, edge, stop, wpc>>
      BY <2>3 DEF Free
    <3> QED BY <3>1 DEF IInv, Types, OneWake, FlagIsBacked, FlagIsUp, Looks, Goto, Writing, NoWriter
  <2> QED BY <1>7, <2>1, <2>2, <2>3 DEF EvFree
<1>8. ASSUME Watcher PROVE IInv'
  <2>1. CASE Wait \/ ReadTrigger BY <2>1, WatcherReads
  <2>2. CASE Ended BY <2>2, WatcherWorks DEF Ended, IInv, Types
  <2>3. ASSUME NEW k \in 1 .. MaxRead, Pop(k) PROVE IInv'
    BY <2>3, WatcherWorks DEF Pop, Ready, Looks, IInv, Types
  <2>4. CASE PopNone BY <2>4, WatcherWorks DEF PopNone, Looks, IInv, Types
  <2>5. CASE EmptyCheck BY <2>5, WatcherWorks DEF EmptyCheck, Looks, IInv, Types
  <2>6. CASE RunCmd BY <2>6, WatcherWorks DEF RunCmd, Looks, IInv, Types
  <2>7. CASE DrainRun BY <2>7, WatcherWorks DEF DrainRun, Looks, IInv, Types
  <2>8. CASE DrainPass BY <2>8, WatcherWorks DEF DrainPass, Looks, IInv, Types
  <2> QED BY <1>8, <2>1, <2>2, <2>3, <2>4, <2>5, <2>6, <2>7, <2>8 DEF Watcher
<1>9. CASE UNCHANGED vars
  BY <1>9 DEF vars, IInv, Types, OneWake, FlagIsBacked, FlagIsUp, Looks, Writing, NoWriter
<1> QED
  BY <1>1, <1>2, <1>5, <1>6, <1>7, <1>8, <1>9 DEF Next, Over

\* The inductive invariant holds in every reachable state.
LEMMA Inductive == Spec => []IInv
  BY InitOK, StepOK, PTL DEF Spec

\* At most one writer and no byte besides: counted, that is at most one.
LEMMA AtMostOneByteFollows ==
  ASSUME IInv
  PROVE  AtMostOneByte
<1> DEFINE W == {th \in Threads : pc[th] \in {"write", "write2"}}
<1>1. \A a, b \in W : a = b BY DEF IInv, OneWake, Writing
<1>2. CASE W = {}
  BY <1>2, FS_EmptySet DEF AtMostOneByte, IInv, Types
<1>3. CASE W # {}
  <2>1. PICK a \in W : W = {a} BY <1>1, <1>3
  <2>2. Cardinality(W) = 1 BY <2>1, FS_Singleton
  <2>3. pipe = 0 BY <2>1 DEF IInv, OneWake, Types, NoWriter, Writing
  <2> QED BY <2>2, <2>3 DEF AtMostOneByte
<1> QED BY <1>2, <1>3

\* The wake flag of the command channel writes few enough bytes and still enough
\* of them: at most one in the pipe, and no command left to a sleeping thread.
THEOREM WakeSoundCorrect == Spec => []WakeSound
<1>1. IInv => NotStranded
  BY DEF IInv, Types, FlagIsBacked, FlagIsUp, NotStranded, Looks, Writing
<1>2. IInv => WakeSound BY <1>1, AtMostOneByteFollows DEF WakeSound
<1> QED BY <1>2, Inductive, PTL

\* A level-triggered wait, the default build's, returns what the edge-triggered one
\* of the model returns: no byte is left in the pipe once its write was reported,
\* and no write is reported whose byte was read (uev.c:191-193, cmds.c:89-93).
THEOREM TriggersAgreeCorrect == Spec => []TriggersAgree
<1>1. IInv => TriggersAgree
  BY DEF IInv, Types, OneWake, FlagIsBacked, NoWriter, Writing, TriggersAgree
<1> QED BY <1>1, Inductive, PTL

HIDE CmdPipeAssumption DEF Threads, Places

-----------------------------------------------------------------------------
(* Where the commands are.  The sequences are looked at through the sets of *)
(* their commands and one property of theirs, Rising.                       *)

AllCmds == Cmds \cup {Stop}
Taken == InSeq(batch)
Deferred == InSeq(defer_execs) \ {Again}
AllSent == Queued \cup Taken \cup Deferred \cup ran \cup freed

\* Of one sender, what comes later in a sequence was sent later.
Rising(q) ==
  \A i, j \in DOMAIN q :
    i < j /\ q[i] # Again /\ q[j] # Again /\ q[i][1] = q[j][1] => q[i][2] < q[j][2]

\* Of one sender, all of C were sent before all of D.
Before(C, D) == \A c \in C, d \in D : c[1] = d[1] => c[2] < d[2]

\* A sender and a number name one command.
Keyed(C) == \A c, d \in C : c[1] = d[1] /\ c[2] = d[2] => c = d
Apart(C, D) == \A c \in C, d \in D : c[1] = d[1] => c[2] # d[2]

\* Where the threads are, and what that says of the sequences and of the counts.
Control ==
  /\ wpc = "run" <=> batch # <<>>
  /\ wpc = "drain" <=> left > 0
  /\ pc[Main] \in {"free", "ended"} => wpc = "ended" /\ \A s \in Senders : pc[s] = "ended"
  /\ pc[Main] # "ended" => freed = {}
  /\ pc[Main] \in {"idle", "stop"} => sent[Main] = 0
  /\ \A s \in Senders : pc[s] \notin {"stop", "join", "free"}

AgainOnce(q) == \A i, j \in DOMAIN q : q[i] = Again /\ q[j] = Again => i = j

\* The sequences rise, and the callback that defers itself is deferred once.
Sorted ==
  /\ Rising(QueuedCmds) /\ Rising(batch) /\ Rising(defer_execs)
  /\ AgainOnce(defer_execs)

\* The stages of the queue: what is further on was sent earlier, but that a deferred
\* command is overtaken by those run at once.
Stages ==
  /\ Before(Taken, Queued) /\ Before(Deferred, Taken \cup Queued) /\ Before(ran, Taken \cup Queued)
  /\ \A c \in Deferred :
       c[3] = "defer" /\ \A d \in ran : c[1] = d[1] /\ d[3] = "defer" => d[2] < c[2]
  /\ Apart(Deferred, ran) /\ Keyed(ran)

\* What is freed is all that was left.
Leftovers ==
  /\ freed # {} => Queued = {} /\ Deferred = {}
  /\ Keyed(freed) /\ Apart(freed, ran)

\* A sender's commands are numbered without a gap.
Numbered ==
  \A th \in Threads :
    /\ \A c \in AllSent : c[1] = th => c[2] \in 1 .. sent[th]
    /\ \A n \in 1 .. sent[th] : \E c \in AllSent : c[1] = th /\ c[2] = n

Ordered == Sorted /\ Stages /\ Leftovers /\ Numbered

\* The inductive invariant of the commands.
CmdInv == TypeOK /\ Control /\ Ordered

-----------------------------------------------------------------------------
\* What a command is made of.
LEMMA CmdFacts ==
  /\ \A c \in AllCmds : c[1] \in Threads /\ c[2] \in Nat /\ c # Again
  /\ \A c \in AllCmds : c[3] = "defer" => c \in Cmds
  /\ \A s \in Senders, n \in Nat, k \in Kinds :
       n \in 1 .. MaxCmd[s] =>
         /\ <<s, n, k>> \in Cmds /\ <<s, n, k>>[1] = s /\ <<s, n, k>>[2] = n
  /\ Stop \in AllCmds /\ Stop[1] = Main /\ Stop[2] = 1 /\ Stop[3] = "stop"
<1> USE CmdPipeAssumption DEF AllCmds, Cmds, Stop, Threads, Kinds
<1>1. \A c \in Cmds : \E s \in Senders : \E n \in 1 .. MaxCmd[s], k \in Kinds : c = <<s, n, k>>
  OBVIOUS
<1>2. \A c \in AllCmds : c[1] \in Threads /\ c[2] \in Nat /\ c # Again BY <1>1
<1>3. \A s \in Senders, n \in Nat, k \in Kinds : n \in 1 .. MaxCmd[s] => <<s, n, k>> \in Cmds
  OBVIOUS
<1> QED BY <1>2, <1>3

\* The members of a sequence and of its changes.
LEMMA InAppend ==
  ASSUME NEW S, NEW q \in Seq(S), NEW x \in S
  PROVE  InSeq(Append(q, x)) = InSeq(q) \cup {x}
<1> DEFINE a == Append(q, x)
<1>1. /\ a \in Seq(S) /\ Len(a) = Len(q) + 1
      /\ \A i \in 1 .. Len(q) : a[i] = q[i]
      /\ a[Len(q) + 1] = x
  BY AppendProperties
<1>2. /\ DOMAIN a = 1 .. Len(q) + 1 /\ DOMAIN q = 1 .. Len(q) /\ Len(q) \in Nat
  BY <1>1, LenProperties
<1> HIDE DEF a
<1>3. InSeq(a) \subseteq InSeq(q) \cup {x} BY <1>1, <1>2 DEF InSeq
<1>4. InSeq(q) \cup {x} \subseteq InSeq(a)
  <2>1. \A i \in DOMAIN q : i \in DOMAIN a /\ a[i] = q[i] BY <1>1, <1>2
  <2>2. Len(q) + 1 \in DOMAIN a BY <1>2
  <2> QED BY <1>1, <2>1, <2>2 DEF InSeq
<1> QED BY <1>3, <1>4 DEF a

\* A sequence is its head and its tail.
LEMMA InTail ==
  ASSUME NEW S, NEW q \in Seq(S), q # <<>>
  PROVE  /\ InSeq(q) = InSeq(Tail(q)) \cup {Head(q)}
         /\ Head(q) \in S /\ Tail(q) \in Seq(S) /\ Len(Tail(q)) = Len(q) - 1
         /\ Len(q) \in Nat \ {0} /\ Head(q) = q[1]
         /\ Len(q) = 1 <=> Tail(q) = <<>>
<1> DEFINE t == Tail(q)
<1>1. /\ t \in Seq(S) /\ Len(t) = Len(q) - 1 /\ \A i \in 1 .. Len(t) : t[i] = q[i + 1]
      /\ Head(q) \in S /\ Head(q) = q[1]
  BY HeadTailProperties
<1>2. /\ DOMAIN t = 1 .. Len(q) - 1 /\ DOMAIN q = 1 .. Len(q) /\ Len(q) \in Nat \ {0}
  BY <1>1, LenProperties, EmptySeq
<1>3. Len(q) = 1 <=> t = <<>>
  <2>1. t = <<>> <=> Len(t) = 0 BY <1>1, EmptySeq
  <2> QED BY <1>1, <1>2, <2>1
<1> HIDE DEF t
<1>4. \A i \in DOMAIN t : i + 1 \in DOMAIN q /\ t[i] = q[i + 1] BY <1>1, <1>2
<1>5. \A i \in DOMAIN q : i # 1 => i - 1 \in DOMAIN t /\ t[i - 1] = q[i] BY <1>1, <1>2
<1>6. 1 \in DOMAIN q BY <1>2
<1>7. InSeq(t) \subseteq InSeq(q) BY <1>4 DEF InSeq
<1>8. InSeq(q) \subseteq InSeq(t) \cup {q[1]} BY <1>5 DEF InSeq
<1>9. q[1] \in InSeq(q) BY <1>6 DEF InSeq
<1> QED BY <1>1, <1>2, <1>3, <1>7, <1>8, <1>9 DEF t

\* A rising sequence stays one at its two ends.
LEMMA RisingAppend ==
  ASSUME NEW S, NEW q \in Seq(S), NEW x \in S, Rising(q),
         \A c \in InSeq(q) \ {Again} : x # Again /\ c[1] = x[1] => c[2] < x[2]
  PROVE  Rising(Append(q, x))
<1> DEFINE a == Append(q, x)
<1>1. /\ a \in Seq(S) /\ Len(a) = Len(q) + 1
      /\ \A i \in 1 .. Len(q) : a[i] = q[i]
      /\ a[Len(q) + 1] = x
  BY AppendProperties
<1>2. /\ DOMAIN a = 1 .. Len(q) + 1 /\ DOMAIN q = 1 .. Len(q) /\ Len(q) \in Nat
  BY <1>1, LenProperties
<1> HIDE DEF a
<1> SUFFICES ASSUME NEW i \in DOMAIN a, NEW j \in DOMAIN a, i < j, a[i] # Again, a[j] # Again,
                    a[i][1] = a[j][1]
             PROVE  a[i][2] < a[j][2]
  BY DEF Rising, a
<1>3. i \in DOMAIN q /\ a[i] = q[i] BY <1>1, <1>2
<1>4. CASE j = Len(q) + 1
  <2>1. q[i] \in InSeq(q) \ {Again} BY <1>3 DEF InSeq
  <2> QED BY <1>1, <1>3, <1>4, <2>1
<1>5. CASE j # Len(q) + 1
  <2>1. j \in DOMAIN q /\ a[j] = q[j] BY <1>1, <1>2, <1>5
  <2> QED BY <1>3, <2>1 DEF Rising
<1> QED BY <1>4, <1>5

\* The head of a rising sequence is the least of its sender.
LEMMA RisingTail ==
  ASSUME NEW S, NEW q \in Seq(S), q # <<>>, Rising(q)
  PROVE  /\ Rising(Tail(q))
         /\ \A c \in InSeq(Tail(q)) \ {Again} :
              Head(q) # Again /\ Head(q)[1] = c[1] => Head(q)[2] < c[2]
<1> DEFINE t == Tail(q)
<1>1. /\ t \in Seq(S) /\ Len(t) = Len(q) - 1 /\ \A i \in 1 .. Len(t) : t[i] = q[i + 1]
      /\ Head(q) \in S /\ Head(q) = q[1]
  BY HeadTailProperties
<1>2. /\ DOMAIN t = 1 .. Len(q) - 1 /\ DOMAIN q = 1 .. Len(q) /\ Len(q) \in Nat \ {0}
  BY <1>1, LenProperties, EmptySeq
<1> HIDE DEF t
<1>3. \A i \in DOMAIN t : i \in Int /\ 1 < i + 1 /\ i + 1 \in DOMAIN q /\ t[i] = q[i + 1]
  BY <1>1, <1>2
<1>4. 1 \in DOMAIN q BY <1>2
<1>5. Rising(t)
  <2> SUFFICES ASSUME NEW i \in DOMAIN t, NEW j \in DOMAIN t, i < j, t[i] # Again, t[j] # Again,
                      t[i][1] = t[j][1]
               PROVE  t[i][2] < t[j][2]
    BY DEF Rising
  <2>1. i + 1 < j + 1 BY <1>3
  <2> QED BY <1>3, <2>1 DEF Rising
<1>6. \A c \in InSeq(t) \ {Again} : Head(q) # Again /\ Head(q)[1] = c[1] => Head(q)[2] < c[2]
  <2> SUFFICES ASSUME NEW c \in InSeq(t) \ {Again}, q[1] # Again, q[1][1] = c[1]
               PROVE  q[1][2] < c[2]
    BY <1>1
  <2>1. PICK i \in DOMAIN t : c = t[i] BY DEF InSeq
  <2>2. 1 < i + 1 /\ i + 1 \in DOMAIN q /\ c = q[i + 1] BY <1>3, <2>1
  <2> QED BY <1>4, <2>2 DEF Rising
<1> QED BY <1>5, <1>6 DEF t

\* A rising sequence without Again names no command twice.
LEMMA RisingOnce ==
  ASSUME NEW q, DOMAIN q \subseteq Int, Rising(q),
         \A i \in DOMAIN q : q[i] = Again \/ q[i][2] \in Int
  PROVE  /\ \A i, j \in DOMAIN q :
              q[i] # Again /\ q[j] # Again /\ q[i][1] = q[j][1] /\ q[i][2] = q[j][2] => i = j
         /\ Keyed(InSeq(q) \ {Again})
<1>1. ASSUME NEW i \in DOMAIN q, NEW j \in DOMAIN q, q[i] # Again, q[j] # Again,
             q[i][1] = q[j][1], q[i][2] = q[j][2], i # j
      PROVE  FALSE
  <2>1. q[i][2] \in Int /\ q[j][2] \in Int BY <1>1
  <2>2. i < j \/ j < i BY <1>1
  <2>3. q[i][2] < q[j][2] \/ q[j][2] < q[i][2] BY <1>1, <2>2 DEF Rising
  <2> QED BY <1>1, <2>1, <2>3
<1> QED BY <1>1 DEF Keyed, InSeq

\* q, of length n, is b followed by r, where b has length k.
Divided(q, n, k, b, r) ==
  /\ n \in Nat /\ k \in Nat /\ k <= n
  /\ DOMAIN q = 1 .. n /\ \A i \in 1 .. n : q[i] # Again
  /\ DOMAIN b = 1 .. k /\ \A i \in 1 .. k : b[i] = q[i]
  /\ DOMAIN r = 1 .. n - k /\ \A i \in 1 .. n - k : r[i] = q[k + i]

\* Pop divides the queue in two: both parts rise, and the first is before the second.
LEMMA RisingSplit ==
  ASSUME NEW q, NEW n, NEW k, NEW b, NEW r, Divided(q, n, k, b, r), Rising(q)
  PROVE  /\ Rising(b) /\ Rising(r) /\ Before(InSeq(b), InSeq(r))
         /\ InSeq(q) = InSeq(b) \cup InSeq(r)
<1>1. /\ \A i \in DOMAIN b : i \in DOMAIN q /\ b[i] = q[i] /\ i \in Int /\ i <= k
      /\ \A i \in DOMAIN r : k + i \in DOMAIN q /\ r[i] = q[k + i] /\ i \in Int /\ i > 0
      /\ \A i \in DOMAIN q : i \in DOMAIN b \/ (i - k \in DOMAIN r /\ k + (i - k) = i)
      /\ \A i \in DOMAIN q : q[i] # Again
  BY DEF Divided
<1>2. Rising(b) BY <1>1 DEF Rising
<1>3. Rising(r)
  <2> SUFFICES ASSUME NEW i \in DOMAIN r, NEW j \in DOMAIN r, i < j, r[i][1] = r[j][1]
               PROVE  r[i][2] < r[j][2]
    BY DEF Rising
  <2>1. k + i < k + j BY <1>1 DEF Divided
  <2>2. /\ k + i \in DOMAIN q /\ r[i] = q[k + i] /\ q[k + i] # Again
        /\ k + j \in DOMAIN q /\ r[j] = q[k + j] /\ q[k + j] # Again
    BY <1>1
  <2> QED BY <2>1, <2>2 DEF Rising
<1>4. Before(InSeq(b), InSeq(r))
  <2> SUFFICES ASSUME NEW c \in InSeq(b), NEW d \in InSeq(r), c[1] = d[1] PROVE c[2] < d[2]
    BY DEF Before
  <2>1. PICK i \in DOMAIN b : c = b[i] BY DEF InSeq
  <2>2. PICK j \in DOMAIN r : d = r[j] BY DEF InSeq
  <2>3. i < k + j BY <1>1 DEF Divided
  <2>4. /\ i \in DOMAIN q /\ c = q[i] /\ q[i] # Again
        /\ k + j \in DOMAIN q /\ d = q[k + j] /\ q[k + j] # Again
    BY <1>1, <2>1, <2>2
  <2> QED BY <2>3, <2>4 DEF Rising
<1>5. InSeq(b) \subseteq InSeq(q) /\ InSeq(r) \subseteq InSeq(q) BY <1>1 DEF InSeq
<1>6. InSeq(q) \subseteq InSeq(b) \cup InSeq(r)
  <2> SUFFICES ASSUME NEW i \in DOMAIN q PROVE q[i] \in InSeq(b) \cup InSeq(r)
    BY DEF InSeq
  <2>1. CASE i \in DOMAIN b BY <1>1, <2>1 DEF InSeq
  <2>2. CASE i \notin DOMAIN b BY <1>1, <2>2 DEF InSeq
  <2> QED BY <2>1, <2>2
<1> QED BY <1>2, <1>3, <1>4, <1>5, <1>6

-----------------------------------------------------------------------------
(* The moves: what each action does to the places of the commands. *)

\* A function on 1 .. n is a sequence.
LEMMA SeqOf ==
  ASSUME NEW S, NEW n \in Nat, NEW f \in [1 .. n -> S]
  PROVE  f \in Seq(S)
  BY SeqDef

\* The queue as a sequence of commands.
LEMMA QueueFacts ==
  ASSUME TypeOK
  PROVE  /\ QueuedCmds \in Seq(AllCmds) /\ Len(QueuedCmds) = Len(qu) /\ Len(qu) \in Nat
         /\ DOMAIN qu = 1 .. Len(qu) /\ InSeq(QueuedCmds) = Queued
         /\ \A i \in DOMAIN qu : /\ qu[i] \in [cmd : AllCmds, ready : BOOLEAN]
                                 /\ qu[i].cmd \in AllCmds
                                 /\ QueuedCmds[i] = qu[i].cmd
<1>1. qu \in Seq([cmd : AllCmds, ready : BOOLEAN]) BY DEF TypeOK, AllCmds
<1>2. /\ Len(qu) \in Nat /\ DOMAIN qu = 1 .. Len(qu)
      /\ \A i \in DOMAIN qu : qu[i] \in [cmd : AllCmds, ready : BOOLEAN]
  BY <1>1, LenProperties, ElementOfSeq
<1>3. QueuedCmds \in [1 .. Len(qu) -> AllCmds] BY <1>2 DEF QueuedCmds
<1>4. QueuedCmds \in Seq(AllCmds) BY <1>2, <1>3, SeqDef
<1>5. Len(QueuedCmds) = Len(qu) BY <1>2, <1>3, <1>4, LenProperties
<1>6. InSeq(QueuedCmds) = Queued BY <1>2, <1>3 DEF InSeq, Queued, QueuedCmds
<1> QED BY <1>2, <1>3, <1>4, <1>5, <1>6 DEF QueuedCmds

\* What the places hold, and that together they are the commands sent.
LEMMA Sets ==
  ASSUME TypeOK
  PROVE  /\ Queued \subseteq AllCmds /\ Taken \subseteq AllCmds /\ Deferred \subseteq AllCmds
         /\ ran \subseteq AllCmds /\ freed \subseteq AllCmds
         /\ batch \in Seq(AllCmds) /\ defer_execs \in Seq(AllCmds \cup {Again})
         /\ AllSent = SentCmds
<1>1. Queued \subseteq AllCmds BY QueueFacts DEF Queued
<1>2. batch \in Seq(AllCmds) /\ ran \subseteq AllCmds /\ freed \subseteq AllCmds
  BY DEF TypeOK, AllCmds
<1>3. /\ DOMAIN batch = 1 .. Len(batch)
      /\ \A i \in 1 .. Len(batch) : batch[i] \in AllCmds
  BY <1>2, LenProperties, ElementOfSeq
<1>4. defer_execs \in Seq(Cmds \cup {Again}) BY DEF TypeOK
<1>5. /\ DOMAIN defer_execs = 1 .. Len(defer_execs) /\ Len(defer_execs) \in Nat
      /\ \A i \in 1 .. Len(defer_execs) : defer_execs[i] \in Cmds \cup {Again}
  BY <1>4, LenProperties, ElementOfSeq
<1>6. Taken \subseteq AllCmds BY <1>3 DEF Taken, InSeq
<1>7. Deferred \subseteq AllCmds BY <1>5 DEF Deferred, InSeq, AllCmds
<1>8. defer_execs \in [1 .. Len(defer_execs) -> AllCmds \cup {Again}] BY <1>4, <1>5 DEF AllCmds
<1>9. defer_execs \in Seq(AllCmds \cup {Again}) BY <1>5, <1>8, SeqDef
<1>10. AllSent = SentCmds
  BY <1>1, <1>2, <1>6, CmdFacts DEF AllSent, SentCmds, Taken, Deferred
<1> QED BY <1>1, <1>2, <1>6, <1>7, <1>9, <1>10

\* A claimed cell puts its command at the end of the queue.
LEMMA ClaimMove ==
  ASSUME TypeOK, NEW th \in Threads, NEW c \in AllCmds, Claim(th, c)
  PROVE  /\ qu' \in Seq([cmd : AllCmds, ready : BOOLEAN])
         /\ QueuedCmds' = Append(QueuedCmds, c)
         /\ Queued' = Queued \cup {c}
         /\ UNCHANGED <<Taken, Deferred, batch, defer_execs, ran, freed, wpc, left, pass>>
         /\ sent' = [sent EXCEPT ![th] = @ + 1]
<1> DEFINE e == [cmd |-> c, ready |-> FALSE]
<1>1. /\ qu' = Append(qu, e) /\ UNCHANGED <<batch, defer_execs, ran, freed, wpc, left, pass>>
      /\ sent' = [sent EXCEPT ![th] = @ + 1]
  BY DEF Claim, loop
<1>2. qu \in Seq([cmd : AllCmds, ready : BOOLEAN]) /\ e \in [cmd : AllCmds, ready : BOOLEAN]
  BY DEF TypeOK, AllCmds
<1>3. /\ qu' \in Seq([cmd : AllCmds, ready : BOOLEAN]) /\ Len(qu') = Len(qu) + 1
      /\ \A i \in 1 .. Len(qu) : qu'[i] = qu[i]
      /\ qu'[Len(qu) + 1] = e
  BY <1>1, <1>2, AppendProperties
<1>4. DOMAIN qu' = 1 .. Len(qu) + 1 BY <1>3, LenProperties
<1>5. QueuedCmds' = [i \in 1 .. Len(qu) + 1 |-> qu'[i].cmd] BY <1>4 DEF QueuedCmds
<1>6. /\ Append(QueuedCmds, c) \in Seq(AllCmds) /\ Len(Append(QueuedCmds, c)) = Len(qu) + 1
      /\ \A i \in 1 .. Len(qu) : Append(QueuedCmds, c)[i] = QueuedCmds[i]
      /\ Append(QueuedCmds, c)[Len(qu) + 1] = c
  BY QueueFacts, AppendProperties
<1>7. \A i \in 1 .. Len(qu) + 1 : qu'[i].cmd = Append(QueuedCmds, c)[i]
  <2>1. \A i \in 1 .. Len(qu) : qu'[i].cmd = QueuedCmds[i] BY <1>3, QueueFacts
  <2>2. qu'[Len(qu) + 1].cmd = c BY <1>3
  <2>3. \A i \in 1 .. Len(qu) + 1 : i \in 1 .. Len(qu) \/ i = Len(qu) + 1 BY QueueFacts
  <2> QED BY <1>6, <2>1, <2>2, <2>3
<1>8. QueuedCmds' = Append(QueuedCmds, c)
  <2>1. Append(QueuedCmds, c) \in [1 .. Len(qu) + 1 -> AllCmds] BY <1>6, LenProperties
  <2> QED BY <1>5, <1>7, <2>1
<1>9. Queued' = InSeq(QueuedCmds') BY <1>4, <1>5 DEF InSeq, Queued
<1>10. Queued' = Queued \cup {c} BY <1>8, <1>9, QueueFacts, InAppend
<1> QED BY <1>1, <1>3, <1>8, <1>10 DEF Taken, Deferred

\* Publishing a cell moves no command.
LEMMA PublishMove ==
  ASSUME TypeOK, NEW th \in Threads, SendPublish(th)
  PROVE  /\ qu' \in Seq([cmd : AllCmds, ready : BOOLEAN])
         /\ UNCHANGED <<QueuedCmds, Queued, Taken, Deferred, batch, defer_execs, sent, ran, freed,
                       wpc, left, pass>>
<1>1. /\ qu' = [i \in DOMAIN qu |-> IF qu[i].cmd[1] = th THEN [qu[i] EXCEPT !.ready = TRUE]
                               ELSE qu[i]]
      /\ UNCHANGED <<batch, defer_execs, sent, ran, freed, wpc, left, pass>>
  BY DEF SendPublish, loop, history
<1>2. /\ DOMAIN qu' = DOMAIN qu /\ DOMAIN qu = 1 .. Len(qu) /\ Len(qu) \in Nat
      /\ \A i \in DOMAIN qu : qu'[i] \in [cmd : AllCmds, ready : BOOLEAN] /\ qu'[i].cmd = qu[i].cmd
  BY <1>1, QueueFacts
<1>3. qu' = [i \in DOMAIN qu |-> qu'[i]] BY <1>1
<1>4. qu' \in [1 .. Len(qu) -> [cmd : AllCmds, ready : BOOLEAN]] BY <1>2, <1>3
<1>5. qu' \in Seq([cmd : AllCmds, ready : BOOLEAN])
  <2>1. Len(qu) \in Nat BY <1>2
  <2> QED BY <1>4, <2>1, SeqOf
<1>6. QueuedCmds' = QueuedCmds BY <1>2 DEF QueuedCmds
<1>7. Queued' = Queued BY <1>2 DEF Queued
<1> QED BY <1>1, <1>5, <1>6, <1>7 DEF Taken, Deferred

\* A batch is a prefix of the queue.
LEMMA PopMove ==
  ASSUME TypeOK, NEW k \in 1 .. MaxRead, Pop(k), Rising(QueuedCmds)
  PROVE  /\ qu' \in Seq([cmd : AllCmds, ready : BOOLEAN])
         /\ batch' \in Seq(AllCmds) /\ Len(batch') = k /\ batch' # <<>>
         /\ Rising(QueuedCmds') /\ Rising(batch') /\ Before(Taken', Queued')
         /\ Taken = {} /\ Queued = Taken' \cup Queued'
         /\ UNCHANGED <<Deferred, defer_execs, sent, ran, freed, left, pass>>
<1>1. /\ batch = <<>> /\ batch' = [i \in 1 .. k |-> qu[i].cmd] /\ qu' = SubSeq(qu, k + 1, Len(qu))
      /\ k <= Len(qu) /\ UNCHANGED <<defer_execs, sent, ran, freed, left, pass>>
  BY DEF Pop, Ready, history
<1>2. k \in Nat \ {0} BY CmdPipeAssumption
<1>3. batch' = [i \in 1 .. k |-> QueuedCmds[i]]
  <2>1. \A i \in 1 .. k : qu[i].cmd = QueuedCmds[i] BY <1>1, <1>2, QueueFacts
  <2> QED BY <1>1, <2>1
<1>4. \A i \in k + 1 .. Len(qu) : qu[i] \in [cmd : AllCmds, ready : BOOLEAN] BY <1>2, QueueFacts
<1>5. qu \in Seq([cmd : AllCmds, ready : BOOLEAN]) BY DEF TypeOK, AllCmds
<1>6. /\ qu' \in Seq([cmd : AllCmds, ready : BOOLEAN])
      /\ Len(qu') = IF k + 1 <= Len(qu) THEN Len(qu) - (k + 1) + 1 ELSE 0
      /\ \A i \in 1 .. Len(qu) - (k + 1) + 1 : qu'[i] = qu[(k + 1) + i - 1]
  BY <1>1, <1>2, <1>4, <1>5, QueueFacts, SubSeqProperties
<1>7. DOMAIN qu' = 1 .. Len(qu') BY <1>6, LenProperties
<1>8. DOMAIN qu' = 1 .. Len(qu) - k
  <2>1. \A l \in Nat : k <= l => (IF k + 1 <= l THEN l - (k + 1) + 1 ELSE 0) = l - k BY <1>2
  <2> QED BY <1>1, <1>6, <1>7, <2>1, QueueFacts
<1>9. \A i \in 1 .. Len(qu) - k : QueuedCmds'[i] = QueuedCmds[k + i]
  <2> SUFFICES ASSUME NEW i \in 1 .. Len(qu) - k PROVE QueuedCmds'[i] = QueuedCmds[k + i]
    OBVIOUS
  <2>1. \A l \in Nat : i \in 1 .. l - k =>
          i \in 1 .. l - (k + 1) + 1 /\ (k + 1) + i - 1 = k + i /\ k + i \in 1 .. l
    BY <1>2
  <2>2. i \in 1 .. Len(qu) - (k + 1) + 1 /\ (k + 1) + i - 1 = k + i /\ k + i \in DOMAIN qu
    BY <2>1, QueueFacts
  <2>3. qu'[i] = qu[k + i] BY <1>6, <2>2
  <2>4. QueuedCmds'[i] = qu'[i].cmd BY <1>8 DEF QueuedCmds
  <2> QED BY <2>2, <2>3, <2>4, QueueFacts
<1>10. DOMAIN QueuedCmds' = 1 .. Len(qu) - k BY <1>8 DEF QueuedCmds
<1>11. batch' \in Seq(AllCmds) /\ Len(batch') = k /\ DOMAIN batch' = 1 .. k
  <2>1. batch' \in [1 .. k -> AllCmds] BY <1>1, <1>2, <1>3, QueueFacts
  <2>2. batch' \in Seq(AllCmds) BY <1>2, <2>1, SeqOf
  <2> QED BY <1>2, <2>1, <2>2, LenProperties
<1>12. /\ Rising(batch') /\ Rising(QueuedCmds') /\ Before(InSeq(batch'), InSeq(QueuedCmds'))
       /\ InSeq(QueuedCmds) = InSeq(batch') \cup InSeq(QueuedCmds')
  <2>1. /\ Len(qu) \in Nat /\ k \in Nat /\ k <= Len(qu)
        /\ DOMAIN QueuedCmds = 1 .. Len(qu) /\ \A i \in 1 .. Len(qu) : QueuedCmds[i] # Again
    BY <1>1, <1>2, QueueFacts, CmdFacts DEF QueuedCmds
  <2>2. \A i \in 1 .. k : batch'[i] = QueuedCmds[i] BY <1>3
  <2>3. Divided(QueuedCmds, Len(qu), k, batch', QueuedCmds')
    BY <1>9, <1>10, <1>11, <2>1, <2>2 DEF Divided
  <2> QED BY <2>3, RisingSplit
<1>13. InSeq(QueuedCmds') = Queued' BY DEF InSeq, Queued, QueuedCmds
<1>14. Taken = {} BY <1>1 DEF Taken, InSeq
<1>15. batch' # <<>> BY <1>2, <1>11, EmptySeq
<1> QED BY <1>1, <1>6, <1>11, <1>12, <1>13, <1>14, <1>15, QueueFacts DEF Taken, Deferred

\* The head of the batch is run, or deferred behind the others.
LEMMA RunMove ==
  ASSUME TypeOK, Sorted, RunCmd
  PROVE  LET h == Head(batch) IN
         /\ h \in AllCmds /\ Taken = Taken' \cup {h} /\ \A d \in Taken' : h[1] = d[1] => h[2] < d[2]
         /\ batch' \in Seq(AllCmds) /\ Len(batch') <= MaxRead /\ Rising(batch')
         /\ wpc' = "run" <=> batch' # <<>>
         /\ \/ /\ h[3] = "defer" /\ Deferred' = Deferred \cup {h} /\ ran' = ran
               /\ defer_execs' = Append(defer_execs, h)
            \/ h[3] # "defer" /\ ran' = ran \cup {h} /\ UNCHANGED <<Deferred, defer_execs>>
         /\ UNCHANGED <<qu, QueuedCmds, Queued, sent, freed, left, pass>>
<1> DEFINE h == Head(batch)
<1>1. /\ batch # <<>> /\ batch' = Tail(batch) /\ wpc' = IF Len(batch) = 1 THEN "pop" ELSE "run"
      /\ ran' = IF h[3] = "defer" THEN ran ELSE ran \cup {h}
      /\ defer_execs' = IF h[3] = "defer" THEN Append(defer_execs, h) ELSE defer_execs
      /\ UNCHANGED <<qu, sent, freed, left, pass>>
  BY DEF RunCmd, channel
<1>2. /\ batch \in Seq(AllCmds) /\ defer_execs \in Seq(AllCmds \cup {Again}) BY Sets
<1>3. /\ InSeq(batch) = InSeq(batch') \cup {h} /\ h \in AllCmds /\ batch' \in Seq(AllCmds)
      /\ Len(batch') = Len(batch) - 1 /\ Len(batch) \in Nat \ {0}
      /\ Len(batch) = 1 <=> batch' = <<>>
  BY <1>1, <1>2, InTail
<1>4. Rising(batch') /\ \A d \in InSeq(batch') \ {Again} : h # Again /\ h[1] = d[1] => h[2] < d[2]
  BY <1>1, <1>2, RisingTail DEF Sorted
<1>5. \A d \in Taken' : d # Again BY <1>3, Sets, CmdFacts DEF Taken
<1>6. h # Again BY <1>3, CmdFacts
<1>7. Len(batch') <= MaxRead
  <2>1. Len(batch) <= MaxRead BY DEF TypeOK
  <2> QED BY <1>3, <2>1, CmdPipeAssumption
<1>8. wpc' = "run" <=> batch' # <<>> BY <1>1, <1>3
<1>9. CASE h[3] = "defer"
  <2>1. defer_execs' = Append(defer_execs, h) /\ ran' = ran BY <1>1, <1>9
  <2>2. InSeq(defer_execs') = InSeq(defer_execs) \cup {h} BY <1>2, <1>3, <2>1, InAppend
  <2>3. Deferred' = Deferred \cup {h} BY <1>6, <2>2 DEF Deferred
  <2> QED
    BY <1>1, <1>3, <1>4, <1>5, <1>6, <1>7, <1>8, <1>9, <2>1, <2>3 DEF Taken, QueuedCmds, Queued
<1>10. CASE h[3] # "defer"
  <2>1. ran' = ran \cup {h} /\ UNCHANGED defer_execs BY <1>1, <1>10
  <2> QED
    BY <1>1, <1>3, <1>4, <1>5, <1>6, <1>7, <1>8, <1>10, <2>1 DEF Taken, Deferred, QueuedCmds, Queued
<1> QED BY <1>9, <1>10

\* The head of the deferred ones is run; Again may go to the end once more.
LEMMA DrainMove ==
  ASSUME TypeOK, Sorted, DrainRun
  PROVE  LET h == Head(defer_execs) IN
         /\ defer_execs' \in Seq(Cmds \cup {Again}) /\ Rising(defer_execs')
         /\ AgainOnce(defer_execs')
         /\ Len(defer_execs') >= Len(defer_execs) - 1
         /\ \/ h = Again /\ UNCHANGED <<Deferred, ran>>
            \/ /\ h \in Cmds /\ Deferred = Deferred' \cup {h} /\ ran' = ran \cup {h}
               /\ \A d \in Deferred' : h[1] = d[1] => h[2] < d[2]
         /\ UNCHANGED <<qu, QueuedCmds, Queued, Taken, batch, sent, freed, pass>>
<1> DEFINE h == Head(defer_execs)
           t == Tail(defer_execs)
<1>1. /\ defer_execs # <<>>
      /\ defer_execs' = t \/ (h = Again /\ defer_execs' = Append(t, Again))
      /\ ran' = IF h = Again THEN ran ELSE ran \cup {h}
      /\ UNCHANGED <<qu, batch, sent, freed, pass>>
  BY DEF DrainRun, channel
<1>2. defer_execs \in Seq(Cmds \cup {Again}) /\ defer_execs # <<>> BY DEF TypeOK, DrainRun
<1>3. /\ InSeq(defer_execs) = InSeq(t) \cup {h} /\ h \in Cmds \cup {Again}
      /\ t \in Seq(Cmds \cup {Again})
      /\ Len(t) = Len(defer_execs) - 1 /\ Len(defer_execs) \in Nat \ {0}
      /\ h = defer_execs[1]
  BY <1>2, InTail
<1>4. Rising(t) /\ \A d \in InSeq(t) \ {Again} : h # Again /\ h[1] = d[1] => h[2] < d[2]
  <2>1. Rising(defer_execs) BY DEF Sorted
  <2> QED BY <1>2, <2>1, RisingTail
<1>5. /\ DOMAIN t = 1 .. Len(t) /\ DOMAIN defer_execs = 1 .. Len(defer_execs)
      /\ \A i \in 1 .. Len(t) : t[i] = defer_execs[i + 1]
  BY <1>1, <1>2, <1>3, HeadTailProperties, LenProperties
<1>6. AgainOnce(t)
  <2> SUFFICES ASSUME NEW i \in DOMAIN t, NEW j \in DOMAIN t, t[i] = Again, t[j] = Again PROVE i = j
    BY DEF AgainOnce
  <2>1. /\ i + 1 \in DOMAIN defer_execs /\ defer_execs[i + 1] = Again
        /\ j + 1 \in DOMAIN defer_execs /\ defer_execs[j + 1] = Again
    BY <1>3, <1>5
  <2>2. i + 1 = j + 1 BY <2>1 DEF Sorted, AgainOnce
  <2> QED BY <1>3, <1>5, <2>2
<1>7. h = Again => \A i \in DOMAIN t : t[i] # Again
  <2> SUFFICES ASSUME h = Again, NEW i \in DOMAIN t, t[i] = Again PROVE FALSE
    OBVIOUS
  <2>1. /\ i + 1 \in DOMAIN defer_execs /\ defer_execs[i + 1] = Again /\ 1 \in DOMAIN defer_execs
    BY <1>3, <1>5
  <2>2. i + 1 = 1 BY <1>3, <2>1 DEF Sorted, AgainOnce
  <2> QED BY <1>3, <1>5, <2>2
<1>8. CASE defer_execs' = t
  <2>1. h = Again => Deferred' = Deferred BY <1>3, <1>8 DEF Deferred
  <2>2. h # Again => Deferred = Deferred' \cup {h} BY <1>3, <1>8 DEF Deferred
  <2>3. Len(defer_execs') >= Len(defer_execs) - 1 BY <1>3, <1>8
  <2>4. h # Again => \A d \in Deferred' : h[1] = d[1] => h[2] < d[2] BY <1>4, <1>8 DEF Deferred
  <2>5. /\ defer_execs' \in Seq(Cmds \cup {Again}) /\ Rising(defer_execs')
        /\ AgainOnce(defer_execs')
    BY <1>3, <1>4, <1>6, <1>8
  <2>6. UNCHANGED <<qu, QueuedCmds, Queued, Taken, batch, sent, freed, pass>>
    BY <1>1 DEF QueuedCmds, Queued, Taken
  <2> QED BY <1>1, <1>3, <2>1, <2>2, <2>3, <2>4, <2>5, <2>6
<1>9. CASE h = Again /\ defer_execs' = Append(t, Again)
  <2>1. /\ defer_execs' \in Seq(Cmds \cup {Again}) /\ Len(defer_execs') = Len(t) + 1
        /\ \A i \in 1 .. Len(t) : defer_execs'[i] = t[i]
        /\ defer_execs'[Len(t) + 1] = Again
    BY <1>3, <1>9, AppendProperties
  <2>2. InSeq(defer_execs') = InSeq(t) \cup {Again} 
    <3>1. t \in Seq(Cmds \cup {Again}) /\ Again \in Cmds \cup {Again} BY <1>3
    <3> HIDE DEF t
    <3> QED BY <1>9, <3>1, InAppend
  <2>3. Deferred' = Deferred BY <1>3, <1>9, <2>2 DEF Deferred
  <2>4. Rising(defer_execs') BY <1>3, <1>4, <1>9, RisingAppend
  <2>5. DOMAIN defer_execs' = 1 .. Len(t) + 1 /\ Len(t) \in Nat BY <1>3, <2>1, LenProperties
  <2>6. \A i \in DOMAIN defer_execs' : defer_execs'[i] = Again => i = Len(t) + 1
    BY <1>5, <1>7, <1>9, <2>1, <2>5
  <2>7. Len(defer_execs') >= Len(defer_execs) - 1 BY <1>3, <2>1
  <2>8. UNCHANGED <<qu, QueuedCmds, Queued, Taken, batch, sent, freed, pass>>
    BY <1>1 DEF QueuedCmds, Queued, Taken
  <2> QED BY <1>1, <1>9, <2>1, <2>3, <2>4, <2>6, <2>7, <2>8 DEF AgainOnce
<1> QED BY <1>1, <1>8, <1>9

\* Again may join the deferred ones, and moves no command.
LEMMA WaitMove ==
  ASSUME TypeOK, Sorted, Wait
  PROVE  /\ defer_execs' \in Seq(Cmds \cup {Again}) /\ Rising(defer_execs')
         /\ AgainOnce(defer_execs')
         /\ UNCHANGED <<qu, QueuedCmds, Queued, Taken, Deferred, batch, sent, ran, freed>>
<1>1. /\ UNCHANGED <<qu, batch, sent, ran, freed>>
      /\ \/ UNCHANGED defer_execs
         \/ Again \notin InSeq(defer_execs) /\ defer_execs' = Append(defer_execs, Again)
  BY DEF Wait, InSeq, history
<1>2. defer_execs \in Seq(Cmds \cup {Again}) BY DEF TypeOK
<1>3. UNCHANGED <<QueuedCmds, Queued, Taken>> BY <1>1 DEF QueuedCmds, Queued, Taken
<1>4. CASE UNCHANGED defer_execs BY <1>1, <1>2, <1>3, <1>4 DEF Deferred, Sorted
<1>5. CASE Again \notin InSeq(defer_execs) /\ defer_execs' = Append(defer_execs, Again)
  <2>1. /\ defer_execs' \in Seq(Cmds \cup {Again}) /\ Len(defer_execs') = Len(defer_execs) + 1
        /\ \A i \in 1 .. Len(defer_execs) : defer_execs'[i] = defer_execs[i]
    BY <1>2, <1>5, AppendProperties
  <2>2. InSeq(defer_execs') = InSeq(defer_execs) \cup {Again} BY <1>2, <1>5, InAppend
  <2>3. Deferred' = Deferred BY <2>2 DEF Deferred
  <2>4. Rising(defer_execs') BY <1>2, <1>5, RisingAppend DEF Sorted
  <2>5. /\ DOMAIN defer_execs' = 1 .. Len(defer_execs) + 1 /\ Len(defer_execs) \in Nat
        /\ DOMAIN defer_execs = 1 .. Len(defer_execs)
    BY <1>2, <2>1, LenProperties
  <2>6. \A i \in DOMAIN defer_execs' : defer_execs'[i] = Again => i = Len(defer_execs) + 1
    <3> SUFFICES ASSUME NEW i \in DOMAIN defer_execs, defer_execs[i] = Again PROVE FALSE
      BY <2>1, <2>5
    <3> QED BY <1>5 DEF InSeq
  <2> QED BY <1>1, <1>3, <2>1, <2>3, <2>4, <2>6 DEF AgainOnce
<1> QED BY <1>1, <1>4, <1>5

\* ev_free frees what is queued and what is deferred.
LEMMA FreeMove ==
  ASSUME Free
  PROVE  /\ freed' = freed \cup Queued \cup Deferred /\ Queued' = {} /\ Deferred' = {}
         /\ qu' = <<>> /\ defer_execs' = <<>> /\ QueuedCmds' = <<>>
         /\ UNCHANGED <<Taken, batch, sent, ran, wpc, left, pass>>
  BY DEF Free, Queued, Deferred, InSeq, QueuedCmds, Taken

-----------------------------------------------------------------------------
(* The invariant, one lemma for each of its parts. *)

FlagTypes ==
  /\ wake_pending \in {0, 1} /\ pipe \in Nat /\ edge \in BOOLEAN
  /\ stop \in BOOLEAN /\ stopping \in BOOLEAN
  /\ pc \in [Threads -> Places]
  /\ wpc \in {"wait", "read", "clear", "pop", "run", "empty", "pass", "drain", "ended"}

SeqTypes ==
  /\ qu \in Seq([cmd : AllCmds, ready : BOOLEAN])
  /\ batch \in Seq(AllCmds) /\ Len(batch) <= MaxRead
  /\ defer_execs \in Seq(Cmds \cup {Again})

Rounds == pass \in 0 .. 2 /\ left \in 0 .. Len(defer_execs)

Sums ==
  /\ sent \in [Threads -> Nat]
  /\ ran \subseteq AllCmds /\ freed \subseteq AllCmds

\* TypeOK in four parts.
LEMMA Parts == TypeOK <=> FlagTypes /\ SeqTypes /\ Rounds /\ Sums
  BY DEF TypeOK, FlagTypes, SeqTypes, Rounds, Sums, AllCmds, Places

\* The same of the next state.
LEMMA PartsNext == TypeOK' <=> (FlagTypes /\ SeqTypes /\ Rounds /\ Sums)'
  BY DEF TypeOK, FlagTypes, SeqTypes, Rounds, Sums, AllCmds, Places

\* Who the threads are.
LEMMA Roles == Senders \subseteq Threads /\ Main \in Threads /\ Main \notin Senders
  BY CmdPipeAssumption DEF Threads

\* The flags and the places of the threads.
LEMMA FlagTypesStep ==
  ASSUME TypeOK, [Next]_vars
  PROVE  FlagTypes'
<1> USE Roles DEF FlagTypes, Places
<1>1. FlagTypes BY Parts
<1>Send. ASSUME NEW s \in Senders, NEW k \in Kinds, Send(s, k) PROVE FlagTypes'
  BY <1>1, <1>Send DEF Send, Claim, Goto, channel, flags, loop, history
<1>SenderEnd. ASSUME NEW s \in Senders, SenderEnd(s) PROVE FlagTypes'
  BY <1>1, <1>SenderEnd DEF SenderEnd, Goto, channel, flags, loop, history
<1>SendPublish. ASSUME NEW th \in Threads, SendPublish(th) PROVE FlagTypes'
  BY <1>1, <1>SendPublish DEF SendPublish, Goto, channel, flags, loop, history
<1>WakeCas. ASSUME NEW th \in Threads, WakeCas(th) PROVE FlagTypes'
  BY <1>1, <1>WakeCas DEF WakeCas, Sent, Goto, channel, flags, loop, history
<1>WakeStopped. ASSUME NEW th \in Threads, WakeStopped(th) PROVE FlagTypes'
  BY <1>1, <1>WakeStopped DEF WakeStopped, Sent, Goto, channel, flags, loop, history
<1>WakeCheck. ASSUME NEW th \in Threads, WakeCheck(th) PROVE FlagTypes'
  BY <1>1, <1>WakeCheck DEF WakeCheck, Goto, channel, flags, loop, history
<1>WakeWrite. ASSUME NEW th \in Threads, WakeWrite(th) PROVE FlagTypes'
  BY <1>1, <1>WakeWrite DEF WakeWrite, Sent, Goto, channel, flags, loop, history
<1>WakeInterrupted. ASSUME NEW th \in Threads, WakeInterrupted(th) PROVE FlagTypes'
  BY <1>1, <1>WakeInterrupted DEF WakeInterrupted, Goto, channel, flags, loop, history
<1>Wait. ASSUME Wait PROVE FlagTypes'
  BY <1>1, <1>Wait DEF Wait, Goto, channel, flags, loop, history
<1>Ended. ASSUME Ended PROVE FlagTypes'
  BY <1>1, <1>Ended DEF Ended, Goto, channel, flags, loop, history
<1>ReadTrigger. ASSUME ReadTrigger PROVE FlagTypes'
  BY <1>1, <1>ReadTrigger DEF ReadTrigger, Goto, channel, flags, loop, history
<1>Pop. ASSUME NEW k \in 1 .. MaxRead, Pop(k) PROVE FlagTypes'
  BY <1>1, <1>Pop DEF Pop, Goto, channel, flags, loop, history
<1>PopNone. ASSUME PopNone PROVE FlagTypes'
  BY <1>1, <1>PopNone DEF PopNone, Goto, channel, flags, loop, history
<1>EmptyCheck. ASSUME EmptyCheck PROVE FlagTypes'
  BY <1>1, <1>EmptyCheck DEF EmptyCheck, Goto, channel, flags, loop, history
<1>RunCmd. ASSUME RunCmd PROVE FlagTypes'
  BY <1>1, <1>RunCmd DEF RunCmd, Goto, channel, flags, loop, history
<1>DrainRun. ASSUME DrainRun PROVE FlagTypes'
  BY <1>1, <1>DrainRun DEF DrainRun, Goto, channel, flags, loop, history
<1>DrainPass. ASSUME DrainPass PROVE FlagTypes'
  BY <1>1, <1>DrainPass DEF DrainPass, Goto, channel, flags, loop, history
<1>FreeStart. ASSUME FreeStart PROVE FlagTypes'
  BY <1>1, <1>FreeStart DEF FreeStart, Goto, channel, flags, loop, history
<1>SendStop. ASSUME SendStop PROVE FlagTypes'
  BY <1>1, <1>SendStop DEF SendStop, Claim, Goto, channel, flags, loop, history
<1>Join. ASSUME Join PROVE FlagTypes'
  BY <1>1, <1>Join DEF Join, Goto, channel, flags, loop, history
<1>Free. ASSUME Free PROVE FlagTypes'
  BY <1>1, <1>Free DEF Free, Goto, channel, flags, loop, history
<1>Stutter. ASSUME UNCHANGED vars PROVE FlagTypes'
  BY <1>1, <1>Stutter DEF vars
<1> QED
  BY <1>Send, <1>SenderEnd, <1>SendPublish, <1>WakeCas, <1>WakeStopped, <1>WakeCheck,
     <1>WakeWrite, <1>WakeInterrupted, <1>Wait, <1>Ended, <1>ReadTrigger, <1>Pop, <1>PopNone,
     <1>EmptyCheck, <1>RunCmd, <1>DrainRun, <1>DrainPass, <1>FreeStart, <1>SendStop, <1>Join,
     <1>Free, <1>Stutter
  DEF Next, Wake, Watcher, EvFree, Over

\* What Send claims a cell for is a command of the sender.
LEMMA SendIsClaim ==
  ASSUME TypeOK, NEW s \in Senders, NEW k \in Kinds, Send(s, k)
  PROVE  \E c \in AllCmds : Claim(s, c) /\ c[1] = s /\ c[2] = sent[s] + 1
<1> DEFINE c == <<s, sent[s] + 1, k>>
<1>1. s \in Threads /\ sent[s] \in Nat /\ sent[s] < MaxCmd[s] /\ Claim(s, c)
  BY Roles DEF Send, TypeOK
<1>2. sent[s] + 1 \in Nat /\ sent[s] + 1 \in 1 .. MaxCmd[s] BY <1>1, CmdPipeAssumption
<1>3. c \in Cmds /\ c[1] = s /\ c[2] = sent[s] + 1 BY <1>2, CmdFacts
<1> QED BY <1>1, <1>3 DEF AllCmds

\* The sequences.
LEMMA SeqTypesStep ==
  ASSUME TypeOK, Sorted, [Next]_vars
  PROVE  SeqTypes'
<1> USE DEF SeqTypes
<1>1. SeqTypes BY Parts
<1>Send. ASSUME NEW s \in Senders, NEW k \in Kinds, Send(s, k) PROVE SeqTypes'
  <2>1. PICK c \in AllCmds : Claim(s, c) BY <1>Send, SendIsClaim
  <2>2. s \in Threads BY Roles
  <2> QED BY <1>1, <2>1, <2>2, ClaimMove
<1>SenderEnd. ASSUME NEW s \in Senders, SenderEnd(s) PROVE SeqTypes'
  BY <1>1, <1>SenderEnd DEF SenderEnd, channel, flags, loop, history
<1>SendPublish. ASSUME NEW th \in Threads, SendPublish(th) PROVE SeqTypes'
  BY <1>1, <1>SendPublish, PublishMove
<1>WakeCas. ASSUME NEW th \in Threads, WakeCas(th) PROVE SeqTypes'
  BY <1>1, <1>WakeCas DEF WakeCas, channel, flags, loop, history
<1>WakeStopped. ASSUME NEW th \in Threads, WakeStopped(th) PROVE SeqTypes'
  BY <1>1, <1>WakeStopped DEF WakeStopped, channel, flags, loop, history
<1>WakeCheck. ASSUME NEW th \in Threads, WakeCheck(th) PROVE SeqTypes'
  BY <1>1, <1>WakeCheck DEF WakeCheck, channel, flags, loop, history
<1>WakeWrite. ASSUME NEW th \in Threads, WakeWrite(th) PROVE SeqTypes'
  BY <1>1, <1>WakeWrite DEF WakeWrite, channel, flags, loop, history
<1>WakeInterrupted. ASSUME NEW th \in Threads, WakeInterrupted(th) PROVE SeqTypes'
  BY <1>1, <1>WakeInterrupted DEF WakeInterrupted, channel, flags, loop, history
<1>Wait. ASSUME Wait PROVE SeqTypes'
  BY <1>1, <1>Wait, WaitMove
<1>Ended. ASSUME Ended PROVE SeqTypes'
  BY <1>1, <1>Ended DEF Ended, channel, flags, loop, history
<1>ReadTrigger. ASSUME ReadTrigger PROVE SeqTypes'
  BY <1>1, <1>ReadTrigger DEF ReadTrigger, channel, flags, loop, history
<1>Pop. ASSUME NEW k \in 1 .. MaxRead, Pop(k) PROVE SeqTypes'
  <2>1. k <= MaxRead BY CmdPipeAssumption
  <2>2. Rising(QueuedCmds) BY DEF Sorted
  <2>3. /\ qu' \in Seq([cmd : AllCmds, ready : BOOLEAN]) /\ batch' \in Seq(AllCmds)
        /\ Len(batch') = k /\ UNCHANGED defer_execs
    BY <1>Pop, <2>2, PopMove
  <2> QED BY <1>1, <2>1, <2>3
<1>PopNone. ASSUME PopNone PROVE SeqTypes'
  BY <1>1, <1>PopNone DEF PopNone, channel, flags, loop, history
<1>EmptyCheck. ASSUME EmptyCheck PROVE SeqTypes'
  BY <1>1, <1>EmptyCheck DEF EmptyCheck, channel, flags, loop, history
<1>RunCmd. ASSUME RunCmd PROVE SeqTypes'
  <2> DEFINE h == Head(batch)
  <2>1. /\ batch' \in Seq(AllCmds) /\ Len(batch') <= MaxRead /\ UNCHANGED qu
        /\ defer_execs' = defer_execs \/ (h \in AllCmds /\ h[3] = "defer" /\ defer_execs' = Append(defer_execs, h))
    BY <1>RunCmd, RunMove
  <2>2. h \in AllCmds /\ h[3] = "defer" => h \in Cmds \cup {Again} BY CmdFacts
  <2> HIDE DEF h
  <2>3. defer_execs' \in Seq(Cmds \cup {Again})
    <3>1. h \in Cmds \cup {Again} => Append(defer_execs, h) \in Seq(Cmds \cup {Again})
      BY <1>1, AppendProperties
    <3> QED BY <1>1, <2>1, <2>2, <3>1
  <2> QED BY <1>1, <2>1, <2>3
<1>DrainRun. ASSUME DrainRun PROVE SeqTypes'
  <2>1. /\ defer_execs' \in Seq(Cmds \cup {Again}) /\ UNCHANGED <<qu, batch>>
    BY <1>DrainRun, DrainMove
  <2> QED BY <1>1, <2>1
<1>DrainPass. ASSUME DrainPass PROVE SeqTypes'
  BY <1>1, <1>DrainPass DEF DrainPass, channel, flags, loop, history
<1>FreeStart. ASSUME FreeStart PROVE SeqTypes'
  BY <1>1, <1>FreeStart DEF FreeStart, channel, flags, loop, history
<1>SendStop. ASSUME SendStop PROVE SeqTypes'
  <2>1. Claim(Main, Stop) BY <1>SendStop DEF SendStop
  <2> QED BY <1>1, <2>1, ClaimMove, Roles, CmdFacts
<1>Join. ASSUME Join PROVE SeqTypes'
  BY <1>1, <1>Join DEF Join, channel, flags, loop, history
<1>Free. ASSUME Free PROVE SeqTypes'
  <2>1. qu' = <<>> /\ defer_execs' = <<>> /\ UNCHANGED batch BY <1>Free, FreeMove
  <2> QED BY <1>1, <2>1, EmptySeq
<1>Stutter. ASSUME UNCHANGED vars PROVE SeqTypes'
  BY <1>1, <1>Stutter DEF vars
<1> QED
  BY <1>Send, <1>SenderEnd, <1>SendPublish, <1>WakeCas, <1>WakeStopped, <1>WakeCheck,
     <1>WakeWrite, <1>WakeInterrupted, <1>Wait, <1>Ended, <1>ReadTrigger, <1>Pop, <1>PopNone,
     <1>EmptyCheck, <1>RunCmd, <1>DrainRun, <1>DrainPass, <1>FreeStart, <1>SendStop, <1>Join,
     <1>Free, <1>Stutter
  DEF Next, Wake, Watcher, EvFree, Over

\* The number of deferred callbacks.
LEMMA DeferLength ==
  ASSUME SeqTypes
  PROVE  Len(defer_execs) \in Nat /\ (defer_execs = <<>> <=> Len(defer_execs) = 0)
  BY LenProperties, EmptySeq DEF SeqTypes

\* The drain's place.
LEMMA RoundsStep ==
  ASSUME TypeOK, Control, Sorted, SeqTypes', [Next]_vars
  PROVE  Rounds'
<1> USE DEF Rounds
<1>1. Rounds /\ Len(defer_execs) \in Nat BY Parts, DeferLength
<1>2. Len(defer_execs') \in Nat
  <2>1. SeqTypes' => Len(defer_execs') \in Nat BY LenProperties DEF SeqTypes
  <2> QED BY <2>1
<1>3. /\ wpc = "run" => left = 0
      /\ wpc = "drain" => left > 0
      /\ pc[Main] = "free" => left = 0
  BY <1>1 DEF Control
<1>Send. ASSUME NEW s \in Senders, NEW k \in Kinds, Send(s, k) PROVE Rounds'
  <2>1. UNCHANGED <<defer_execs, pass, left>> BY <1>Send DEF Send, Claim, loop
  <2> QED BY <1>1, <2>1
<1>SenderEnd. ASSUME NEW s \in Senders, SenderEnd(s) PROVE Rounds'
  BY <1>1, <1>SenderEnd DEF SenderEnd, channel, flags, loop, history
<1>SendPublish. ASSUME NEW th \in Threads, SendPublish(th) PROVE Rounds'
  <2>1. UNCHANGED <<defer_execs, pass, left>> BY <1>SendPublish DEF SendPublish, loop
  <2> QED BY <1>1, <2>1
<1>WakeCas. ASSUME NEW th \in Threads, WakeCas(th) PROVE Rounds'
  BY <1>1, <1>WakeCas DEF WakeCas, channel, flags, loop, history
<1>WakeStopped. ASSUME NEW th \in Threads, WakeStopped(th) PROVE Rounds'
  BY <1>1, <1>WakeStopped DEF WakeStopped, channel, flags, loop, history
<1>WakeCheck. ASSUME NEW th \in Threads, WakeCheck(th) PROVE Rounds'
  BY <1>1, <1>WakeCheck DEF WakeCheck, channel, flags, loop, history
<1>WakeWrite. ASSUME NEW th \in Threads, WakeWrite(th) PROVE Rounds'
  BY <1>1, <1>WakeWrite DEF WakeWrite, channel, flags, loop, history
<1>WakeInterrupted. ASSUME NEW th \in Threads, WakeInterrupted(th) PROVE Rounds'
  BY <1>1, <1>WakeInterrupted DEF WakeInterrupted, channel, flags, loop, history
<1>Wait. ASSUME Wait PROVE Rounds'
  BY <1>1, <1>2, <1>Wait DEF Wait
<1>Ended. ASSUME Ended PROVE Rounds'
  BY <1>1, <1>Ended DEF Ended, channel, flags, loop, history
<1>ReadTrigger. ASSUME ReadTrigger PROVE Rounds'
  BY <1>1, <1>ReadTrigger DEF ReadTrigger, channel, flags, loop, history
<1>Pop. ASSUME NEW k \in 1 .. MaxRead, Pop(k) PROVE Rounds'
  <2>1. UNCHANGED <<defer_execs, pass, left>> BY <1>Pop DEF Pop
  <2> QED BY <1>1, <2>1
<1>PopNone. ASSUME PopNone PROVE Rounds'
  BY <1>1, <1>PopNone DEF PopNone, channel, flags, loop, history
<1>EmptyCheck. ASSUME EmptyCheck PROVE Rounds'
  BY <1>1, <1>EmptyCheck DEF EmptyCheck, channel, flags, loop, history
<1>RunCmd. ASSUME RunCmd PROVE Rounds'
  <2>1. wpc = "run" /\ UNCHANGED <<pass, left>> BY <1>RunCmd DEF RunCmd
  <2> QED BY <1>1, <1>2, <1>3, <2>1
<1>DrainRun. ASSUME DrainRun PROVE Rounds'
  <2>1. wpc = "drain" /\ left' = left - 1 /\ UNCHANGED pass BY <1>DrainRun DEF DrainRun
  <2>2. Len(defer_execs') >= Len(defer_execs) - 1 BY <1>DrainRun, DrainMove
  <2> QED BY <1>1, <1>2, <1>3, <2>1, <2>2
<1>DrainPass. ASSUME DrainPass PROVE Rounds'
  BY <1>1, <1>DrainPass DEF DrainPass, channel, flags, history
<1>FreeStart. ASSUME FreeStart PROVE Rounds'
  BY <1>1, <1>FreeStart DEF FreeStart, channel, flags, loop, history
<1>SendStop. ASSUME SendStop PROVE Rounds'
  <2>1. UNCHANGED <<defer_execs, pass, left>> BY <1>SendStop DEF SendStop, Claim, loop
  <2> QED BY <1>1, <2>1
<1>Join. ASSUME Join PROVE Rounds'
  BY <1>1, <1>Join DEF Join, channel, flags, loop, history
<1>Free. ASSUME Free PROVE Rounds'
  <2>1. pc[Main] = "free" /\ UNCHANGED <<pass, left>> BY <1>Free DEF Free
  <2> QED BY <1>1, <1>2, <1>3, <2>1
<1>Stutter. ASSUME UNCHANGED vars PROVE Rounds'
  BY <1>1, <1>Stutter DEF vars
<1> QED
  BY <1>Send, <1>SenderEnd, <1>SendPublish, <1>WakeCas, <1>WakeStopped, <1>WakeCheck,
     <1>WakeWrite, <1>WakeInterrupted, <1>Wait, <1>Ended, <1>ReadTrigger, <1>Pop, <1>PopNone,
     <1>EmptyCheck, <1>RunCmd, <1>DrainRun, <1>DrainPass, <1>FreeStart, <1>SendStop, <1>Join,
     <1>Free, <1>Stutter
  DEF Next, Wake, Watcher, EvFree, Over

\* The counts, and the commands that are over.
LEMMA SumsStep ==
  ASSUME TypeOK, Sorted, [Next]_vars
  PROVE  Sums'
<1> USE DEF Sums
<1>1. Sums BY Parts
<1>Send. ASSUME NEW s \in Senders, NEW k \in Kinds, Send(s, k) PROVE Sums'
  <2>1. PICK c \in AllCmds : Claim(s, c) BY <1>Send, SendIsClaim
  <2> QED BY <1>1, <2>1, Roles DEF Claim
<1>SenderEnd. ASSUME NEW s \in Senders, SenderEnd(s) PROVE Sums'
  BY <1>1, <1>SenderEnd DEF SenderEnd, channel, flags, loop, history
<1>SendPublish. ASSUME NEW th \in Threads, SendPublish(th) PROVE Sums'
  BY <1>1, <1>SendPublish DEF SendPublish, history
<1>WakeCas. ASSUME NEW th \in Threads, WakeCas(th) PROVE Sums'
  BY <1>1, <1>WakeCas DEF WakeCas, channel, flags, loop, history
<1>WakeStopped. ASSUME NEW th \in Threads, WakeStopped(th) PROVE Sums'
  BY <1>1, <1>WakeStopped DEF WakeStopped, channel, flags, loop, history
<1>WakeCheck. ASSUME NEW th \in Threads, WakeCheck(th) PROVE Sums'
  BY <1>1, <1>WakeCheck DEF WakeCheck, channel, flags, loop, history
<1>WakeWrite. ASSUME NEW th \in Threads, WakeWrite(th) PROVE Sums'
  BY <1>1, <1>WakeWrite DEF WakeWrite, channel, flags, loop, history
<1>WakeInterrupted. ASSUME NEW th \in Threads, WakeInterrupted(th) PROVE Sums'
  BY <1>1, <1>WakeInterrupted DEF WakeInterrupted, channel, flags, loop, history
<1>Wait. ASSUME Wait PROVE Sums'
  BY <1>1, <1>Wait DEF Wait, history
<1>Ended. ASSUME Ended PROVE Sums'
  BY <1>1, <1>Ended DEF Ended, channel, flags, loop, history
<1>ReadTrigger. ASSUME ReadTrigger PROVE Sums'
  BY <1>1, <1>ReadTrigger DEF ReadTrigger, channel, flags, loop, history
<1>Pop. ASSUME NEW k \in 1 .. MaxRead, Pop(k) PROVE Sums'
  BY <1>1, <1>Pop DEF Pop, history
<1>PopNone. ASSUME PopNone PROVE Sums'
  BY <1>1, <1>PopNone DEF PopNone, channel, flags, loop, history
<1>EmptyCheck. ASSUME EmptyCheck PROVE Sums'
  BY <1>1, <1>EmptyCheck DEF EmptyCheck, channel, flags, loop, history
<1>RunCmd. ASSUME RunCmd PROVE Sums'
  <2>1. sent' = sent /\ freed' = freed /\ ran' \subseteq ran \cup {Head(batch)} /\ Head(batch) \in AllCmds
    BY <1>RunCmd, RunMove
  <2> QED BY <1>1, <2>1
<1>DrainRun. ASSUME DrainRun PROVE Sums'
  <2>1. /\ sent' = sent /\ freed' = freed
        /\ ran' = ran \/ (Head(defer_execs) \in Cmds /\ ran' = ran \cup {Head(defer_execs)})
    BY <1>DrainRun, DrainMove
  <2>2. ran' \subseteq AllCmds BY <1>1, <2>1 DEF AllCmds
  <2>3. UNCHANGED <<sent, freed>> BY <2>1
  <2> QED BY <1>1, <2>2, <2>3
<1>DrainPass. ASSUME DrainPass PROVE Sums'
  BY <1>1, <1>DrainPass DEF DrainPass, channel, flags, loop, history
<1>FreeStart. ASSUME FreeStart PROVE Sums'
  BY <1>1, <1>FreeStart DEF FreeStart, channel, flags, loop, history
<1>SendStop. ASSUME SendStop PROVE Sums'
  BY <1>1, <1>SendStop, Roles DEF SendStop, Claim
<1>Join. ASSUME Join PROVE Sums'
  BY <1>1, <1>Join DEF Join, channel, flags, loop, history
<1>Free. ASSUME Free PROVE Sums'
  BY <1>1, <1>Free, FreeMove, Sets
<1>Stutter. ASSUME UNCHANGED vars PROVE Sums'
  BY <1>1, <1>Stutter DEF vars
<1> QED
  BY <1>Send, <1>SenderEnd, <1>SendPublish, <1>WakeCas, <1>WakeStopped, <1>WakeCheck,
     <1>WakeWrite, <1>WakeInterrupted, <1>Wait, <1>Ended, <1>ReadTrigger, <1>Pop, <1>PopNone,
     <1>EmptyCheck, <1>RunCmd, <1>DrainRun, <1>DrainPass, <1>FreeStart, <1>SendStop, <1>Join,
     <1>Free, <1>Stutter
  DEF Next, Wake, Watcher, EvFree, Over

\* Where the threads are.
LEMMA ControlStep ==
  ASSUME TypeOK, Control, Sorted, [Next]_vars
  PROVE  Control'
<1> USE Roles DEF Places
<1>1. /\ Control /\ pc \in [Threads -> Places] /\ sent \in [Threads -> Nat]
      /\ left \in Nat /\ Len(defer_execs) \in Nat
  BY Parts, DeferLength DEF FlagTypes, Sums, Rounds
<1>Send. ASSUME NEW s \in Senders, NEW k \in Kinds, Send(s, k) PROVE Control'
  BY <1>1, <1>Send DEF Send, Claim, Goto, Control, channel, flags, loop, history
<1>SenderEnd. ASSUME NEW s \in Senders, SenderEnd(s) PROVE Control'
  BY <1>1, <1>SenderEnd DEF SenderEnd, Goto, Control, channel, flags, loop, history
<1>SendPublish. ASSUME NEW th \in Threads, SendPublish(th) PROVE Control'
  BY <1>1, <1>SendPublish DEF SendPublish, Goto, Control, channel, flags, loop, history
<1>WakeCas. ASSUME NEW th \in Threads, WakeCas(th) PROVE Control'
  BY <1>1, <1>WakeCas DEF WakeCas, Sent, Goto, Control, channel, flags, loop, history
<1>WakeStopped. ASSUME NEW th \in Threads, WakeStopped(th) PROVE Control'
  BY <1>1, <1>WakeStopped DEF WakeStopped, Sent, Goto, Control, channel, flags, loop, history
<1>WakeCheck. ASSUME NEW th \in Threads, WakeCheck(th) PROVE Control'
  BY <1>1, <1>WakeCheck DEF WakeCheck, Goto, Control, channel, flags, loop, history
<1>WakeWrite. ASSUME NEW th \in Threads, WakeWrite(th) PROVE Control'
  BY <1>1, <1>WakeWrite DEF WakeWrite, Sent, Goto, Control, channel, flags, loop, history
<1>WakeInterrupted. ASSUME NEW th \in Threads, WakeInterrupted(th) PROVE Control'
  BY <1>1, <1>WakeInterrupted DEF WakeInterrupted, Goto, Control, channel, flags, loop, history
<1>Wait. ASSUME Wait PROVE Control'
  BY <1>1, <1>Wait DEF Wait, Goto, Control, channel, flags, loop, history
<1>Ended. ASSUME Ended PROVE Control'
  BY <1>1, <1>Ended DEF Ended, Goto, Control, channel, flags, loop, history
<1>ReadTrigger. ASSUME ReadTrigger PROVE Control'
  BY <1>1, <1>ReadTrigger DEF ReadTrigger, Goto, Control, channel, flags, loop, history
<1>Pop. ASSUME NEW k \in 1 .. MaxRead, Pop(k) PROVE Control'
  <2>1. Rising(QueuedCmds) BY DEF Sorted
  <2>2. batch' # <<>> BY <1>Pop, <2>1, PopMove
  <2> QED BY <1>1, <1>Pop, <2>2 DEF Pop, Control, flags, history
<1>PopNone. ASSUME PopNone PROVE Control'
  BY <1>1, <1>PopNone DEF PopNone, Goto, Control, channel, flags, loop, history
<1>EmptyCheck. ASSUME EmptyCheck PROVE Control'
  BY <1>1, <1>EmptyCheck DEF EmptyCheck, Goto, Control, channel, flags, loop, history
<1>RunCmd. ASSUME RunCmd PROVE Control'
  <2>1. /\ wpc = "run" /\ wpc' \in {"pop", "run"}
        /\ wpc' = "run" <=> batch' # <<>>
        /\ UNCHANGED <<left, pc, sent, freed>>
    BY <1>RunCmd, RunMove DEF RunCmd
  <2> QED BY <1>1, <2>1 DEF Control
<1>DrainRun. ASSUME DrainRun PROVE Control'
  <2>1. wpc = "drain" /\ left' = left - 1 /\ wpc' = IF left = 1 THEN "pass" ELSE "drain"
    BY <1>DrainRun DEF DrainRun
  <2>2. UNCHANGED <<batch, pc, sent, freed>> BY <1>DrainRun DEF DrainRun, channel, flags
  <2> QED BY <1>1, <2>1, <2>2 DEF Control
<1>DrainPass. ASSUME DrainPass PROVE Control'
  <2>1. defer_execs = <<>> <=> Len(defer_execs) = 0 BY Parts, DeferLength
  <2> QED BY <1>1, <1>DrainPass, <2>1 DEF DrainPass, Control, channel, flags, history
<1>FreeStart. ASSUME FreeStart PROVE Control'
  BY <1>1, <1>FreeStart DEF FreeStart, Goto, Control, channel, flags, loop, history
<1>SendStop. ASSUME SendStop PROVE Control'
  BY <1>1, <1>SendStop DEF SendStop, Claim, Goto, Control, channel, flags, loop, history
<1>Join. ASSUME Join PROVE Control'
  BY <1>1, <1>Join DEF Join, Goto, Control, channel, flags, loop, history
<1>Free. ASSUME Free PROVE Control'
  BY <1>1, <1>Free DEF Free, Goto, Control, channel, flags, loop, history
<1>Stutter. ASSUME UNCHANGED vars PROVE Control'
  BY <1>1, <1>Stutter DEF vars, Control
<1> QED
  BY <1>Send, <1>SenderEnd, <1>SendPublish, <1>WakeCas, <1>WakeStopped, <1>WakeCheck,
     <1>WakeWrite, <1>WakeInterrupted, <1>Wait, <1>Ended, <1>ReadTrigger, <1>Pop, <1>PopNone,
     <1>EmptyCheck, <1>RunCmd, <1>DrainRun, <1>DrainPass, <1>FreeStart, <1>SendStop, <1>Join,
     <1>Free, <1>Stutter
  DEF Next, Wake, Watcher, EvFree, Over

\* A sender and a number name one command in the queue, one taken and one deferred.
LEMMA SequencesKeyed ==
  ASSUME TypeOK, Sorted
  PROVE  /\ Keyed(Queued) /\ Keyed(Taken) /\ Keyed(Deferred)
         /\ IsInjective(QueuedCmds) /\ IsInjective(batch) /\ IsInjective(defer_execs)
<1>1. /\ DOMAIN QueuedCmds \subseteq Int /\ InSeq(QueuedCmds) = Queued
      /\ \A i \in DOMAIN QueuedCmds : QueuedCmds[i] # Again /\ QueuedCmds[i][2] \in Int
  BY QueueFacts, CmdFacts DEF QueuedCmds
<1>2. /\ DOMAIN batch \subseteq Int
      /\ \A i \in DOMAIN batch : batch[i] # Again /\ batch[i][2] \in Int
  <2>1. batch \in Seq(AllCmds) BY Sets
  <2>2. DOMAIN batch = 1 .. Len(batch) /\ Len(batch) \in Nat /\ \A i \in 1 .. Len(batch) : batch[i] \in AllCmds
    BY <2>1, LenProperties, ElementOfSeq
  <2> QED BY <2>2, CmdFacts
<1>3. /\ DOMAIN defer_execs \subseteq Int
      /\ \A i \in DOMAIN defer_execs : defer_execs[i] = Again \/ defer_execs[i][2] \in Int
  <2>1. defer_execs \in Seq(AllCmds \cup {Again}) BY Sets
  <2>2. /\ DOMAIN defer_execs = 1 .. Len(defer_execs) /\ Len(defer_execs) \in Nat
        /\ \A i \in 1 .. Len(defer_execs) : defer_execs[i] \in AllCmds \cup {Again}
    BY <2>1, LenProperties, ElementOfSeq
  <2> QED BY <2>2, CmdFacts
<1>4. Keyed(Queued) /\ IsInjective(QueuedCmds)
  <2>1. Rising(QueuedCmds) BY DEF Sorted
  <2>2. /\ \A i, j \in DOMAIN QueuedCmds : QueuedCmds[i] = QueuedCmds[j] => i = j
        /\ Keyed(InSeq(QueuedCmds) \ {Again})
    BY <1>1, <2>1, RisingOnce
  <2>3. InSeq(QueuedCmds) \ {Again} = Queued BY <1>1 DEF InSeq
  <2> QED BY <2>2, <2>3 DEF IsInjective
<1>5. Keyed(Taken) /\ IsInjective(batch)
  <2>1. Rising(batch) BY DEF Sorted
  <2>2. /\ \A i, j \in DOMAIN batch : batch[i] = batch[j] => i = j
        /\ Keyed(InSeq(batch) \ {Again})
    BY <1>2, <2>1, RisingOnce
  <2>3. InSeq(batch) \ {Again} = Taken BY <1>2 DEF InSeq, Taken
  <2> QED BY <2>2, <2>3 DEF IsInjective
<1>6. Keyed(Deferred) /\ IsInjective(defer_execs)
  <2>1. Rising(defer_execs) BY DEF Sorted
  <2>2. /\ \A i, j \in DOMAIN defer_execs : defer_execs[i] # Again /\ defer_execs[i] = defer_execs[j] => i = j
        /\ Keyed(InSeq(defer_execs) \ {Again})
    BY <1>3, <2>1, RisingOnce
  <2> QED BY <2>2 DEF IsInjective, Deferred, Sorted, AgainOnce
<1> QED BY <1>4, <1>5, <1>6

\* At most one Again, and no second one when a command is appended.
LEMMA AgainStaysOne ==
  ASSUME NEW S, NEW q \in Seq(S), NEW x \in S, x # Again, AgainOnce(q)
  PROVE  AgainOnce(Append(q, x))
<1> DEFINE a == Append(q, x)
<1>1. /\ a \in Seq(S) /\ Len(a) = Len(q) + 1
      /\ \A i \in 1 .. Len(q) : a[i] = q[i]
      /\ a[Len(q) + 1] = x
  BY AppendProperties
<1>2. DOMAIN a = 1 .. Len(q) + 1 /\ DOMAIN q = 1 .. Len(q) /\ Len(q) \in Nat
  BY <1>1, LenProperties
<1> HIDE DEF a
<1>3. \A i \in DOMAIN a : a[i] = Again => i \in DOMAIN q /\ q[i] = Again BY <1>1, <1>2
<1> QED BY <1>3 DEF a, AgainOnce

-----------------------------------------------------------------------------
(* The order of the commands, one lemma for each action that moves any. *)

\* Nothing is freed before ev_free has joined every thread.
LEMMA NotYetFreed ==
  ASSUME Control
  PROVE  /\ \A s \in Senders : pc[s] = "idle" => freed = {}
         /\ pc[Main] \in {"stop", "free"} \/ wpc # "ended" => freed = {}
  BY DEF Control

\* A step that moves no command.
LEMMA StillStep ==
  ASSUME Ordered, UNCHANGED <<QueuedCmds, Queued, Taken, Deferred, batch, defer_execs, sent, ran, freed>>
  PROVE  Ordered'
<1>1. Sorted' BY DEF Ordered, Sorted
<1>2. Stages' BY DEF Ordered, Stages
<1>3. Leftovers' BY DEF Ordered, Leftovers
<1>4. Numbered' BY DEF Ordered, Numbered, AllSent
<1> QED BY <1>1, <1>2, <1>3, <1>4 DEF Ordered

\* A new command is the last of its sender, wherever the others are.
LEMMA ClaimStep ==
  ASSUME TypeOK, Ordered, freed = {}, NEW th \in Threads, NEW c \in AllCmds, Claim(th, c),
         c[1] = th, c[2] = sent[th] + 1
  PROVE  Ordered'
<1>1. /\ QueuedCmds' = Append(QueuedCmds, c) /\ Queued' = Queued \cup {c}
      /\ UNCHANGED <<Taken, Deferred, batch, defer_execs, ran, freed>>
      /\ sent' = [sent EXCEPT ![th] = @ + 1]
  BY ClaimMove
<1>2. sent \in [Threads -> Nat] BY Parts DEF Sums
<1>3. /\ QueuedCmds \in Seq(AllCmds) /\ InSeq(QueuedCmds) = Queued
      /\ \A d \in AllCmds : d[1] \in Threads /\ d[2] \in Nat
      /\ AllSent \subseteq AllCmds
  BY QueueFacts, Sets, CmdFacts DEF AllSent
<1>4. \A d \in AllSent : d[1] = th => d[2] \in 1 .. sent[th] BY DEF Ordered, Numbered
<1>5. \A d \in AllSent : d[1] = c[1] => d[2] < c[2] BY <1>2, <1>4
<1>6. Sorted'
  <2>1. \A d \in InSeq(QueuedCmds) \ {Again} : d[1] = c[1] => d[2] < c[2] BY <1>3, <1>5 DEF AllSent
  <2>2. Rising(Append(QueuedCmds, c)) BY <1>3, <2>1, RisingAppend DEF Ordered, Sorted
  <2> QED BY <1>1, <2>2 DEF Ordered, Sorted
<1>7. Stages'
  <2>1. Before(AllSent, {c}) BY <1>5 DEF Before
  <2> QED BY <1>1, <2>1 DEF Ordered, Stages, Before, AllSent
<1>8. Leftovers' BY <1>1 DEF Ordered, Leftovers
<1>9. Numbered'
  <2>1. AllSent' = AllSent \cup {c} BY <1>1 DEF AllSent
  <2>2. ASSUME NEW t \in Threads, t # th
        PROVE  /\ \A d \in AllSent' : d[1] = t => d[2] \in 1 .. sent'[t]
               /\ \A n \in 1 .. sent'[t] : \E d \in AllSent' : d[1] = t /\ d[2] = n
    BY <1>1, <1>2, <2>1, <2>2 DEF Ordered, Numbered
  <2>3. sent'[th] = sent[th] + 1 /\ sent[th] \in Nat BY <1>1, <1>2
  <2>4. \A d \in AllSent' : d[1] = th => d[2] \in 1 .. sent'[th] BY <1>4, <2>1, <2>3
  <2>5. ASSUME NEW n \in 1 .. sent'[th] PROVE \E d \in AllSent' : d[1] = th /\ d[2] = n
    <3>1. CASE n = sent[th] + 1 BY <2>1, <3>1
    <3>2. CASE n # sent[th] + 1
      <4>1. n \in 1 .. sent[th] BY <2>3, <3>2
      <4> QED BY <2>1, <4>1 DEF Ordered, Numbered
    <3> QED BY <3>1, <3>2
  <2> QED BY <2>2, <2>4, <2>5 DEF Numbered
<1> QED BY <1>6, <1>7, <1>8, <1>9 DEF Ordered

\* The wait.
LEMMA WaitStep ==
  ASSUME TypeOK, Ordered, Wait
  PROVE  Ordered'
<1>1. /\ Rising(defer_execs')
      /\ AgainOnce(defer_execs')
      /\ UNCHANGED <<QueuedCmds, Queued, Taken, Deferred, batch, sent, ran, freed>>
  BY WaitMove DEF Ordered
<1>2. Sorted' BY <1>1 DEF Ordered, Sorted
<1>3. Stages' BY <1>1 DEF Ordered, Stages
<1>4. Leftovers' BY <1>1 DEF Ordered, Leftovers
<1>5. Numbered' BY <1>1 DEF Ordered, Numbered, AllSent
<1> QED BY <1>2, <1>3, <1>4, <1>5 DEF Ordered

\* A batch is taken.
LEMMA PopStep ==
  ASSUME TypeOK, Ordered, freed = {}, NEW k \in 1 .. MaxRead, Pop(k)
  PROVE  Ordered'
<1>1. /\ Rising(QueuedCmds') /\ Rising(batch') /\ Before(Taken', Queued')
      /\ Taken = {} /\ Queued = Taken' \cup Queued'
      /\ UNCHANGED <<Deferred, defer_execs, sent, ran, freed>>
  <2>1. Rising(QueuedCmds) BY DEF Ordered, Sorted
  <2> QED BY <2>1, PopMove
<1>2. Sorted' BY <1>1 DEF Ordered, Sorted
<1>3. Stages' BY <1>1 DEF Ordered, Stages
<1>4. Leftovers' BY <1>1 DEF Ordered, Leftovers
<1>5. AllSent' = AllSent BY <1>1 DEF AllSent
<1>6. Numbered' BY <1>1, <1>5 DEF Ordered, Numbered
<1> QED BY <1>2, <1>3, <1>4, <1>6 DEF Ordered

\* A command of the batch is run or deferred.
LEMMA RunStep ==
  ASSUME TypeOK, Ordered, freed = {}, RunCmd
  PROVE  Ordered'
<1> DEFINE h == Head(batch)
<1>1. /\ h \in AllCmds /\ Taken = Taken' \cup {h} /\ \A d \in Taken' : h[1] = d[1] => h[2] < d[2]
      /\ Rising(batch')
      /\ \/ /\ h[3] = "defer" /\ Deferred' = Deferred \cup {h} /\ ran' = ran
            /\ defer_execs' = Append(defer_execs, h)
         \/ h[3] # "defer" /\ ran' = ran \cup {h} /\ UNCHANGED <<Deferred, defer_execs>>
      /\ UNCHANGED <<qu, QueuedCmds, Queued, sent, freed>>
  BY RunMove DEF Ordered
<1>2. /\ defer_execs \in Seq(AllCmds \cup {Again}) /\ h # Again /\ h[2] \in Nat
      /\ \A d \in Taken \cup Queued \cup Deferred \cup ran : d[2] \in Nat
  BY <1>1, Sets, CmdFacts
<1> HIDE DEF h
<1>3. Stages BY DEF Ordered
<1>4. /\ \A d \in Deferred \cup ran : d[1] = h[1] => d[2] < h[2]
      /\ \A d \in Queued : h[1] = d[1] => h[2] < d[2]
  BY <1>1, <1>3 DEF Stages, Before
<1>5. Before(Taken', Queued') BY <1>1, <1>3 DEF Stages, Before
<1>6. AllSent' = AllSent BY <1>1 DEF AllSent
<1>7. Numbered' BY <1>1, <1>6 DEF Ordered, Numbered
<1>8. Leftovers' BY <1>1 DEF Ordered, Leftovers, Keyed, Apart
<1>9. CASE h[3] = "defer" /\ Deferred' = Deferred \cup {h} /\ ran' = ran /\ defer_execs' = Append(defer_execs, h)
  <2>1. \A d \in InSeq(defer_execs) \ {Again} : d[1] = h[1] => d[2] < h[2] BY <1>4 DEF Deferred
  <2>2. Rising(defer_execs) BY DEF Ordered, Sorted
  <2>3. Rising(defer_execs') BY <1>1, <1>2, <1>9, <2>1, <2>2, RisingAppend
  <2>4. AgainOnce(defer_execs')
    BY <1>1, <1>2, <1>9, AgainStaysOne DEF Ordered, Sorted
  <2>5. Sorted' BY <1>1, <2>3, <2>4 DEF Ordered, Sorted
  <2>6. Before(Deferred', Taken' \cup Queued') BY <1>1, <1>3, <1>4, <1>9 DEF Stages, Before
  <2>7. Before(ran', Taken' \cup Queued') BY <1>1, <1>3, <1>9 DEF Stages, Before
  <2>8. \A c \in Deferred' : c[3] = "defer" /\ \A d \in ran' : c[1] = d[1] /\ d[3] = "defer" => d[2] < c[2]
    BY <1>3, <1>4, <1>9 DEF Stages
  <2>9. Apart(Deferred', ran')
    <3>1. \A d \in ran : h[1] = d[1] => h[2] # d[2] BY <1>2, <1>4
    <3> QED BY <1>3, <1>9, <3>1 DEF Stages, Apart
  <2>10. Stages' BY <1>3, <1>5, <1>9, <2>6, <2>7, <2>8, <2>9 DEF Stages
  <2> QED BY <1>7, <1>8, <2>5, <2>10 DEF Ordered
<1>10. CASE h[3] # "defer" /\ ran' = ran \cup {h} /\ UNCHANGED <<Deferred, defer_execs>>
  <2>1. Sorted' BY <1>1, <1>10 DEF Ordered, Sorted
  <2>2. Before(Deferred', Taken' \cup Queued') BY <1>1, <1>3, <1>10 DEF Stages, Before
  <2>3. Before(ran', Taken' \cup Queued') BY <1>1, <1>3, <1>4, <1>10 DEF Stages, Before
  <2>4. \A c \in Deferred' : c[3] = "defer" /\ \A d \in ran' : c[1] = d[1] /\ d[3] = "defer" => d[2] < c[2]
    BY <1>3, <1>10 DEF Stages
  <2>5. Apart(Deferred', ran')
    <3>1. \A d \in Deferred : d[1] = h[1] => d[2] # h[2] BY <1>2, <1>4
    <3> QED BY <1>3, <1>10, <3>1 DEF Stages, Apart
  <2>6. Keyed(ran')
    <3>1. \A d \in ran : d[1] = h[1] => d[2] # h[2] BY <1>2, <1>4
    <3> QED BY <1>3, <1>10, <3>1 DEF Stages, Keyed
  <2>7. Stages' BY <1>5, <2>2, <2>3, <2>4, <2>5, <2>6 DEF Stages
  <2> QED BY <1>7, <1>8, <2>1, <2>7 DEF Ordered
<1> QED BY <1>1, <1>9, <1>10

\* A deferred callback is run.
LEMMA DrainStep ==
  ASSUME TypeOK, Ordered, freed = {}, DrainRun
  PROVE  Ordered'
<1> DEFINE h == Head(defer_execs)
<1>1. /\ Rising(defer_execs')
      /\ AgainOnce(defer_execs')
      /\ \/ h = Again /\ UNCHANGED <<Deferred, ran>>
         \/ /\ h \in Cmds /\ Deferred = Deferred' \cup {h} /\ ran' = ran \cup {h}
            /\ \A d \in Deferred' : h[1] = d[1] => h[2] < d[2]
      /\ UNCHANGED <<QueuedCmds, Queued, Taken, batch, sent, freed>>
  BY DrainMove DEF Ordered
<1>2. \A d \in Taken \cup Queued \cup Deferred \cup ran : d[2] \in Nat BY Sets, CmdFacts
<1> HIDE DEF h
<1>3. Sorted' BY <1>1 DEF Ordered, Sorted
<1>4. Stages BY DEF Ordered
<1>5. AllSent' = AllSent BY <1>1 DEF AllSent
<1>6. Numbered' BY <1>1, <1>5 DEF Ordered, Numbered
<1>7. CASE UNCHANGED <<Deferred, ran>>
  <2>1. Stages' BY <1>1, <1>4, <1>7 DEF Stages
  <2>2. Leftovers' BY <1>1, <1>7 DEF Ordered, Leftovers
  <2> QED BY <1>3, <1>6, <2>1, <2>2 DEF Ordered
<1>8. CASE /\ Deferred = Deferred' \cup {h} /\ ran' = ran \cup {h}
           /\ \A d \in Deferred' : h[1] = d[1] => h[2] < d[2]
  <2>1. Before(Deferred', Taken' \cup Queued') BY <1>1, <1>4, <1>8 DEF Stages, Before
  <2>2. Before(ran', Taken' \cup Queued') BY <1>1, <1>4, <1>8 DEF Stages, Before
  <2>3. \A c \in Deferred' : c[3] = "defer" /\ \A d \in ran' : c[1] = d[1] /\ d[3] = "defer" => d[2] < c[2]
    BY <1>4, <1>8 DEF Stages
  <2>4. \A d \in Deferred' : h[1] = d[1] => d[2] # h[2] BY <1>2, <1>8
  <2>5. Apart(Deferred', ran') BY <1>4, <1>8, <2>4 DEF Stages, Apart
  <2>6. Keyed(ran') BY <1>4, <1>8 DEF Stages, Apart, Keyed
  <2>7. Stages' BY <1>1, <1>4, <2>1, <2>2, <2>3, <2>5, <2>6 DEF Stages
  <2>8. Leftovers' BY <1>1 DEF Ordered, Leftovers, Keyed, Apart
  <2> QED BY <1>3, <1>6, <2>7, <2>8 DEF Ordered
<1> QED BY <1>1, <1>7, <1>8

\* The rest is freed.
LEMMA FreeStep ==
  ASSUME TypeOK, Ordered, freed = {}, batch = <<>>, Free
  PROVE  Ordered'
<1>1. /\ freed' = Queued \cup Deferred /\ Queued' = {} /\ Deferred' = {}
      /\ defer_execs' = <<>> /\ QueuedCmds' = <<>>
      /\ UNCHANGED <<Taken, batch, sent, ran>>
  BY FreeMove
<1>2. \A d \in Queued \cup Deferred \cup ran : d[2] \in Nat BY Sets, CmdFacts
<1>3. Stages BY DEF Ordered
<1>4. Sorted' BY <1>1 DEF Ordered, Sorted, Rising, AgainOnce
<1>5. Stages' BY <1>1, <1>3 DEF Stages, Before, Apart
<1>6. AllSent' = AllSent BY <1>1 DEF AllSent
<1>7. Numbered' BY <1>1, <1>6 DEF Ordered, Numbered
<1>8. Keyed(Queued) /\ Keyed(Deferred) BY SequencesKeyed DEF Ordered
<1>9. Apart(Queued, ran) /\ Apart(Deferred, Queued)
  BY <1>2, <1>3 DEF Stages, Before, Apart
<1>10. Keyed(freed') BY <1>1, <1>8, <1>9 DEF Keyed, Apart
<1>11. Apart(freed', ran') BY <1>1, <1>3, <1>9 DEF Stages, Apart
<1>12. Leftovers' BY <1>1, <1>10, <1>11 DEF Leftovers
<1> QED BY <1>4, <1>5, <1>7, <1>12 DEF Ordered

\* Every step keeps the order of the commands.
LEMMA OrderedStep ==
  ASSUME TypeOK, Control, Ordered, [Next]_vars
  PROVE  Ordered'
<1>1. TypeOK /\ Control /\ Ordered OBVIOUS
<1>Send. ASSUME NEW s \in Senders, NEW k \in Kinds, Send(s, k) PROVE Ordered'
  <2>1. freed = {} BY <1>1, <1>Send, NotYetFreed DEF Send
  <2>2. PICK c \in AllCmds : Claim(s, c) /\ c[1] = s /\ c[2] = sent[s] + 1 BY <1>Send, SendIsClaim
  <2>3. s \in Threads BY Roles
  <2> QED BY <1>1, <2>1, <2>2, <2>3, ClaimStep
<1>SenderEnd. ASSUME NEW s \in Senders, SenderEnd(s) PROVE Ordered'
  BY <1>1, <1>SenderEnd, StillStep DEF SenderEnd, QueuedCmds, Queued, Taken, Deferred, channel,
     flags, loop, history
<1>SendPublish. ASSUME NEW th \in Threads, SendPublish(th) PROVE Ordered'
  BY <1>1, <1>SendPublish, PublishMove, StillStep
<1>WakeCas. ASSUME NEW th \in Threads, WakeCas(th) PROVE Ordered'
  BY <1>1, <1>WakeCas, StillStep DEF WakeCas, QueuedCmds, Queued, Taken, Deferred, channel, flags,
     loop, history
<1>WakeStopped. ASSUME NEW th \in Threads, WakeStopped(th) PROVE Ordered'
  BY <1>1, <1>WakeStopped, StillStep DEF WakeStopped, QueuedCmds, Queued, Taken, Deferred,
     channel, flags, loop, history
<1>WakeCheck. ASSUME NEW th \in Threads, WakeCheck(th) PROVE Ordered'
  BY <1>1, <1>WakeCheck, StillStep DEF WakeCheck, QueuedCmds, Queued, Taken, Deferred, channel,
     flags, loop, history
<1>WakeWrite. ASSUME NEW th \in Threads, WakeWrite(th) PROVE Ordered'
  BY <1>1, <1>WakeWrite, StillStep DEF WakeWrite, QueuedCmds, Queued, Taken, Deferred, channel,
     flags, loop, history
<1>WakeInterrupted. ASSUME NEW th \in Threads, WakeInterrupted(th) PROVE Ordered'
  BY <1>1, <1>WakeInterrupted, StillStep DEF WakeInterrupted, QueuedCmds, Queued, Taken, Deferred,
     channel, flags, loop, history
<1>Wait. ASSUME Wait PROVE Ordered'
  BY <1>1, <1>Wait, WaitStep
<1>Ended. ASSUME Ended PROVE Ordered'
  BY <1>1, <1>Ended, StillStep DEF Ended, QueuedCmds, Queued, Taken, Deferred, channel, flags,
     loop, history
<1>ReadTrigger. ASSUME ReadTrigger PROVE Ordered'
  BY <1>1, <1>ReadTrigger, StillStep DEF ReadTrigger, QueuedCmds, Queued, Taken, Deferred,
     channel, flags, loop, history
<1>Pop. ASSUME NEW k \in 1 .. MaxRead, Pop(k) PROVE Ordered'
  <2>1. freed = {} BY <1>1, <1>Pop, NotYetFreed DEF Pop
  <2> QED BY <1>1, <2>1, <1>Pop, PopStep
<1>PopNone. ASSUME PopNone PROVE Ordered'
  BY <1>1, <1>PopNone, StillStep DEF PopNone, QueuedCmds, Queued, Taken, Deferred, channel, flags,
     loop, history
<1>EmptyCheck. ASSUME EmptyCheck PROVE Ordered'
  BY <1>1, <1>EmptyCheck, StillStep DEF EmptyCheck, QueuedCmds, Queued, Taken, Deferred, channel,
     flags, loop, history
<1>RunCmd. ASSUME RunCmd PROVE Ordered'
  <2>1. freed = {} BY <1>1, <1>RunCmd, NotYetFreed DEF RunCmd
  <2> QED BY <1>1, <2>1, <1>RunCmd, RunStep
<1>DrainRun. ASSUME DrainRun PROVE Ordered'
  <2>1. freed = {} BY <1>1, <1>DrainRun, NotYetFreed DEF DrainRun
  <2> QED BY <1>1, <2>1, <1>DrainRun, DrainStep
<1>DrainPass. ASSUME DrainPass PROVE Ordered'
  BY <1>1, <1>DrainPass, StillStep DEF DrainPass, QueuedCmds, Queued, Taken, Deferred, channel,
     flags, loop, history
<1>FreeStart. ASSUME FreeStart PROVE Ordered'
  BY <1>1, <1>FreeStart, StillStep DEF FreeStart, QueuedCmds, Queued, Taken, Deferred, channel,
     flags, loop, history
<1>SendStop. ASSUME SendStop PROVE Ordered'
  <2>1. pc[Main] = "stop" /\ Claim(Main, Stop) BY <1>SendStop DEF SendStop
  <2>2. freed = {} BY <1>1, <2>1, NotYetFreed
  <2>3. sent[Main] = 0 BY <1>1, <2>1 DEF Control
  <2>4. Stop \in AllCmds /\ Stop[1] = Main /\ Stop[2] = sent[Main] + 1 BY <2>3, CmdFacts
  <2> QED BY <1>1, <2>1, <2>2, <2>4, Roles, ClaimStep
<1>Join. ASSUME Join PROVE Ordered'
  BY <1>1, <1>Join, StillStep DEF Join, QueuedCmds, Queued, Taken, Deferred, channel, flags, loop,
     history
<1>Free. ASSUME Free PROVE Ordered'
  <2>1. pc[Main] = "free" BY <1>Free DEF Free
  <2>2. freed = {} BY <1>1, <2>1, NotYetFreed
  <2>3. batch = <<>> BY <1>1, <2>1 DEF Control
  <2> QED BY <1>1, <2>2, <2>3, <1>Free, FreeStep
<1>Stutter. ASSUME UNCHANGED vars PROVE Ordered'
  BY <1>1, <1>Stutter, StillStep DEF vars, QueuedCmds, Queued, Taken, Deferred
<1> QED
  BY <1>Send, <1>SenderEnd, <1>SendPublish, <1>WakeCas, <1>WakeStopped, <1>WakeCheck,
     <1>WakeWrite, <1>WakeInterrupted, <1>Wait, <1>Ended, <1>ReadTrigger, <1>Pop, <1>PopNone,
     <1>EmptyCheck, <1>RunCmd, <1>DrainRun, <1>DrainPass, <1>FreeStart, <1>SendStop, <1>Join,
     <1>Free, <1>Stutter
  DEF Next, Wake, Watcher, EvFree, Over

-----------------------------------------------------------------------------
\* Nothing is sent at first.
LEMMA CmdInit == Init => CmdInv
<1> SUFFICES ASSUME Init PROVE CmdInv
  OBVIOUS
<1>1. /\ qu = <<>> /\ batch = <<>> /\ defer_execs = <<>> /\ ran = {} /\ freed = {}
      /\ sent = [s \in Threads |-> 0] /\ pc = [th \in Threads |-> "idle"] /\ wpc = "wait"
      /\ pass = 0 /\ left = 0
  BY DEF Init
<1>2. Queued = {} /\ Taken = {} /\ Deferred = {} /\ QueuedCmds = <<>>
  BY <1>1 DEF Queued, Taken, Deferred, InSeq, QueuedCmds
<1>3. FlagTypes BY DEF Init, FlagTypes, Places
<1>4. SeqTypes
  <2>1. Len(batch) <= MaxRead BY <1>1, CmdPipeAssumption
  <2> QED BY <1>1, <2>1, EmptySeq DEF SeqTypes
<1>5. Rounds
  <2>1. Len(defer_execs) \in Nat BY <1>4, DeferLength
  <2> QED BY <1>1, <2>1 DEF Rounds
<1>6. Sums BY <1>1 DEF Sums
<1>7. Control BY <1>1, Roles DEF Control
<1>8. Sorted BY <1>1, <1>2 DEF Sorted, Rising, AgainOnce
<1>9. Stages /\ Leftovers BY <1>1, <1>2 DEF Stages, Leftovers, Before, Apart, Keyed
<1>10. Numbered BY <1>1, <1>2 DEF Numbered, AllSent
<1> QED BY <1>3, <1>4, <1>5, <1>6, <1>7, <1>8, <1>9, <1>10, Parts DEF CmdInv, Ordered

\* Every step keeps it.
LEMMA CmdNext == CmdInv /\ [Next]_vars => CmdInv'
<1> SUFFICES ASSUME CmdInv, [Next]_vars PROVE CmdInv'
  OBVIOUS
<1>1. TypeOK /\ Control /\ Ordered /\ Sorted BY DEF CmdInv, Ordered
<1>2. FlagTypes' BY <1>1, FlagTypesStep
<1>3. SeqTypes' BY <1>1, SeqTypesStep
<1>4. Rounds' BY <1>1, <1>3, RoundsStep
<1>5. Sums' BY <1>1, SumsStep
<1>6. Control' BY <1>1, ControlStep
<1>7. Ordered' BY <1>1, OrderedStep
<1> QED BY <1>2, <1>3, <1>4, <1>5, <1>6, <1>7, PartsNext DEF CmdInv

\* The second inductive invariant, of the commands, holds in every reachable state.
THEOREM CmdInvHolds == Spec => []CmdInv
  BY CmdInit, CmdNext, PTL DEF Spec

\* Every variable of the channel stays in its type.
THEOREM TypesCorrect == Spec => []TypeOK
<1>1. CmdInv => TypeOK BY DEF CmdInv
<1> QED BY <1>1, CmdInvHolds, PTL

\* A sender and a number name one command, wherever it is, and it is in one place.
LEMMA OnePlaceFollows ==
  ASSUME CmdInv
  PROVE  OnePlace
<1>1. TypeOK /\ Sorted /\ Stages /\ Leftovers /\ Numbered BY DEF CmdInv, Ordered
<1>2. /\ Keyed(Queued) /\ Keyed(Taken) /\ Keyed(Deferred) /\ Keyed(ran) /\ Keyed(freed)
      /\ IsInjective(QueuedCmds) /\ IsInjective(batch) /\ IsInjective(defer_execs)
  BY <1>1, SequencesKeyed DEF Stages, Leftovers
<1>3. \A d \in AllSent : d[1] \in Threads /\ d[2] \in Nat
  BY <1>1, Sets, CmdFacts DEF AllSent
<1>4. Apart(Taken, Queued) /\ Apart(Deferred, Taken \cup Queued) /\ Apart(ran, Taken \cup Queued)
  BY <1>1, <1>3 DEF Stages, Before, Apart, AllSent
<1>5. Apart(Deferred, ran) /\ Apart(freed, ran) BY <1>1 DEF Stages, Leftovers
<1>6. freed # {} => Taken = {} /\ Queued = {} /\ Deferred = {}
  <2>1. freed # {} => batch = <<>> BY DEF CmdInv, Control
  <2> QED BY <1>1, <2>1 DEF Leftovers, Taken, InSeq
<1>7. Keyed(AllSent)
  <2> SUFFICES ASSUME NEW c \in AllSent, NEW d \in AllSent, c[1] = d[1], c[2] = d[2] PROVE c = d
    BY DEF Keyed
  <2>1. CASE c \in freed \/ d \in freed
    BY <1>2, <1>5, <1>6, <2>1 DEF AllSent, Keyed, Apart
  <2>2. CASE c \notin freed /\ d \notin freed
    <3>1. c \in Queued \cup Taken \cup Deferred \cup ran /\ d \in Queued \cup Taken \cup Deferred \cup ran
      BY <2>2 DEF AllSent
    <3> QED BY <1>2, <1>4, <1>5, <3>1 DEF Keyed, Apart
  <2> QED BY <2>1, <2>2
<1>8. /\ Queued \cap Taken = {} /\ Queued \cap Deferred = {} /\ Queued \cap ran = {} /\ Queued \cap freed = {}
      /\ Taken \cap Deferred = {} /\ Taken \cap ran = {} /\ Taken \cap freed = {}
      /\ Deferred \cap ran = {} /\ Deferred \cap freed = {} /\ ran \cap freed = {}
  BY <1>4, <1>5, <1>6 DEF Apart
<1>9. \A p, q \in DOMAIN CmdPlaces : p # q => CmdPlaces[p] \cap CmdPlaces[q] = {}
  BY <1>8 DEF CmdPlaces, Taken, Deferred
<1>10. SentCmds = AllSent BY <1>1, Sets
<1>11. \A th \in Threads : {c[2] : c \in {d \in SentCmds : d[1] = th}} = 1 .. sent[th]
  BY <1>1, <1>10 DEF Numbered
<1> QED BY <1>2, <1>7, <1>9, <1>10, <1>11 DEF OnePlace, Keyed

\* Every command sent is in exactly one place: queued, taken, deferred, run or freed.
\* A CMD_STOP in the middle of a batch, or a drain cut short, loses none of them.
THEOREM OnePlaceCorrect == Spec => []OnePlace
  BY CmdInvHolds, OnePlaceFollows, PTL

\* What is run is the least of its sender and kind that is not over: the places in front of it
\* hold later ones, or commands of the other kind.
LEMMA SenderOrderStep ==
  ASSUME CmdInv, [Next]_vars
  PROVE  [\A c \in ran' \ ran : \A d \in SentCmds :
            d[1] = c[1] /\ d[3] = c[3] /\ d[2] < c[2] => d \in ran]_vars
<1> SUFFICES ASSUME NEW c \in ran' \ ran, NEW d \in SentCmds, d[1] = c[1], d[3] = c[3], d[2] < c[2]
             PROVE  d \in ran
  OBVIOUS
<1>1. TypeOK /\ Ordered /\ Sorted /\ Stages /\ SentCmds = AllSent BY Sets DEF CmdInv, Ordered
<1>2. d \in AllSent /\ \A e \in AllSent : e[2] \in Nat BY <1>1, Sets, CmdFacts DEF AllSent
<1>3. CASE RunCmd
  <2> DEFINE h == Head(batch)
  <2>1. /\ Taken = Taken' \cup {h} /\ \A e \in Taken' : h[1] = e[1] => h[2] < e[2]
        /\ h[3] # "defer" /\ ran' = ran \cup {h}
    BY <1>1, <1>3, RunMove
  <2>2. c = h /\ c \in Taken BY <2>1
  <2>3. freed = {} BY <1>3, NotYetFreed DEF RunCmd, CmdInv
  <2>4. d \notin Queued BY <1>1, <1>2, <2>2 DEF Stages, Before, AllSent
  <2>5. d \notin Taken BY <1>2, <2>1, <2>2 DEF AllSent
  <2>6. d \notin Deferred BY <1>1, <2>1, <2>2 DEF Stages
  <2> QED BY <1>2, <2>3, <2>4, <2>5, <2>6 DEF AllSent
<1>4. CASE DrainRun
  <2> DEFINE h == Head(defer_execs)
  <2>1. /\ Deferred = Deferred' \cup {h} /\ ran' = ran \cup {h}
        /\ \A e \in Deferred' : h[1] = e[1] => h[2] < e[2]
    BY <1>1, <1>4, DrainMove
  <2>2. c = h /\ c \in Deferred BY <2>1
  <2>3. freed = {} BY <1>4, NotYetFreed DEF DrainRun, CmdInv
  <2>4. d \notin Queued \cup Taken BY <1>1, <1>2, <2>2 DEF Stages, Before, AllSent
  <2>5. d \notin Deferred BY <1>2, <2>1, <2>2 DEF AllSent
  <2> QED BY <1>2, <2>3, <2>4, <2>5 DEF AllSent
<1>5. CASE ~RunCmd /\ ~DrainRun
  <2>1. UNCHANGED ran
    BY <1>5 DEF Next, Send, Claim, SenderEnd, Wake, SendPublish, WakeCas, WakeStopped, WakeCheck,
       WakeWrite,
       WakeInterrupted, Watcher, Wait, Ended, ReadTrigger, Pop, PopNone, EmptyCheck, DrainPass,
       FreeStart, EvFree, SendStop, Join, Free, Over, history, vars
  <2> QED BY <2>1
<1> QED BY <1>3, <1>4, <1>5

\* The commands of one sender run in the order they were sent, those run at once
\* and those deferred each among themselves, and across batches.
THEOREM SenderOrderCorrect == Spec => SenderOrder
  BY CmdInvHolds, SenderOrderStep, PTL DEF Spec, SenderOrder

=============================================================================
