-------------------------- MODULE TaskSchedProofs --------------------------
(***************************************************************************)
(* Proofs about TaskSched, for any number of tasks, workers, net threads,  *)
(* posters and messages.                                                   *)
(*                                                                         *)
(* Every variable keeps its type, and a task is in one place at a time.    *)
(*                                                                         *)
(* No wake-up is lost: a message behind a cleared flag has a thread that   *)
(* will look at the flag again, and a worker that sleeps beside a task in  *)
(* its queue, or through the shutdown, has a thread that will wake it.     *)
(*                                                                         *)
(* And TaskSched implements Mailbox: one runner at a time, and every       *)
(* message handled once and in its sender's order.  What a runner has      *)
(* popped and what is still queued are, sender by sender, the messages     *)
(* sent and not handled yet (Ordered).                                     *)
(***************************************************************************)
EXTENDS TaskSched, SequenceTheorems, TLAPS

LEMMA Sets ==
  /\ Workers \subseteq Threads /\ Nets \subseteq Threads
  /\ Main \in Threads /\ Main \notin Nets
  /\ None \notin Tasks /\ None \notin Workers /\ None \notin Nets
  /\ MsgBatch \in Nat \ {0}
  /\ MaxPosts \in [Threads -> Nat]
  /\ Weight \in [Workers -> -1 .. 3]
  /\ Priority \in [Tasks -> Nat]
  /\ \A w \in Workers : w \notin Nets
BY SchedAssumption DEF SchedAssumption, Threads

-----------------------------------------------------------------------------
(* The helpers. *)

\* Publishing changes no cell's sender, number or place.
LEMMA PublishKeeps ==
  ASSUME NEW S, NEW q \in Seq(S), NEW th,
         \A c \in S : [c EXCEPT !.ready = TRUE] \in S
  PROVE  /\ Publish(q, th) \in Seq(S)
         /\ Len(Publish(q, th)) = Len(q)
         /\ DOMAIN Publish(q, th) = DOMAIN q
         /\ \A i \in 1 .. Len(q) :
              Publish(q, th)[i] = IF q[i].by = th THEN [q[i] EXCEPT !.ready = TRUE] ELSE q[i]
<1> DEFINE n == Len(q)
           e(i) == IF q[i].by = th THEN [q[i] EXCEPT !.ready = TRUE] ELSE q[i]
<1>1. n \in Nat /\ DOMAIN q = 1 .. n /\ \A i \in 1 .. n : q[i] \in S
  OBVIOUS
<1>2. Publish(q, th) = [i \in 1 .. n |-> e(i)]
  BY <1>1 DEF Publish
<1>3. \A i \in 1 .. n : e(i) \in S
  BY <1>1
<1>4. [i \in 1 .. n |-> e(i)] \in [1 .. n -> S]
  BY <1>3
<1>5. Publish(q, th) \in Seq(S)
  BY <1>1, <1>2, <1>4, SeqDef
<1> QED
  BY <1>1, <1>2, <1>5, LenProperties

LEMMA PublishMsg ==
  ASSUME NEW q \in Seq(MsgCell), NEW th
  PROVE  /\ Publish(q, th) \in Seq(MsgCell)
         /\ Len(Publish(q, th)) = Len(q)
<1>1. \A c \in MsgCell : [c EXCEPT !.ready = TRUE] \in MsgCell
  BY DEF MsgCell
<1> QED
  BY <1>1, PublishKeeps

LEMMA PublishTask ==
  ASSUME NEW q \in Seq(TaskCell), NEW th
  PROVE  /\ Publish(q, th) \in Seq(TaskCell)
         /\ Len(Publish(q, th)) = Len(q)
         /\ DOMAIN Publish(q, th) = DOMAIN q
         /\ \A i \in DOMAIN q : Publish(q, th)[i].task = q[i].task
<1>1. \A c \in TaskCell : [c EXCEPT !.ready = TRUE] \in TaskCell
  BY DEF TaskCell
<1>2. \A c \in TaskCell : [c EXCEPT !.ready = TRUE].task = c.task
  BY DEF TaskCell
<1>3. DOMAIN q = 1 .. Len(q) /\ \A i \in DOMAIN q : q[i] \in TaskCell
  OBVIOUS
<1>4. /\ Publish(q, th) \in Seq(TaskCell)
      /\ Len(Publish(q, th)) = Len(q)
      /\ DOMAIN Publish(q, th) = DOMAIN q
  BY <1>1, PublishKeeps
<1>5. ASSUME NEW i \in DOMAIN q PROVE Publish(q, th)[i].task = q[i].task
  BY <1>2, <1>3 DEF Publish
<1> QED
  BY <1>4, <1>5

LEMMA ButLast ==
  ASSUME NEW S, NEW s \in Seq(S), s # <<>>
  PROVE  /\ SubSeq(s, 1, Len(s) - 1) \in Seq(S)
         /\ Len(s) # 1 => SubSeq(s, 1, Len(s) - 1) # <<>>
         /\ \A i \in 1 .. Len(s) - 1 : SubSeq(s, 1, Len(s) - 1)[i] = s[i]
<1> DEFINE m == Len(s) - 1
           r == SubSeq(s, 1, m)
<1>1. m \in Nat /\ \A i \in 1 .. m : s[i] \in S
  BY EmptySeq
<1> HIDE DEF m
<1>2. /\ r \in Seq(S)
      /\ Len(r) = IF 1 <= m THEN m - 1 + 1 ELSE 0
      /\ \A i \in 1 .. m - 1 + 1 : r[i] = s[1 + i - 1]
  BY <1>1, SubSeqProperties
<1>3. \A i \in 1 .. m : r[i] = s[i]
  BY <1>1, <1>2
<1>4. m # 0 => Len(r) # 0
  BY <1>1, <1>2
<1> HIDE DEF r
<1>5. r = <<>> => Len(r) = 0
  OBVIOUS
<1>6. Len(s) # 1 => m # 0
  BY <1>1 DEF m
<1> QED
  BY <1>2, <1>3, <1>4, <1>5, <1>6 DEF r, m

\* A round takes at least one message, and a whole number of them.
LEMMA QuotaIsNat ==
  ASSUME NEW weight \in -1 .. 3, NEW prio \in Nat, NEW lens \in Nat
  PROVE  MsgQuota(weight, prio, lens) \in Nat \ {0}
<1> DEFINE base == IF weight < 0 THEN 1 ELSE lens \div <<1, 2, 4, 8>>[weight + 1]
<1>1. base \in Nat
  <2>1. CASE weight < 0  BY <2>1
  <2>2. CASE weight >= 0
    <3>1. <<1, 2, 4, 8>>[weight + 1] \in {1, 2, 4, 8}
      BY <2>2
    <3> QED  BY <3>1, <2>2
  <2> QED  BY <2>1, <2>2
<1> HIDE DEF base
<1>2. base * prio \in Nat
  BY <1>1
<1> DEFINE extra == base * prio
<1>3. extra \div 8 \in Nat
  BY <1>2
<1> HIDE DEF extra
<1>4. base + (extra \div 8) \in Nat
  BY <1>1, <1>3
<1> QED
  BY <1>1, <1>4 DEF MsgQuota, base, extra

-----------------------------------------------------------------------------
(* Types, and what a program counter says about its thread's variables. *)

HasTask(th) == pc[th] \in {"size", "run", "hand"}
Posting(th) == pc[th] \in {"pub", "cas", "sched", "tpub", "wst", "wake", "fwake"}

ControlOf(th) ==
  /\ HasTask(th) => cur[th] # None
  /\ cur[th] # None => HasTask(th) \/ Posting(th)
  /\ pc[th] \in {"pub", "cas", "sched", "tpub", "relchk", "try", "epub"} => tgt[th] # None
  /\ pc[th] \in {"tpub", "wst", "wake", "fwake"} => wk[th] # None
  /\ pc[th] \in {"win", "try", "push", "epub"} => th \in Nets /\ win[th] # <<>>

Control == \A th \in Threads : ControlOf(th)

TypeInv == TypeOK /\ Control

LEMMA Returning ==
  ASSUME NEW th \in Threads, pc \in [Threads -> PCs], Return(th)
  PROVE  /\ pc' \in [Threads -> PCs]
         /\ cur[th] # None => pc'[th] = "hand"
         /\ cur[th] = None => pc'[th] \in {"win", "idle"}
         /\ pc'[th] = "win" => th \in Nets /\ win[th] # <<>>
         /\ \A x \in Threads \ {th} : pc'[x] = pc[x]
BY DEF Return, ReturnPoint, Goto, PCs

LEMMA PostType ==
  ASSUME TypeInv, NEW th \in Threads, Post(th)
  PROVE  TypeInv'
<1> TypeOK /\ Control
  BY DEF TypeInv
<1> USE Sets DEF queues, waiters, ending, round, windows, history
<1>1. ASSUME NEW t \in Tasks, PostClaim(th, t) PROVE TypeInv'
  <2>1. pc' \in [Threads -> PCs]
    BY <1>1 DEF TypeOK, PCs, PostClaim, ClaimMessage, MsgCell, Goto
  <2>2. sent' \in [Threads -> [Tasks -> Nat]]
    BY <1>1 DEF TypeOK, PostClaim, ClaimMessage, MsgCell
  <2>3. qumsg' \in [Tasks -> Seq(MsgCell)]
    BY <1>1 DEF TypeOK, PostClaim, ClaimMessage, MsgCell
  <2>4. tgt' \in [Threads -> Tasks \cup {None}]
    BY <1>1 DEF TypeOK, PostClaim, ClaimMessage, MsgCell
  <2>5. TypeOK'
    BY <1>1, <2>1, <2>2, <2>3, <2>4 DEF TypeOK, PostClaim, ClaimMessage
  <2>6. Control'
    <3> SUFFICES ASSUME NEW x \in Threads PROVE ControlOf(x)'
      BY DEF Control
    <3>1. ControlOf(x) /\ ControlOf(th)
      BY DEF Control
    <3>2. CASE x = th
      BY <1>1, <3>1, <3>2 DEF TypeOK, ControlOf, HasTask, Posting, PostClaim, ClaimMessage, Goto
    <3>3. CASE x # th
      BY <1>1, <3>1, <3>3 DEF TypeOK, ControlOf, HasTask, Posting, PostClaim, ClaimMessage, Goto
    <3> QED
      BY <3>2, <3>3
  <2> QED
    BY <2>5, <2>6 DEF TypeInv
<1>2. CASE PostPublish(th)
  <2>0. Publish(qumsg[tgt[th]], th) \in Seq(MsgCell)
    <3>1. qumsg[tgt[th]] \in Seq(MsgCell)
      BY <1>2 DEF TypeOK, Control, ControlOf, PostPublish
    <3> QED
      BY <3>1, PublishMsg
  <2>1. pc' \in [Threads -> PCs]
    BY <1>2 DEF TypeOK, PCs, PostPublish, Goto
  <2>2. qumsg' \in [Tasks -> Seq(MsgCell)]
    BY <1>2, <2>0 DEF TypeOK, PostPublish
  <2>3. TypeOK'
    BY <1>2, <2>1, <2>2 DEF TypeOK, PostPublish
  <2>4. Control'
    <3> SUFFICES ASSUME NEW x \in Threads PROVE ControlOf(x)'
      BY DEF Control
    <3>1. ControlOf(x) /\ ControlOf(th)
      BY DEF Control
    <3>2. CASE x = th
      BY <1>2, <2>0, <3>1, <3>2 DEF TypeOK, ControlOf, HasTask, Posting, PostPublish, Goto
    <3>3. CASE x # th
      BY <1>2, <2>0, <3>1, <3>3 DEF TypeOK, ControlOf, HasTask, Posting, PostPublish, Goto
    <3> QED
      BY <3>2, <3>3
  <2> QED
    BY <2>3, <2>4 DEF TypeInv
<1>3. CASE Activate(th)
  <2>1. pc' \in [Threads -> PCs]
    BY <1>3 DEF TypeOK, PCs, Activate, Goto
  <2>2. global' \in [Tasks -> {0, 1}]
    BY <1>3 DEF TypeOK, Activate
  <2>3. TypeOK'
    BY <1>3, <2>1, <2>2 DEF TypeOK, Activate
  <2>4. Control'
    <3> SUFFICES ASSUME NEW x \in Threads PROVE ControlOf(x)'
      BY DEF Control
    <3>1. ControlOf(x) /\ ControlOf(th)
      BY DEF Control
    <3>2. CASE x = th
      BY <1>3, <3>1, <3>2 DEF TypeOK, ControlOf, HasTask, Posting, Activate, Goto
    <3>3. CASE x # th
      BY <1>3, <3>1, <3>3 DEF TypeOK, ControlOf, HasTask, Posting, Activate, Goto
    <3> QED
      BY <3>2, <3>3
  <2> QED
    BY <2>3, <2>4 DEF TypeInv
<1>4. CASE AlreadyActive(th)
  <2>1. Return(th) /\ pc \in [Threads -> PCs]
    BY <1>4 DEF TypeOK, AlreadyActive
  <2>2. /\ pc' \in [Threads -> PCs]
        /\ cur[th] # None => pc'[th] = "hand"
        /\ cur[th] = None => pc'[th] \in {"win", "idle"}
        /\ pc'[th] = "win" => th \in Nets /\ win[th] # <<>>
        /\ \A x \in Threads \ {th} : pc'[x] = pc[x]
    BY <2>1, Returning
  <2>3. tgt' \in [Threads -> Tasks \cup {None}]
    BY <1>4 DEF TypeOK, AlreadyActive
  <2>4. TypeOK'
    BY <1>4, <2>2, <2>3 DEF TypeOK, AlreadyActive
  <2>5. Control'
    <3> SUFFICES ASSUME NEW x \in Threads PROVE ControlOf(x)'
      BY DEF Control
    <3>1. ControlOf(x) /\ ControlOf(th)
      BY DEF Control
    <3>2. CASE x = th
      BY <1>4, <2>2, <3>1, <3>2 DEF TypeOK, ControlOf, HasTask, Posting, AlreadyActive
    <3>3. CASE x # th
      BY <1>4, <2>2, <3>1, <3>3 DEF TypeOK, ControlOf, HasTask, Posting, AlreadyActive
    <3> QED
      BY <3>2, <3>3
  <2> QED
    BY <2>4, <2>5 DEF TypeInv
<1>5. CASE ScheduleNet(th)
  <2>0. tgt[th] \in Tasks /\ evbind[tgt[th]] \in Nets
    BY <1>5 DEF TypeOK, Control, ControlOf, ScheduleNet
  <2>1. Return(th) /\ pc \in [Threads -> PCs]
    BY <1>5 DEF TypeOK, ScheduleNet
  <2>2. /\ pc' \in [Threads -> PCs]
        /\ cur[th] # None => pc'[th] = "hand"
        /\ cur[th] = None => pc'[th] \in {"win", "idle"}
        /\ pc'[th] = "win" => th \in Nets /\ win[th] # <<>>
        /\ \A x \in Threads \ {th} : pc'[x] = pc[x]
    BY <2>1, Returning
  <2>3. deferq' \in [Nets -> Seq(Tasks)]
    BY <1>5, <2>0 DEF TypeOK, ScheduleNet
  <2>4. tgt' \in [Threads -> Tasks \cup {None}]
    BY <1>5, <2>0 DEF TypeOK, ScheduleNet
  <2>5. TypeOK'
    BY <1>5, <2>2, <2>3, <2>4 DEF TypeOK, ScheduleNet
  <2>6. Control'
    <3> SUFFICES ASSUME NEW x \in Threads PROVE ControlOf(x)'
      BY DEF Control
    <3>1. ControlOf(x) /\ ControlOf(th)
      BY DEF Control
    <3>2. CASE x = th
      BY <1>5, <2>0, <2>2, <3>1, <3>2 DEF TypeOK, ControlOf, HasTask, Posting, ScheduleNet
    <3>3. CASE x # th
      BY <1>5, <2>0, <2>2, <3>1, <3>3 DEF TypeOK, ControlOf, HasTask, Posting, ScheduleNet
    <3> QED
      BY <3>2, <3>3
  <2> QED
    BY <2>5, <2>6 DEF TypeInv
<1>6. ASSUME NEW w \in Workers, ScheduleWorker(th, w) PROVE TypeInv'
  <2>0. [task |-> tgt[th], by |-> th, ready |-> FALSE] \in TaskCell
    BY <1>6 DEF TypeOK, Control, ControlOf, ScheduleWorker, TaskCell
  <2>1. pc' \in [Threads -> PCs]
    BY <1>6 DEF TypeOK, PCs, ScheduleWorker, Goto
  <2>2. taskq' \in [Workers -> Seq(TaskCell)]
    BY <1>6, <2>0 DEF TypeOK, ScheduleWorker
  <2>3. wk' \in [Threads -> Workers \cup {None}]
    BY <1>6, <2>0 DEF TypeOK, ScheduleWorker
  <2>4. TypeOK'
    BY <1>6, <2>1, <2>2, <2>3 DEF TypeOK, ScheduleWorker
  <2>5. Control'
    <3> SUFFICES ASSUME NEW x \in Threads PROVE ControlOf(x)'
      BY DEF Control
    <3>1. ControlOf(x) /\ ControlOf(th)
      BY DEF Control
    <3>2. CASE x = th
      BY <1>6, <2>0, <3>1, <3>2 DEF TypeOK, ControlOf, HasTask, Posting, ScheduleWorker, Goto
    <3>3. CASE x # th
      BY <1>6, <2>0, <3>1, <3>3 DEF TypeOK, ControlOf, HasTask, Posting, ScheduleWorker, Goto
    <3> QED
      BY <3>2, <3>3
  <2> QED
    BY <2>4, <2>5 DEF TypeInv
<1>7. CASE TaskqPublish(th)
  <2>0. Publish(taskq[wk[th]], th) \in Seq(TaskCell)
    <3>1. taskq[wk[th]] \in Seq(TaskCell)
      BY <1>7 DEF TypeOK, Control, ControlOf, TaskqPublish
    <3> QED
      BY <3>1, PublishTask
  <2>1. pc' \in [Threads -> PCs]
    BY <1>7 DEF TypeOK, PCs, TaskqPublish, Goto
  <2>2. taskq' \in [Workers -> Seq(TaskCell)]
    BY <1>7, <2>0 DEF TypeOK, TaskqPublish
  <2>3. tgt' \in [Threads -> Tasks \cup {None}]
    BY <1>7, <2>0 DEF TypeOK, TaskqPublish
  <2>4. TypeOK'
    BY <1>7, <2>1, <2>2, <2>3 DEF TypeOK, TaskqPublish
  <2>5. Control'
    <3> SUFFICES ASSUME NEW x \in Threads PROVE ControlOf(x)'
      BY DEF Control
    <3>1. ControlOf(x) /\ ControlOf(th)
      BY DEF Control
    <3>2. CASE x = th
      BY <1>7, <2>0, <3>1, <3>2 DEF TypeOK, ControlOf, HasTask, Posting, TaskqPublish, Goto
    <3>3. CASE x # th
      BY <1>7, <2>0, <3>1, <3>3 DEF TypeOK, ControlOf, HasTask, Posting, TaskqPublish, Goto
    <3> QED
      BY <3>2, <3>3
  <2> QED
    BY <2>4, <2>5 DEF TypeInv
<1>8. CASE MarkWaking(th)
  <2>1. pc' \in [Threads -> PCs]
    BY <1>8 DEF TypeOK, PCs, MarkWaking, Goto
  <2>2. wstate' \in [Workers -> {"awake", "sleep", "waking"}]
    BY <1>8 DEF TypeOK, MarkWaking
  <2>3. TypeOK'
    BY <1>8, <2>1, <2>2 DEF TypeOK, MarkWaking
  <2>4. Control'
    <3> SUFFICES ASSUME NEW x \in Threads PROVE ControlOf(x)'
      BY DEF Control
    <3>1. ControlOf(x) /\ ControlOf(th)
      BY DEF Control
    <3>2. CASE x = th
      BY <1>8, <3>1, <3>2 DEF TypeOK, ControlOf, HasTask, Posting, MarkWaking, Goto
    <3>3. CASE x # th
      BY <1>8, <3>1, <3>3 DEF TypeOK, ControlOf, HasTask, Posting, MarkWaking, Goto
    <3> QED
      BY <3>2, <3>3
  <2> QED
    BY <2>3, <2>4 DEF TypeInv
<1>9. CASE NoWakeNeeded(th)
  <2>1. Return(th) /\ pc \in [Threads -> PCs]
    BY <1>9 DEF TypeOK, NoWakeNeeded
  <2>2. /\ pc' \in [Threads -> PCs]
        /\ cur[th] # None => pc'[th] = "hand"
        /\ cur[th] = None => pc'[th] \in {"win", "idle"}
        /\ pc'[th] = "win" => th \in Nets /\ win[th] # <<>>
        /\ \A x \in Threads \ {th} : pc'[x] = pc[x]
    BY <2>1, Returning
  <2>3. wk' \in [Threads -> Workers \cup {None}]
    BY <1>9 DEF TypeOK, NoWakeNeeded
  <2>4. TypeOK'
    BY <1>9, <2>2, <2>3 DEF TypeOK, NoWakeNeeded
  <2>5. Control'
    <3> SUFFICES ASSUME NEW x \in Threads PROVE ControlOf(x)'
      BY DEF Control
    <3>1. ControlOf(x) /\ ControlOf(th)
      BY DEF Control
    <3>2. CASE x = th
      BY <1>9, <2>2, <3>1, <3>2 DEF TypeOK, ControlOf, HasTask, Posting, NoWakeNeeded
    <3>3. CASE x # th
      BY <1>9, <2>2, <3>1, <3>3 DEF TypeOK, ControlOf, HasTask, Posting, NoWakeNeeded
    <3> QED
      BY <3>2, <3>3
  <2> QED
    BY <2>4, <2>5 DEF TypeInv
<1>10. CASE WakeEpoch(th)
  <2>1. pc' \in [Threads -> PCs]
    BY <1>10 DEF TypeOK, PCs, WakeEpoch, Goto
  <2>2. moved' \in [Workers -> BOOLEAN]
    BY <1>10 DEF TypeOK, WakeEpoch
  <2>3. TypeOK'
    BY <1>10, <2>1, <2>2 DEF TypeOK, WakeEpoch
  <2>4. Control'
    <3> SUFFICES ASSUME NEW x \in Threads PROVE ControlOf(x)'
      BY DEF Control
    <3>1. ControlOf(x) /\ ControlOf(th)
      BY DEF Control
    <3>2. CASE x = th
      BY <1>10, <3>1, <3>2 DEF TypeOK, ControlOf, HasTask, Posting, WakeEpoch, Goto
    <3>3. CASE x # th
      BY <1>10, <3>1, <3>3 DEF TypeOK, ControlOf, HasTask, Posting, WakeEpoch, Goto
    <3> QED
      BY <3>2, <3>3
  <2> QED
    BY <2>3, <2>4 DEF TypeInv
<1>11. CASE FutexWake(th)
  <2>1. ReturnPoint(th) \in {"hand", "win", "idle"}
    BY DEF ReturnPoint
  <2>2. pc' \in [Threads -> PCs]
    BY <1>11, <2>1 DEF TypeOK, PCs, FutexWake
  <2>3. wk' \in [Threads -> Workers \cup {None}]
    BY <1>11 DEF TypeOK, FutexWake
  <2>4. TypeOK'
    BY <1>11, <2>2, <2>3 DEF TypeOK, FutexWake
  <2>5. Control'
    <3> SUFFICES ASSUME NEW x \in Threads PROVE ControlOf(x)'
      BY DEF Control
    <3>1. ControlOf(x) /\ ControlOf(th)
      BY DEF Control
    <3>2. pc'[x] = IF x = th THEN ReturnPoint(th)
                   ELSE IF x = wk[th] /\ pc[x] = "blocked" THEN "woke" ELSE pc[x]
      BY <1>11, <2>1 DEF TypeOK, FutexWake
    <3>3. CASE x = th
      BY <1>11, <3>1, <3>2, <3>3 DEF TypeOK, ControlOf, HasTask, Posting, FutexWake, ReturnPoint
    <3>4. CASE x # th
      <4>1. cur'[x] = cur[x] /\ tgt'[x] = tgt[x] /\ wk'[x] = wk[x] /\ win' = win
        BY <1>11, <3>4 DEF TypeOK, FutexWake
      <4> HIDE <1>11
      <4> QED
        BY <3>1, <3>2, <3>4, <4>1 DEF ControlOf, HasTask, Posting
    <3> QED
      BY <3>3, <3>4
  <2> QED
    BY <2>4, <2>5 DEF TypeInv
<1> QED
  BY <1>1, <1>2, <1>3, <1>4, <1>5, <1>6, <1>7, <1>8, <1>9, <1>10, <1>11 DEF Post

LEMMA RunType ==
  ASSUME TypeInv, NEW th \in Threads, RunTask(th)
  PROVE  TypeInv'
<1> TypeOK /\ Control
  BY DEF TypeInv
<1> USE Sets DEF queues, waiters, ending, round, windows, history
<1>1. CASE RunSize(th)
  <2>0. MsgQuota(IF th \in Workers THEN Weight[th] ELSE 0,
                Priority[cur[th]], Len(qumsg[cur[th]])) \in Nat
    <3>1. cur[th] \in Tasks
      BY <1>1 DEF TypeOK, Control, ControlOf, HasTask, RunSize
    <3>2. Len(qumsg[cur[th]]) \in Nat /\ Priority[cur[th]] \in Nat
      BY <3>1 DEF TypeOK
    <3>3. (IF th \in Workers THEN Weight[th] ELSE 0) \in -1 .. 3
      OBVIOUS
    <3> QED
      BY <3>2, <3>3, QuotaIsNat
  <2>1. pc' \in [Threads -> PCs]
    BY <1>1 DEF TypeOK, PCs, RunSize, Goto
  <2>2. left' \in [Threads -> Nat]
    BY <1>1, <2>0 DEF TypeOK, RunSize
  <2>3. TypeOK'
    BY <1>1, <2>1, <2>2 DEF TypeOK, RunSize
  <2>4. Control'
    <3> SUFFICES ASSUME NEW x \in Threads PROVE ControlOf(x)'
      BY DEF Control
    <3>1. ControlOf(x) /\ ControlOf(th)
      BY DEF Control
    <3>2. CASE x = th
      BY <1>1, <2>0, <3>1, <3>2 DEF TypeOK, ControlOf, HasTask, Posting, RunSize, Goto
    <3>3. CASE x # th
      BY <1>1, <2>0, <3>1, <3>3 DEF TypeOK, ControlOf, HasTask, Posting, RunSize, Goto
    <3> QED
      BY <3>2, <3>3
  <2> QED
    BY <2>3, <2>4 DEF TypeInv
<1>2. CASE RunPop(th)
  <2>1. cur[th] \in Tasks /\ qumsg[cur[th]] \in Seq(MsgCell)
    BY <1>2 DEF TypeOK, Control, ControlOf, HasTask, RunPop, Running
  <2>2. PICK k \in 0 .. MsgBatch :
          /\ Gets(qumsg[cur[th]], k, Want(th))
          /\ batch' = [batch EXCEPT ![th] = SubSeq(qumsg[cur[th]], 1, k)]
          /\ left' = [left EXCEPT ![th] = IF k = 0 THEN 0 ELSE @ - k]
          /\ qumsg' = [qumsg EXCEPT ![cur[th]] = Drop(@, k)]
    BY <1>2 DEF RunPop
  <2>3. k <= left[th] /\ k <= Len(qumsg[cur[th]]) /\ left[th] \in Nat
    BY <2>2 DEF Gets, Want, TypeOK
  <2>4. SubSeq(qumsg[cur[th]], 1, k) \in Seq(MsgCell)
    BY <2>1, <2>2, <2>3
  <2>5. Drop(qumsg[cur[th]], k) \in Seq(MsgCell)
    BY <2>1, <2>2, <2>3 DEF Drop
  <2>6. pc' \in [Threads -> PCs]
    BY <1>2 DEF TypeOK, PCs, RunPop, Goto
  <2>7. batch' \in [Threads -> Seq(MsgCell)]
    BY <2>2, <2>4 DEF TypeOK
  <2>8. left' \in [Threads -> Nat]
    BY <2>2, <2>3 DEF TypeOK
  <2>9. qumsg' \in [Tasks -> Seq(MsgCell)]
    BY <2>1, <2>2, <2>5 DEF TypeOK
  <2>10. TypeOK'
    BY <1>2, <2>6, <2>7, <2>8, <2>9 DEF TypeOK, RunPop
  <2>11. Control'
    <3> SUFFICES ASSUME NEW x \in Threads PROVE ControlOf(x)'
      BY DEF Control
    <3>1. ControlOf(x)
      BY DEF Control
    <3> QED
      BY <1>2, <3>1 DEF TypeOK, ControlOf, HasTask, Posting, RunPop, Running, Goto
  <2> QED
    BY <2>10, <2>11 DEF TypeInv
<1>3. CASE Dispatch(th)
  <2>0. /\ Head(batch[th]).n \in Nat /\ Head(batch[th]).by \in Threads
        /\ Tail(batch[th]) \in Seq(MsgCell) /\ cur[th] \in Tasks
    <3>1. cur[th] \in Tasks
      BY <1>3 DEF TypeOK, Control, ControlOf, HasTask, Dispatch, Running
    <3>2. batch[th] \in Seq(MsgCell) /\ batch[th] # <<>>
      BY <1>3 DEF TypeOK, Dispatch
    <3>3. Head(batch[th]) \in MsgCell /\ Tail(batch[th]) \in Seq(MsgCell)
      BY <3>2
    <3> QED
      BY <3>1, <3>3 DEF MsgCell
  <2>1. pc' \in [Threads -> PCs]
    BY <1>3 DEF TypeOK, PCs, Dispatch, Running, Goto
  <2>2. last' \in [Tasks -> [Threads -> Nat]]
    BY <1>3, <2>0 DEF TypeOK, Dispatch, Running
  <2>3. batch' \in [Threads -> Seq(MsgCell)]
    BY <1>3, <2>0 DEF TypeOK, Dispatch, Running
  <2>4. TypeOK'
    BY <1>3, <2>1, <2>2, <2>3 DEF TypeOK, Dispatch, Running
  <2>5. Control'
    <3> SUFFICES ASSUME NEW x \in Threads PROVE ControlOf(x)'
      BY DEF Control
    <3>1. ControlOf(x) /\ ControlOf(th)
      BY DEF Control
    <3>2. CASE x = th
      BY <1>3, <2>0, <3>1, <3>2 DEF TypeOK, ControlOf, HasTask, Posting, Dispatch, Running, Goto
    <3>3. CASE x # th
      BY <1>3, <2>0, <3>1, <3>3 DEF TypeOK, ControlOf, HasTask, Posting, Dispatch, Running, Goto
    <3> QED
      BY <3>2, <3>3
  <2> QED
    BY <2>4, <2>5 DEF TypeInv
<1>4. CASE Release(th)
  <2>1. pc' \in [Threads -> PCs]
    BY <1>4 DEF TypeOK, PCs, Release, Running, Goto
  <2>2. global' \in [Tasks -> {0, 1}]
    BY <1>4 DEF TypeOK, Release, Running
  <2>3. tgt' \in [Threads -> Tasks \cup {None}]
    BY <1>4 DEF TypeOK, Release, Running
  <2>4. cur' \in [Threads -> Tasks \cup {None}]
    BY <1>4 DEF TypeOK, Release, Running
  <2>5. TypeOK'
    BY <1>4, <2>1, <2>2, <2>3, <2>4 DEF TypeOK, Release, Running
  <2>6. Control'
    <3> SUFFICES ASSUME NEW x \in Threads PROVE ControlOf(x)'
      BY DEF Control
    <3>1. ControlOf(x) /\ ControlOf(th)
      BY DEF Control
    <3>2. CASE x = th
      BY <1>4, <3>1, <3>2 DEF TypeOK, ControlOf, HasTask, Posting, Release, Running, Goto
    <3>3. CASE x # th
      BY <1>4, <3>1, <3>3 DEF TypeOK, ControlOf, HasTask, Posting, Release, Running, Goto
    <3> QED
      BY <3>2, <3>3
  <2> QED
    BY <2>5, <2>6 DEF TypeInv
<1>5. CASE ReleaseCheck(th)
  <2>1. pc' \in [Threads -> PCs]
    BY <1>5 DEF TypeOK, PCs, ReleaseCheck, Goto
  <2>2. TypeOK'
    BY <1>5, <2>1 DEF TypeOK, ReleaseCheck
  <2>3. Control'
    <3> SUFFICES ASSUME NEW x \in Threads PROVE ControlOf(x)'
      BY DEF Control
    <3>1. ControlOf(x) /\ ControlOf(th)
      BY DEF Control
    <3>2. CASE x = th
      BY <1>5, <3>1, <3>2 DEF TypeOK, ControlOf, HasTask, Posting, ReleaseCheck, Goto
    <3>3. CASE x # th
      BY <1>5, <3>1, <3>3 DEF TypeOK, ControlOf, HasTask, Posting, ReleaseCheck, Goto
    <3> QED
      BY <3>2, <3>3
  <2> QED
    BY <2>2, <2>3 DEF TypeInv
<1>6. CASE ReleaseDone(th)
  <2>1. Return(th) /\ pc \in [Threads -> PCs]
    BY <1>6 DEF TypeOK, ReleaseDone
  <2>2. /\ pc' \in [Threads -> PCs]
        /\ cur[th] # None => pc'[th] = "hand"
        /\ cur[th] = None => pc'[th] \in {"win", "idle"}
        /\ pc'[th] = "win" => th \in Nets /\ win[th] # <<>>
        /\ \A x \in Threads \ {th} : pc'[x] = pc[x]
    BY <2>1, Returning
  <2>3. tgt' \in [Threads -> Tasks \cup {None}]
    BY <1>6 DEF TypeOK, ReleaseDone
  <2>4. TypeOK'
    BY <1>6, <2>2, <2>3 DEF TypeOK, ReleaseDone
  <2>5. Control'
    <3> SUFFICES ASSUME NEW x \in Threads PROVE ControlOf(x)'
      BY DEF Control
    <3>1. ControlOf(x) /\ ControlOf(th)
      BY DEF Control
    <3>2. CASE x = th
      BY <1>6, <2>2, <3>1, <3>2 DEF TypeOK, ControlOf, HasTask, Posting, ReleaseDone
    <3>3. CASE x # th
      BY <1>6, <2>2, <3>1, <3>3 DEF TypeOK, ControlOf, HasTask, Posting, ReleaseDone
    <3> QED
      BY <3>2, <3>3
  <2> QED
    BY <2>4, <2>5 DEF TypeInv
<1> QED
  BY <1>1, <1>2, <1>3, <1>4, <1>5, <1>6 DEF RunTask

LEMMA WorkerType ==
  ASSUME TypeInv, NEW w \in Workers, WorkerLoop(w) \/ SpuriousWake(w)
  PROVE  TypeInv'
<1> TypeOK /\ Control
  BY DEF TypeInv
<1> USE Sets DEF queues, waiters, ending, round, windows, history
<1>1. CASE TakeOwn(w)
  <2>0. /\ taskq[w] \in Seq(TaskCell) /\ Head(taskq[w]).task \in Tasks
        /\ Tail(taskq[w]) \in Seq(TaskCell)
    <3>1. taskq[w] \in Seq(TaskCell) /\ taskq[w] # <<>>
      BY <1>1 DEF TypeOK, TakeOwn, TakeFrom, CanTake
    <3>2. Head(taskq[w]) \in TaskCell /\ Tail(taskq[w]) \in Seq(TaskCell)
      BY <3>1
    <3> QED
      BY <3>1, <3>2 DEF TaskCell
  <2>1. pc' \in [Threads -> PCs]
    BY <1>1 DEF TypeOK, PCs, TakeOwn, TakeFrom, Goto
  <2>2. cur' \in [Threads -> Tasks \cup {None}]
    BY <1>1, <2>0 DEF TypeOK, TakeOwn, TakeFrom
  <2>3. taskq' \in [Workers -> Seq(TaskCell)]
    BY <1>1, <2>0 DEF TypeOK, TakeOwn, TakeFrom
  <2>4. TypeOK'
    BY <1>1, <2>1, <2>2, <2>3 DEF TypeOK, TakeOwn, TakeFrom
  <2>5. Control'
    <3> SUFFICES ASSUME NEW x \in Threads PROVE ControlOf(x)'
      BY DEF Control
    <3>1. ControlOf(x) /\ ControlOf(w)
      BY DEF Control
    <3>2. CASE x = w
      BY <1>1, <2>0, <3>1, <3>2 DEF TypeOK, ControlOf, HasTask, Posting, TakeOwn, TakeFrom, Goto
    <3>3. CASE x # w
      BY <1>1, <2>0, <3>1, <3>3 DEF TypeOK, ControlOf, HasTask, Posting, TakeOwn, TakeFrom, Goto
    <3> QED
      BY <3>2, <3>3
  <2> QED
    BY <2>4, <2>5 DEF TypeInv
<1>2. ASSUME NEW v \in Workers, Steal(w, v) PROVE TypeInv'
  <2>0. /\ taskq[v] \in Seq(TaskCell) /\ Head(taskq[v]).task \in Tasks
        /\ Tail(taskq[v]) \in Seq(TaskCell)
    <3>1. taskq[v] \in Seq(TaskCell) /\ taskq[v] # <<>>
      BY <1>2 DEF TypeOK, Steal, TakeFrom, CanTake
    <3>2. Head(taskq[v]) \in TaskCell /\ Tail(taskq[v]) \in Seq(TaskCell)
      BY <3>1
    <3> QED
      BY <3>1, <3>2 DEF TaskCell
  <2>1. pc' \in [Threads -> PCs]
    BY <1>2 DEF TypeOK, PCs, Steal, TakeFrom, Goto
  <2>2. cur' \in [Threads -> Tasks \cup {None}]
    BY <1>2, <2>0 DEF TypeOK, Steal, TakeFrom
  <2>3. taskq' \in [Workers -> Seq(TaskCell)]
    BY <1>2, <2>0 DEF TypeOK, Steal, TakeFrom
  <2>4. TypeOK'
    BY <1>2, <2>1, <2>2, <2>3 DEF TypeOK, Steal, TakeFrom
  <2>5. Control'
    <3> SUFFICES ASSUME NEW x \in Threads PROVE ControlOf(x)'
      BY DEF Control
    <3>1. ControlOf(x) /\ ControlOf(w)
      BY DEF Control
    <3>2. CASE x = w
      BY <1>2, <2>0, <3>1, <3>2 DEF TypeOK, ControlOf, HasTask, Posting, Steal, TakeFrom, Goto
    <3>3. CASE x # w
      BY <1>2, <2>0, <3>1, <3>3 DEF TypeOK, ControlOf, HasTask, Posting, Steal, TakeFrom, Goto
    <3> QED
      BY <3>2, <3>3
  <2> QED
    BY <2>4, <2>5 DEF TypeInv
<1>3. CASE OwnFails(w)
  <2>1. pc' \in [Threads -> PCs]
    BY <1>3 DEF TypeOK, PCs, OwnFails, Goto
  <2>2. TypeOK'
    BY <1>3, <2>1 DEF TypeOK, OwnFails
  <2>3. Control'
    <3> SUFFICES ASSUME NEW x \in Threads PROVE ControlOf(x)'
      BY DEF Control
    <3>1. ControlOf(x) /\ ControlOf(w)
      BY DEF Control
    <3>2. CASE x = w
      BY <1>3, <3>1, <3>2 DEF TypeOK, ControlOf, HasTask, Posting, OwnFails, Goto
    <3>3. CASE x # w
      BY <1>3, <3>1, <3>3 DEF TypeOK, ControlOf, HasTask, Posting, OwnFails, Goto
    <3> QED
      BY <3>2, <3>3
  <2> QED
    BY <2>2, <2>3 DEF TypeInv
<1>4. CASE NoTask(w)
  <2>1. pc' \in [Threads -> PCs]
    BY <1>4 DEF TypeOK, PCs, NoTask, Goto
  <2>2. TypeOK'
    BY <1>4, <2>1 DEF TypeOK, NoTask
  <2>3. Control'
    <3> SUFFICES ASSUME NEW x \in Threads PROVE ControlOf(x)'
      BY DEF Control
    <3>1. ControlOf(x) /\ ControlOf(w)
      BY DEF Control
    <3>2. CASE x = w
      BY <1>4, <3>1, <3>2 DEF TypeOK, ControlOf, HasTask, Posting, NoTask, Goto
    <3>3. CASE x # w
      BY <1>4, <3>1, <3>3 DEF TypeOK, ControlOf, HasTask, Posting, NoTask, Goto
    <3> QED
      BY <3>2, <3>3
  <2> QED
    BY <2>2, <2>3 DEF TypeInv
<1>5. CASE LookAgain(w)
  <2>1. pc' \in [Threads -> PCs]
    BY <1>5 DEF TypeOK, PCs, LookAgain, Goto
  <2>2. TypeOK'
    BY <1>5, <2>1 DEF TypeOK, LookAgain
  <2>3. Control'
    <3> SUFFICES ASSUME NEW x \in Threads PROVE ControlOf(x)'
      BY DEF Control
    <3>1. ControlOf(x) /\ ControlOf(w)
      BY DEF Control
    <3>2. CASE x = w
      BY <1>5, <3>1, <3>2 DEF TypeOK, ControlOf, HasTask, Posting, LookAgain, Goto
    <3>3. CASE x # w
      BY <1>5, <3>1, <3>3 DEF TypeOK, ControlOf, HasTask, Posting, LookAgain, Goto
    <3> QED
      BY <3>2, <3>3
  <2> QED
    BY <2>2, <2>3 DEF TypeInv
<1>6. CASE PrepareSeen(w)
  <2>1. pc' \in [Threads -> PCs]
    BY <1>6 DEF TypeOK, PCs, PrepareSeen, Goto
  <2>2. moved' \in [Workers -> BOOLEAN]
    BY <1>6 DEF TypeOK, PrepareSeen
  <2>3. TypeOK'
    BY <1>6, <2>1, <2>2 DEF TypeOK, PrepareSeen
  <2>4. Control'
    <3> SUFFICES ASSUME NEW x \in Threads PROVE ControlOf(x)'
      BY DEF Control
    <3>1. ControlOf(x) /\ ControlOf(w)
      BY DEF Control
    <3>2. CASE x = w
      BY <1>6, <3>1, <3>2 DEF TypeOK, ControlOf, HasTask, Posting, PrepareSeen, Goto
    <3>3. CASE x # w
      BY <1>6, <3>1, <3>3 DEF TypeOK, ControlOf, HasTask, Posting, PrepareSeen, Goto
    <3> QED
      BY <3>2, <3>3
  <2> QED
    BY <2>3, <2>4 DEF TypeInv
<1>7. CASE PrepareShow(w)
  <2>1. pc' \in [Threads -> PCs]
    BY <1>7 DEF TypeOK, PCs, PrepareShow, Goto
  <2>2. wstate' \in [Workers -> {"awake", "sleep", "waking"}]
    BY <1>7 DEF TypeOK, PrepareShow
  <2>3. TypeOK'
    BY <1>7, <2>1, <2>2 DEF TypeOK, PrepareShow
  <2>4. Control'
    <3> SUFFICES ASSUME NEW x \in Threads PROVE ControlOf(x)'
      BY DEF Control
    <3>1. ControlOf(x) /\ ControlOf(w)
      BY DEF Control
    <3>2. CASE x = w
      BY <1>7, <3>1, <3>2 DEF TypeOK, ControlOf, HasTask, Posting, PrepareShow, Goto
    <3>3. CASE x # w
      BY <1>7, <3>1, <3>3 DEF TypeOK, ControlOf, HasTask, Posting, PrepareShow, Goto
    <3> QED
      BY <3>2, <3>3
  <2> QED
    BY <2>3, <2>4 DEF TypeInv
<1>8. CASE SleepRecheck(w)
  <2>1. pc' \in [Threads -> PCs]
    BY <1>8 DEF TypeOK, PCs, SleepRecheck, Goto
  <2>2. TypeOK'
    BY <1>8, <2>1 DEF TypeOK, SleepRecheck
  <2>3. Control'
    <3> SUFFICES ASSUME NEW x \in Threads PROVE ControlOf(x)'
      BY DEF Control
    <3>1. ControlOf(x) /\ ControlOf(w)
      BY DEF Control
    <3>2. CASE x = w
      BY <1>8, <3>1, <3>2 DEF TypeOK, ControlOf, HasTask, Posting, SleepRecheck, Goto
    <3>3. CASE x # w
      BY <1>8, <3>1, <3>3 DEF TypeOK, ControlOf, HasTask, Posting, SleepRecheck, Goto
    <3> QED
      BY <3>2, <3>3
  <2> QED
    BY <2>2, <2>3 DEF TypeInv
<1>9. CASE Commit(w)
  <2>1. pc' \in [Threads -> PCs]
    BY <1>9 DEF TypeOK, PCs, Commit, Goto
  <2>2. TypeOK'
    BY <1>9, <2>1 DEF TypeOK, Commit
  <2>3. Control'
    <3> SUFFICES ASSUME NEW x \in Threads PROVE ControlOf(x)'
      BY DEF Control
    <3>1. ControlOf(x) /\ ControlOf(w)
      BY DEF Control
    <3>2. CASE x = w
      BY <1>9, <3>1, <3>2 DEF TypeOK, ControlOf, HasTask, Posting, Commit, Goto
    <3>3. CASE x # w
      BY <1>9, <3>1, <3>3 DEF TypeOK, ControlOf, HasTask, Posting, Commit, Goto
    <3> QED
      BY <3>2, <3>3
  <2> QED
    BY <2>2, <2>3 DEF TypeInv
<1>10. CASE Awaken(w)
  <2>1. pc' \in [Threads -> PCs]
    BY <1>10 DEF TypeOK, PCs, Awaken, Goto
  <2>2. wstate' \in [Workers -> {"awake", "sleep", "waking"}]
    BY <1>10 DEF TypeOK, Awaken
  <2>3. TypeOK'
    BY <1>10, <2>1, <2>2 DEF TypeOK, Awaken
  <2>4. Control'
    <3> SUFFICES ASSUME NEW x \in Threads PROVE ControlOf(x)'
      BY DEF Control
    <3>1. ControlOf(x) /\ ControlOf(w)
      BY DEF Control
    <3>2. CASE x = w
      BY <1>10, <3>1, <3>2 DEF TypeOK, ControlOf, HasTask, Posting, Awaken, Goto
    <3>3. CASE x # w
      BY <1>10, <3>1, <3>3 DEF TypeOK, ControlOf, HasTask, Posting, Awaken, Goto
    <3> QED
      BY <3>2, <3>3
  <2> QED
    BY <2>3, <2>4 DEF TypeInv
<1>11. CASE WorkerExit(w)
  <2>1. pc' \in [Threads -> PCs]
    BY <1>11 DEF TypeOK, PCs, WorkerExit, Goto
  <2>2. TypeOK'
    BY <1>11, <2>1 DEF TypeOK, WorkerExit
  <2>3. Control'
    <3> SUFFICES ASSUME NEW x \in Threads PROVE ControlOf(x)'
      BY DEF Control
    <3>1. ControlOf(x) /\ ControlOf(w)
      BY DEF Control
    <3>2. CASE x = w
      BY <1>11, <3>1, <3>2 DEF TypeOK, ControlOf, HasTask, Posting, WorkerExit, Goto
    <3>3. CASE x # w
      BY <1>11, <3>1, <3>3 DEF TypeOK, ControlOf, HasTask, Posting, WorkerExit, Goto
    <3> QED
      BY <3>2, <3>3
  <2> QED
    BY <2>2, <2>3 DEF TypeInv
<1>12. CASE SpuriousWake(w)
  <2>1. pc' \in [Threads -> PCs]
    BY <1>12 DEF TypeOK, PCs, SpuriousWake, Goto
  <2>2. TypeOK'
    BY <1>12, <2>1 DEF TypeOK, SpuriousWake
  <2>3. Control'
    <3> SUFFICES ASSUME NEW x \in Threads PROVE ControlOf(x)'
      BY DEF Control
    <3>1. ControlOf(x) /\ ControlOf(w)
      BY DEF Control
    <3>2. CASE x = w
      BY <1>12, <3>1, <3>2 DEF TypeOK, ControlOf, HasTask, Posting, SpuriousWake, Goto
    <3>3. CASE x # w
      BY <1>12, <3>1, <3>3 DEF TypeOK, ControlOf, HasTask, Posting, SpuriousWake, Goto
    <3> QED
      BY <3>2, <3>3
  <2> QED
    BY <2>2, <2>3 DEF TypeInv
<1> QED
  BY <1>1, <1>2, <1>3, <1>4, <1>5, <1>6, <1>7, <1>8, <1>9, <1>10, <1>11, <1>12 DEF WorkerLoop

LEMMA NetType ==
  ASSUME TypeInv, NEW n \in Nets, NetLoop(n) \/ NetMay(n)
  PROVE  TypeInv'
<1> TypeOK /\ Control
  BY DEF TypeInv
<1> USE Sets DEF queues, waiters, ending, round, windows, history
<1>1. CASE DeferTake(n)
  <2>0. Head(deferq[n]) \in Tasks /\ Tail(deferq[n]) \in Seq(Tasks)
    <3>1. deferq[n] \in Seq(Tasks) /\ deferq[n] # <<>>
      BY <1>1 DEF TypeOK, DeferTake
    <3> QED
      BY <3>1
  <2>1. pc' \in [Threads -> PCs]
    BY <1>1 DEF TypeOK, PCs, DeferTake, Goto
  <2>2. cur' \in [Threads -> Tasks \cup {None}]
    BY <1>1, <2>0 DEF TypeOK, DeferTake
  <2>3. deferq' \in [Nets -> Seq(Tasks)]
    BY <1>1, <2>0 DEF TypeOK, DeferTake
  <2>4. TypeOK'
    BY <1>1, <2>1, <2>2, <2>3 DEF TypeOK, DeferTake
  <2>5. Control'
    <3> SUFFICES ASSUME NEW x \in Threads PROVE ControlOf(x)'
      BY DEF Control
    <3>1. ControlOf(x) /\ ControlOf(n)
      BY DEF Control
    <3>2. CASE x = n
      BY <1>1, <2>0, <3>1, <3>2 DEF TypeOK, ControlOf, HasTask, Posting, DeferTake, Goto
    <3>3. CASE x # n
      BY <1>1, <2>0, <3>1, <3>3 DEF TypeOK, ControlOf, HasTask, Posting, DeferTake, Goto
    <3> QED
      BY <3>2, <3>3
  <2> QED
    BY <2>4, <2>5 DEF TypeInv
<1>2. CASE EmitInline(n)
  <2>0. [by |-> n, n |-> sent[n][tgt[n]] + 1, ready |-> TRUE] \in MsgCell /\ tgt[n] \in Tasks
    <3>1. tgt[n] \in Tasks
      BY <1>2 DEF TypeOK, Control, ControlOf, EmitInline
    <3>2. sent[n][tgt[n]] + 1 \in Nat
      BY <3>1 DEF TypeOK
    <3> QED
      BY <3>1, <3>2 DEF MsgCell
  <2>1. pc' \in [Threads -> PCs]
    BY <1>2 DEF TypeOK, PCs, EmitInline, Goto
  <2>2. global' \in [Tasks -> {0, 1}]
    BY <1>2, <2>0 DEF TypeOK, EmitInline
  <2>3. sent' \in [Threads -> [Tasks -> Nat]]
    BY <1>2, <2>0 DEF TypeOK, EmitInline
  <2>4. cur' \in [Threads -> Tasks \cup {None}]
    BY <1>2, <2>0 DEF TypeOK, EmitInline
  <2>5. batch' \in [Threads -> Seq(MsgCell)]
    BY <1>2, <2>0 DEF TypeOK, EmitInline
  <2>6. left' \in [Threads -> Nat]
    BY <1>2, <2>0 DEF TypeOK, EmitInline
  <2>7. tgt' \in [Threads -> Tasks \cup {None}]
    BY <1>2, <2>0 DEF TypeOK, EmitInline
  <2>8. TypeOK'
    BY <1>2, <2>1, <2>2, <2>3, <2>4, <2>5, <2>6, <2>7 DEF TypeOK, EmitInline
  <2>9. Control'
    <3> SUFFICES ASSUME NEW x \in Threads PROVE ControlOf(x)'
      BY DEF Control
    <3>1. ControlOf(x) /\ ControlOf(n)
      BY DEF Control
    <3>2. CASE x = n
      BY <1>2, <2>0, <3>1, <3>2 DEF TypeOK, ControlOf, HasTask, Posting, EmitInline, Goto
    <3>3. CASE x # n
      BY <1>2, <2>0, <3>1, <3>3 DEF TypeOK, ControlOf, HasTask, Posting, EmitInline, Goto
    <3> QED
      BY <3>2, <3>3
  <2> QED
    BY <2>8, <2>9 DEF TypeInv
<1>3. CASE EmitLost(n)
  <2>1. pc' \in [Threads -> PCs]
    BY <1>3 DEF TypeOK, PCs, EmitLost, Goto
  <2>2. tgt' \in [Threads -> Tasks \cup {None}]
    BY <1>3 DEF TypeOK, EmitLost
  <2>3. TypeOK'
    BY <1>3, <2>1, <2>2 DEF TypeOK, EmitLost
  <2>4. Control'
    <3> SUFFICES ASSUME NEW x \in Threads PROVE ControlOf(x)'
      BY DEF Control
    <3>1. ControlOf(x) /\ ControlOf(n)
      BY DEF Control
    <3>2. CASE x = n
      BY <1>3, <3>1, <3>2 DEF TypeOK, ControlOf, HasTask, Posting, EmitLost, Goto
    <3>3. CASE x # n
      BY <1>3, <3>1, <3>3 DEF TypeOK, ControlOf, HasTask, Posting, EmitLost, Goto
    <3> QED
      BY <3>2, <3>3
  <2> QED
    BY <2>3, <2>4 DEF TypeInv
<1>4. CASE EmitClaim(n)
  <2>0. Target(n) \in Tasks
    <3>1. win[n] \in Seq(Tasks) /\ win[n] # <<>>
      BY <1>4 DEF TypeOK, Control, ControlOf, EmitClaim
    <3> QED
      BY <3>1 DEF Target
  <2>00. [by |-> n, n |-> sent[n][Target(n)] + 1, ready |-> FALSE] \in MsgCell
    BY <2>0 DEF TypeOK, MsgCell
  <2>1. pc' \in [Threads -> PCs]
    BY <1>4 DEF TypeOK, PCs, EmitClaim, ClaimMessage, Goto
  <2>2. sent' \in [Threads -> [Tasks -> Nat]]
    BY <1>4, <2>0, <2>00 DEF TypeOK, EmitClaim, ClaimMessage
  <2>3. qumsg' \in [Tasks -> Seq(MsgCell)]
    BY <1>4, <2>0, <2>00 DEF TypeOK, EmitClaim, ClaimMessage
  <2>4. tgt' \in [Threads -> Tasks \cup {None}]
    BY <1>4, <2>0, <2>00 DEF TypeOK, EmitClaim, ClaimMessage
  <2>5. TypeOK'
    BY <1>4, <2>1, <2>2, <2>3, <2>4 DEF TypeOK, EmitClaim, ClaimMessage
  <2>6. Control'
    <3> SUFFICES ASSUME NEW x \in Threads PROVE ControlOf(x)'
      BY DEF Control
    <3>1. ControlOf(x) /\ ControlOf(n)
      BY DEF Control
    <3>2. CASE x = n
      BY <1>4, <2>0, <2>00, <3>1, <3>2 DEF TypeOK, ControlOf, HasTask, Posting, EmitClaim, ClaimMessage, Goto
    <3>3. CASE x # n
      BY <1>4, <2>0, <2>00, <3>1, <3>3 DEF TypeOK, ControlOf, HasTask, Posting, EmitClaim, ClaimMessage, Goto
    <3> QED
      BY <3>2, <3>3
  <2> QED
    BY <2>5, <2>6 DEF TypeInv
<1>5. CASE EmitPublish(n)
  <2>0. Publish(qumsg[tgt[n]], n) \in Seq(MsgCell)
    <3>1. qumsg[tgt[n]] \in Seq(MsgCell)
      BY <1>5 DEF TypeOK, Control, ControlOf, EmitPublish
    <3> QED
      BY <3>1, PublishMsg
  <2>1. pc' \in [Threads -> PCs]
    BY <1>5 DEF TypeOK, PCs, EmitPublish, Goto
  <2>2. qumsg' \in [Tasks -> Seq(MsgCell)]
    BY <1>5, <2>0 DEF TypeOK, EmitPublish
  <2>3. nwin' \in [Nets -> Nat]
    <3>1. nwin \in [Nets -> Nat] /\ nwin' = [nwin EXCEPT ![n] = @ + 1]
      BY <1>5 DEF TypeOK, EmitPublish
    <3> QED BY <3>1
  <2>4. tgt' \in [Threads -> Tasks \cup {None}]
    BY <1>5, <2>0 DEF TypeOK, EmitPublish
  <2>5. TypeOK'
    BY <1>5, <2>1, <2>2, <2>3, <2>4 DEF TypeOK, EmitPublish
  <2>6. Control'
    <3> SUFFICES ASSUME NEW x \in Threads PROVE ControlOf(x)'
      BY DEF Control
    <3>1. ControlOf(x) /\ ControlOf(n)
      BY DEF Control
    <3>2. CASE x = n
      BY <1>5, <2>0, <3>1, <3>2 DEF TypeOK, ControlOf, HasTask, Posting, EmitPublish, Goto
    <3>3. CASE x # n
      BY <1>5, <2>0, <3>1, <3>3 DEF TypeOK, ControlOf, HasTask, Posting, EmitPublish, Goto
    <3> QED
      BY <3>2, <3>3
  <2> QED
    BY <2>5, <2>6 DEF TypeInv
<1>6. CASE EmitEnd(n)
  <2>0. Target(n) \in Tasks
    <3>1. win[n] \in Seq(Tasks) /\ win[n] # <<>>
      BY <1>6 DEF TypeOK, Control, ControlOf, EmitEnd
    <3> QED
      BY <3>1 DEF Target
  <2>00. SubSeq(win[n], 1, Len(win[n]) - 1) \in Seq(Tasks)
    BY DEF TypeOK
  <2>1. pc' \in [Threads -> PCs]
    BY <1>6 DEF TypeOK, PCs, EmitEnd, Goto
  <2>2. win' \in [Nets -> Seq(Tasks)]
    BY <1>6, <2>0, <2>00 DEF TypeOK, EmitEnd
  <2>3. tgt' \in [Threads -> Tasks \cup {None}]
    BY <1>6, <2>0, <2>00 DEF TypeOK, EmitEnd
  <2>4. TypeOK'
    BY <1>6, <2>1, <2>2, <2>3 DEF TypeOK, EmitEnd
  <2>5. Control'
    <3> SUFFICES ASSUME NEW x \in Threads PROVE ControlOf(x)'
      BY DEF Control
    <3>1. ControlOf(x) /\ ControlOf(n)
      BY DEF Control
    <3>2. CASE x = n
      BY <1>6, <2>0, <2>00, <3>1, <3>2 DEF TypeOK, ControlOf, HasTask, Posting, EmitEnd, Goto
    <3>3. CASE x # n
      BY <1>6, <2>0, <2>00, <3>1, <3>3 DEF TypeOK, ControlOf, HasTask, Posting, EmitEnd, Goto
    <3> QED
      BY <3>2, <3>3
  <2> QED
    BY <2>4, <2>5 DEF TypeInv
<1>7. CASE EmitEndEmpty(n)
  <2>00. /\ SubSeq(win[n], 1, Len(win[n]) - 1) \in Seq(Tasks)
         /\ Len(win[n]) # 1 => SubSeq(win[n], 1, Len(win[n]) - 1) # <<>>
    <3>1. win[n] \in Seq(Tasks) /\ win[n] # <<>>
      BY <1>7 DEF TypeOK, Control, ControlOf, EmitEndEmpty
    <3> QED
      BY <3>1, ButLast
  <2>1. pc' \in [Threads -> PCs]
    BY <1>7 DEF TypeOK, PCs, EmitEndEmpty, Goto
  <2>2. win' \in [Nets -> Seq(Tasks)]
    BY <1>7, <2>00 DEF TypeOK, EmitEndEmpty
  <2>3. TypeOK'
    BY <1>7, <2>1, <2>2 DEF TypeOK, EmitEndEmpty
  <2>4. Control'
    <3> SUFFICES ASSUME NEW x \in Threads PROVE ControlOf(x)'
      BY DEF Control
    <3>1. ControlOf(x) /\ ControlOf(n)
      BY DEF Control
    <3>2. CASE x = n
      BY <1>7, <2>00, <3>1, <3>2 DEF TypeOK, ControlOf, HasTask, Posting, EmitEndEmpty, Goto
    <3>3. CASE x # n
      BY <1>7, <2>00, <3>1, <3>3 DEF TypeOK, ControlOf, HasTask, Posting, EmitEndEmpty, Goto
    <3> QED
      BY <3>2, <3>3
  <2> QED
    BY <2>3, <2>4 DEF TypeInv
<1>8. ASSUME NEW t \in Tasks, EmitBegin(n, t) PROVE TypeInv'
  <2>0. Append(win[n], t) \in Seq(Tasks) /\ Append(win[n], t) # <<>>
    <3>1. win[n] \in Seq(Tasks)
      BY DEF TypeOK
    <3> QED
      BY <3>1, AppendProperties
  <2>1. pc' \in [Threads -> PCs]
    BY <1>8 DEF TypeOK, PCs, EmitBegin, Goto
  <2>2. win' \in [Nets -> Seq(Tasks)]
    BY <1>8, <2>0 DEF TypeOK, EmitBegin
  <2>3. nwin' \in [Nets -> Nat]
    BY <1>8, <2>0 DEF TypeOK, EmitBegin
  <2>4. TypeOK'
    BY <1>8, <2>1, <2>2, <2>3 DEF TypeOK, EmitBegin
  <2>5. Control'
    <3> SUFFICES ASSUME NEW x \in Threads PROVE ControlOf(x)'
      BY DEF Control
    <3>1. ControlOf(x) /\ ControlOf(n)
      BY DEF Control
    <3>2. CASE x = n
      BY <1>8, <2>0, <3>1, <3>2 DEF TypeOK, ControlOf, HasTask, Posting, EmitBegin, Goto
    <3>3. CASE x # n
      BY <1>8, <2>0, <3>1, <3>3 DEF TypeOK, ControlOf, HasTask, Posting, EmitBegin, Goto
    <3> QED
      BY <3>2, <3>3
  <2> QED
    BY <2>4, <2>5 DEF TypeInv
<1>9. CASE EmitTryInline(n)
  <2>0. Target(n) \in Tasks
    <3>1. win[n] \in Seq(Tasks) /\ win[n] # <<>>
      BY <1>9 DEF TypeOK, Control, ControlOf, EmitTryInline
    <3> QED
      BY <3>1 DEF Target
  <2>1. pc' \in [Threads -> PCs]
    BY <1>9 DEF TypeOK, PCs, EmitTryInline, Goto
  <2>2. tgt' \in [Threads -> Tasks \cup {None}]
    BY <1>9, <2>0 DEF TypeOK, EmitTryInline
  <2>3. TypeOK'
    BY <1>9, <2>1, <2>2 DEF TypeOK, EmitTryInline
  <2>4. Control'
    <3> SUFFICES ASSUME NEW x \in Threads PROVE ControlOf(x)'
      BY DEF Control
    <3>1. ControlOf(x) /\ ControlOf(n)
      BY DEF Control
    <3>2. CASE x = n
      BY <1>9, <2>0, <3>1, <3>2 DEF TypeOK, ControlOf, HasTask, Posting, EmitTryInline, Goto
    <3>3. CASE x # n
      BY <1>9, <2>0, <3>1, <3>3 DEF TypeOK, ControlOf, HasTask, Posting, EmitTryInline, Goto
    <3> QED
      BY <3>2, <3>3
  <2> QED
    BY <2>3, <2>4 DEF TypeInv
<1> QED
  BY <1>1, <1>2, <1>3, <1>4, <1>5, <1>6, <1>7, <1>8, <1>9 DEF NetLoop, NetMay

LEMMA MainType ==
  ASSUME TypeInv,
         \/ \E t \in Tasks, b \in Nets \cup {None} : Rebind(t, b)
         \/ LoaderStop
         \/ \E w \in Workers : WakeupAll(w) \/ WakeupSkip(w)
         \/ Joined
  PROVE  TypeInv'
<1> TypeOK /\ Control
  BY DEF TypeInv
<1> USE Sets DEF queues, waiters, ending, round, windows, history
<1>1. ASSUME NEW t \in Tasks, NEW b \in Nets \cup {None}, Rebind(t, b) PROVE TypeInv'
  BY <1>1 DEF TypeInv, TypeOK, Control, ControlOf, HasTask, Posting, Rebind
<1>2. CASE LoaderStop
  BY <1>2 DEF TypeInv, TypeOK, Control, ControlOf, HasTask, Posting, LoaderStop
<1>3. ASSUME NEW w \in Workers, WakeupAll(w) PROVE TypeInv'
  <2>1. pc' \in [Threads -> PCs]
    BY <1>3 DEF TypeOK, PCs, WakeupAll, Goto
  <2>2. wk' \in [Threads -> Workers \cup {None}]
    BY <1>3 DEF TypeOK, WakeupAll
  <2>3. unwoken' \in SUBSET Workers
    BY <1>3 DEF TypeOK, WakeupAll
  <2>4. TypeOK'
    BY <1>3, <2>1, <2>2, <2>3 DEF TypeOK, WakeupAll
  <2>5. Control'
    <3> SUFFICES ASSUME NEW x \in Threads PROVE ControlOf(x)'
      BY DEF Control
    <3>1. ControlOf(x) /\ ControlOf(Main)
      BY DEF Control
    <3>2. CASE x = Main
      BY <1>3, <3>1, <3>2 DEF TypeOK, ControlOf, HasTask, Posting, WakeupAll, Goto
    <3>3. CASE x # Main
      BY <1>3, <3>1, <3>3 DEF TypeOK, ControlOf, HasTask, Posting, WakeupAll, Goto
    <3> QED
      BY <3>2, <3>3
  <2> QED
    BY <2>4, <2>5 DEF TypeInv
<1>4. ASSUME NEW w \in Workers, WakeupSkip(w) PROVE TypeInv'
  BY <1>4 DEF TypeInv, TypeOK, Control, ControlOf, HasTask, Posting, WakeupSkip
<1>5. CASE Joined
  BY <1>5 DEF TypeInv, TypeOK, Control, ControlOf, HasTask, Posting, Joined, vars
<1> QED
  BY <1>1, <1>2, <1>3, <1>4, <1>5

LEMMA TypeInit == Init => TypeInv
<1> SUFFICES ASSUME Init PROVE TypeInv
  OBVIOUS
<1>1. TypeOK
  <2>1. /\ qumsg \in [Tasks -> Seq(MsgCell)] /\ taskq \in [Workers -> Seq(TaskCell)]
        /\ deferq \in [Nets -> Seq(Tasks)] /\ batch \in [Threads -> Seq(MsgCell)]
        /\ win \in [Nets -> Seq(Tasks)]
    BY DEF Init
  <2>2. /\ global \in [Tasks -> {0, 1}] /\ evbind \in [Tasks -> Nets \cup {None}]
        /\ wstate \in [Workers -> {"awake", "sleep", "waking"}]
        /\ moved \in [Workers -> BOOLEAN] /\ stop \in BOOLEAN
        /\ unwoken \in SUBSET Workers
    BY DEF Init
  <2>3. pc \in [Threads -> PCs]
    BY DEF Init, PCs
  <2>4. /\ cur \in [Threads -> Tasks \cup {None}] /\ tgt \in [Threads -> Tasks \cup {None}]
        /\ wk \in [Threads -> Workers \cup {None}] /\ left \in [Threads -> Nat]
        /\ nwin \in [Nets -> Nat] /\ sent \in [Threads -> [Tasks -> Nat]]
        /\ last \in [Tasks -> [Threads -> Nat]]
    BY DEF Init
  <2> QED
    BY <2>1, <2>2, <2>3, <2>4 DEF TypeOK
<1>2. Control
  BY Sets DEF Init, Control, ControlOf, HasTask, Posting
<1> QED
  BY <1>1, <1>2 DEF TypeInv

LEMMA TypeNext == TypeInv /\ [Next]_vars => TypeInv'
<1> SUFFICES ASSUME TypeInv, [Next]_vars PROVE TypeInv'
  OBVIOUS
<1>1. CASE UNCHANGED vars
  BY <1>1 DEF TypeInv, TypeOK, Control, ControlOf, HasTask, Posting, vars,
              queues, waiters, ending, round, windows, history
<1>2. CASE Next
  BY <1>2, PostType, RunType, WorkerType, NetType, MainType DEF Next
<1> QED
  BY <1>1, <1>2

\* Every variable stays in its type, for any number of threads, tasks and posts.
THEOREM TypeCorrect == Spec => []TypeOK
<1>1. TypeInv => TypeOK
  BY DEF TypeInv
<1> QED
  BY TypeInit, TypeNext, <1>1, PTL DEF Spec

-----------------------------------------------------------------------------
(* Ownership of a task: while its flag `global` is 1 it is in exactly one  *)
(* place, the thread that runs it, the thread that is scheduling it, one   *)
(* cell of one run queue, or one place of one net thread's queue; while    *)
(* the flag is 0 it is nowhere.  OneRunner and GlobalHeld follow.          *)

Runs(x, t) == cur[x] = t

\* No two places, and none while the flag is 0.
Exclusive(t) ==
  /\ \A x, y \in Threads : Runs(x, t) /\ Runs(y, t) => x = y
  /\ \A x, y \in Threads : Scheduling(x, t) /\ Scheduling(y, t) => x = y
  /\ \A x, y \in Threads : ~(Runs(x, t) /\ Scheduling(y, t))
  /\ \A x \in Threads, w \in Workers, i \in Nat :
       InTaskq(w, i, t) => ~Runs(x, t) /\ ~Scheduling(x, t)
  /\ \A x \in Threads, n \in Nets, i \in Nat :
       InDeferq(n, i, t) => ~Runs(x, t) /\ ~Scheduling(x, t)
  /\ \A v, w \in Workers, i, j \in Nat :
       InTaskq(v, i, t) /\ InTaskq(w, j, t) => v = w /\ i = j
  /\ \A m, n \in Nets, i, j \in Nat :
       InDeferq(m, i, t) /\ InDeferq(n, j, t) => m = n /\ i = j
  /\ \A w \in Workers, n \in Nets, i, j \in Nat : ~(InTaskq(w, i, t) /\ InDeferq(n, j, t))

Placed(t) ==
  \/ \E x \in Threads : Runs(x, t) \/ Scheduling(x, t)
  \/ \E w \in Workers, i \in Nat : InTaskq(w, i, t)
  \/ \E n \in Nets, i \in Nat : InDeferq(n, i, t)

OwnOf(t) == Exclusive(t) /\ (global[t] = 1 <=> Placed(t))

OwnInv == \A t \in Tasks : OwnOf(t)

-----------------------------------------------------------------------------
(* Steps that move no task. *)

QuietOwn ==
  /\ cur' = cur /\ deferq' = deferq /\ global' = global
  /\ \A x \in Threads, t \in Tasks : Scheduling(x, t)' <=> Scheduling(x, t)
  /\ \A w \in Workers, i \in Nat, t \in Tasks : InTaskq(w, i, t)' <=> InTaskq(w, i, t)

LEMMA OwnFrame ==
  ASSUME OwnInv, QuietOwn
  PROVE  OwnInv'
<1> SUFFICES ASSUME NEW t \in Tasks PROVE OwnOf(t)'
  BY DEF OwnInv
<1>1. OwnOf(t)
  BY DEF OwnInv
<1>2. /\ \A x \in Threads : Runs(x, t)' <=> Runs(x, t)
      /\ \A n \in Nets, i \in Nat : InDeferq(n, i, t)' <=> InDeferq(n, i, t)
  BY DEF QuietOwn, Runs, InDeferq
<1>3. /\ \A x \in Threads : Scheduling(x, t)' <=> Scheduling(x, t)
      /\ \A w \in Workers, i \in Nat : InTaskq(w, i, t)' <=> InTaskq(w, i, t)
      /\ global'[t] = global[t]
  BY DEF QuietOwn
<1>4. Exclusive(t)'
  BY <1>1, <1>2, <1>3 DEF OwnOf, Exclusive
<1>5. global'[t] = 1 <=> Placed(t)'
  BY <1>1, <1>2, <1>3 DEF OwnOf, Placed
<1> QED
  BY <1>4, <1>5 DEF OwnOf

LEMMA QuietPost ==
  ASSUME TypeInv, NEW th \in Threads,
         Post(th), ~Activate(th), ~ScheduleNet(th), ~\E w \in Workers : ScheduleWorker(th, w)
  PROVE  QuietOwn
<1> TypeOK /\ Control
  BY DEF TypeInv
<1> USE Sets DEF TypeOK
<1>1. ASSUME NEW t \in Tasks, PostClaim(th, t) PROVE QuietOwn
  BY <1>1 DEF PostClaim, ClaimMessage, QuietOwn, Scheduling, InTaskq, queues, waiters, ending, round, windows, history, Goto
<1>2. CASE PostPublish(th)
  BY <1>2 DEF PostPublish, QuietOwn, Scheduling, InTaskq, queues, waiters, ending, round, windows, history, Goto
<1>3. CASE AlreadyActive(th)
  <2>1. \A x \in Threads : (pc'[x] # "sched" /\ pc[x] # "sched") \/ pc'[x] = pc[x]
    BY <1>3, Returning DEF TypeOK, AlreadyActive
  <2>2. \A x \in Threads : pc[x] = "sched" => tgt'[x] = tgt[x]
    BY <1>3 DEF TypeOK, AlreadyActive, queues, waiters, ending, round, windows, history
  <2> QED
    BY <1>3, <2>1, <2>2 DEF AlreadyActive, QuietOwn, Scheduling, InTaskq, queues, waiters, ending, round, windows, history
<1>4. CASE TaskqPublish(th)
  <2>1. wk[th] \in Workers /\ taskq[wk[th]] \in Seq(TaskCell)
    BY <1>4 DEF TaskqPublish, Control, ControlOf
  <2>2. /\ DOMAIN Publish(taskq[wk[th]], th) = DOMAIN taskq[wk[th]]
        /\ \A i \in DOMAIN taskq[wk[th]] :
             Publish(taskq[wk[th]], th)[i].task = taskq[wk[th]][i].task
    BY <2>1, PublishTask
  <2>3. taskq' = [taskq EXCEPT ![wk[th]] = Publish(@, th)]
    BY <1>4 DEF TaskqPublish
  <2>4. \A w \in Workers, i \in Nat, t \in Tasks : InTaskq(w, i, t)' <=> InTaskq(w, i, t)
    BY <2>1, <2>2, <2>3 DEF InTaskq
  <2> QED
    BY <1>4, <2>4 DEF TaskqPublish, QuietOwn, Scheduling, queues, round, Goto
<1>5. CASE MarkWaking(th)
  BY <1>5 DEF MarkWaking, QuietOwn, Scheduling, InTaskq, queues, waiters, ending, round, windows, history, Goto
<1>6. CASE NoWakeNeeded(th)
  <2>1. \A x \in Threads : (pc'[x] # "sched" /\ pc[x] # "sched") \/ pc'[x] = pc[x]
    BY <1>6, Returning DEF TypeOK, NoWakeNeeded
  <2>2. \A x \in Threads : pc[x] = "sched" => tgt'[x] = tgt[x]
    BY <1>6 DEF TypeOK, NoWakeNeeded, queues, waiters, ending, round, windows, history
  <2> QED
    BY <1>6, <2>1, <2>2 DEF NoWakeNeeded, QuietOwn, Scheduling, InTaskq, queues, waiters, ending, round, windows, history
<1>7. CASE WakeEpoch(th)
  BY <1>7 DEF WakeEpoch, QuietOwn, Scheduling, InTaskq, queues, waiters, ending, round, windows, history, Goto
<1>8. CASE FutexWake(th)
  <2>1. ReturnPoint(th) \in {"hand", "win", "idle"}
    BY DEF ReturnPoint
  <2>2. \A x \in Threads : (pc'[x] # "sched" /\ pc[x] # "sched") \/ pc'[x] = pc[x]
    BY <1>8, <2>1 DEF FutexWake
  <2> QED
    BY <1>8, <2>2 DEF FutexWake, QuietOwn, Scheduling, InTaskq, queues, round
<1> QED
  BY <1>1, <1>2, <1>3, <1>4, <1>5, <1>6, <1>7, <1>8 DEF Post

LEMMA QuietRun ==
  ASSUME TypeInv, NEW th \in Threads, RunTask(th), ~Release(th)
  PROVE  QuietOwn
<1> TypeOK /\ Control
  BY DEF TypeInv
<1> USE Sets DEF TypeOK
<1>1. CASE RunSize(th)
  BY <1>1 DEF RunSize, QuietOwn, Scheduling, InTaskq, queues, waiters, ending, round, windows, history, Goto
<1>2. CASE RunPop(th)
  BY <1>2 DEF RunPop, Running, QuietOwn, Scheduling, InTaskq, queues, waiters, ending, round, windows, history, Goto
<1>3. CASE Dispatch(th)
  BY <1>3 DEF Dispatch, Running, QuietOwn, Scheduling, InTaskq, queues, waiters, ending, round, windows, history, Goto
<1>4. CASE ReleaseCheck(th)
  BY <1>4 DEF ReleaseCheck, QuietOwn, Scheduling, InTaskq, queues, waiters, ending, round, windows, history, Goto
<1>5. CASE ReleaseDone(th)
  <2>1. \A x \in Threads : (pc'[x] # "sched" /\ pc[x] # "sched") \/ pc'[x] = pc[x]
    BY <1>5, Returning DEF TypeOK, ReleaseDone
  <2>2. \A x \in Threads : pc[x] = "sched" => tgt'[x] = tgt[x]
    BY <1>5 DEF TypeOK, ReleaseDone, queues, waiters, ending, round, windows, history
  <2> QED
    BY <1>5, <2>1, <2>2 DEF ReleaseDone, QuietOwn, Scheduling, InTaskq, queues, waiters, ending, round, windows, history
<1> QED
  BY <1>1, <1>2, <1>3, <1>4, <1>5 DEF RunTask

LEMMA QuietWorker ==
  ASSUME TypeInv, NEW w \in Workers, WorkerLoop(w) \/ SpuriousWake(w),
         ~TakeOwn(w), ~\E v \in Workers : Steal(w, v)
  PROVE  QuietOwn
<1> TypeOK /\ Control
  BY DEF TypeInv
<1> USE Sets DEF TypeOK
<1>1. CASE OwnFails(w)
  BY <1>1 DEF OwnFails, QuietOwn, Scheduling, InTaskq, queues, waiters, ending, round, windows, history, Goto
<1>2. CASE NoTask(w)
  BY <1>2 DEF NoTask, QuietOwn, Scheduling, InTaskq, queues, waiters, ending, round, windows, history, Goto
<1>3. CASE LookAgain(w)
  BY <1>3 DEF LookAgain, QuietOwn, Scheduling, InTaskq, queues, waiters, ending, round, windows, history, Goto
<1>4. CASE PrepareSeen(w)
  BY <1>4 DEF PrepareSeen, QuietOwn, Scheduling, InTaskq, queues, waiters, ending, round, windows, history, Goto
<1>5. CASE PrepareShow(w)
  BY <1>5 DEF PrepareShow, QuietOwn, Scheduling, InTaskq, queues, waiters, ending, round, windows, history, Goto
<1>6. CASE SleepRecheck(w)
  BY <1>6 DEF SleepRecheck, QuietOwn, Scheduling, InTaskq, queues, waiters, ending, round, windows, history, Goto
<1>7. CASE Commit(w)
  BY <1>7 DEF Commit, QuietOwn, Scheduling, InTaskq, queues, waiters, ending, round, windows, history, Goto
<1>8. CASE Awaken(w)
  BY <1>8 DEF Awaken, QuietOwn, Scheduling, InTaskq, queues, waiters, ending, round, windows, history, Goto
<1>9. CASE WorkerExit(w)
  BY <1>9 DEF WorkerExit, QuietOwn, Scheduling, InTaskq, queues, waiters, ending, round, windows, history, Goto
<1>10. CASE SpuriousWake(w)
  BY <1>10 DEF SpuriousWake, QuietOwn, Scheduling, InTaskq, queues, waiters, ending, round, windows, history, Goto
<1> QED
  BY <1>1, <1>2, <1>3, <1>4, <1>5, <1>6, <1>7, <1>8, <1>9, <1>10 DEF WorkerLoop

LEMMA QuietNet ==
  ASSUME TypeInv, NEW n \in Nets, NetLoop(n) \/ NetMay(n), ~DeferTake(n), ~EmitInline(n)
  PROVE  QuietOwn
<1> TypeOK /\ Control
  BY DEF TypeInv
<1> USE Sets DEF TypeOK
<1>1. CASE EmitLost(n)
  BY <1>1 DEF EmitLost, QuietOwn, Scheduling, InTaskq, queues, waiters, ending, round, windows, history, Goto
<1>2. CASE EmitClaim(n)
  BY <1>2 DEF EmitClaim, ClaimMessage, QuietOwn, Scheduling, InTaskq, queues, waiters, ending, round, windows, history, Goto
<1>3. CASE EmitPublish(n)
  BY <1>3 DEF EmitPublish, QuietOwn, Scheduling, InTaskq, queues, waiters, ending, round, windows, history, Goto
<1>4. CASE EmitEnd(n)
  BY <1>4 DEF EmitEnd, QuietOwn, Scheduling, InTaskq, queues, waiters, ending, round, windows, history, Goto
<1>5. CASE EmitEndEmpty(n)
  BY <1>5 DEF EmitEndEmpty, QuietOwn, Scheduling, InTaskq, queues, waiters, ending, round, windows, history, Goto
<1>6. ASSUME NEW t \in Tasks, EmitBegin(n, t) PROVE QuietOwn
  BY <1>6 DEF EmitBegin, QuietOwn, Scheduling, InTaskq, queues, waiters, ending, round, windows, history, Goto
<1>7. CASE EmitTryInline(n)
  BY <1>7 DEF EmitTryInline, QuietOwn, Scheduling, InTaskq, queues, waiters, ending, round, windows, history, Goto
<1> QED
  BY <1>1, <1>2, <1>3, <1>4, <1>5, <1>6, <1>7 DEF NetLoop, NetMay

LEMMA QuietMain ==
  ASSUME TypeInv, 
         \/ \E t \in Tasks, b \in Nets \cup {None} : Rebind(t, b)
         \/ LoaderStop
         \/ \E w \in Workers : WakeupAll(w) \/ WakeupSkip(w)
         \/ Joined
  PROVE  QuietOwn
<1> TypeOK /\ Control
  BY DEF TypeInv
<1> USE Sets DEF TypeOK
<1>1. ASSUME NEW t \in Tasks, NEW b \in Nets \cup {None}, Rebind(t, b) PROVE QuietOwn
  BY <1>1 DEF Rebind, QuietOwn, Scheduling, InTaskq, queues, waiters, ending, round, windows, history, Goto
<1>2. CASE LoaderStop
  BY <1>2 DEF LoaderStop, QuietOwn, Scheduling, InTaskq, queues, waiters, ending, round, windows, history, Goto
<1>3. ASSUME NEW w \in Workers, WakeupAll(w) PROVE QuietOwn
  BY <1>3 DEF WakeupAll, QuietOwn, Scheduling, InTaskq, queues, waiters, ending, round, windows, history, Goto
<1>4. ASSUME NEW w \in Workers, WakeupSkip(w) PROVE QuietOwn
  BY <1>4 DEF WakeupSkip, QuietOwn, Scheduling, InTaskq, queues, waiters, ending, round, windows, history, Goto
<1>5. CASE Joined
  BY <1>5 DEF Joined, vars, QuietOwn, Scheduling, InTaskq, queues, waiters, ending, round, windows, history, Goto
<1> QED
  BY <1>1, <1>2, <1>3, <1>4, <1>5 DEF QuietOwn

-----------------------------------------------------------------------------
(* Steps that move one task from one place to another.  Each proof says what *)
(* the step does to the places, then treats the task it moves and the others. *)

LEMMA OwnActivate ==
  ASSUME TypeInv, OwnInv, NEW th \in Threads, Activate(th)
  PROVE  OwnInv'
<1> DEFINE u == tgt[th]
<1> USE Sets
<1>1. u \in Tasks /\ global[u] = 0
  BY DEF TypeInv, TypeOK, Control, ControlOf, Activate
<1>2. /\ \A x \in Threads, t \in Tasks : Scheduling(x, t)' <=> Scheduling(x, t) \/ (x = th /\ t = u)
      /\ global' = [global EXCEPT ![u] = 1]
  BY DEF TypeInv, TypeOK, Activate, Scheduling, queues, waiters, ending, round, windows, history, Goto
<1>3. /\ \A x \in Threads, t \in Tasks : Runs(x, t)' <=> Runs(x, t)
      /\ \A w \in Workers, i \in Nat, t \in Tasks : InTaskq(w, i, t)' <=> InTaskq(w, i, t)
      /\ \A n \in Nets, i \in Nat, t \in Tasks : InDeferq(n, i, t)' <=> InDeferq(n, i, t)
  BY DEF Activate, Runs, InTaskq, InDeferq, queues, waiters, ending, round, windows, history, Goto
<1>4. global \in [Tasks -> {0, 1}]
  BY DEF TypeInv, TypeOK
<1> HIDE DEF u
<1> SUFFICES ASSUME NEW t \in Tasks PROVE OwnOf(t)'
  BY DEF OwnInv
<1>5. OwnOf(t)
  BY DEF OwnInv
<1>6. CASE t # u
  <2>1. Exclusive(t)'
    BY <1>2, <1>3, <1>5, <1>6 DEF OwnOf, Exclusive
  <2>2. global'[t] = 1 <=> Placed(t)'
    BY <1>1, <1>2, <1>3, <1>4, <1>5, <1>6 DEF OwnOf, Placed
  <2> QED  BY <2>1, <2>2 DEF OwnOf
<1>7. CASE t = u
  <2>1. ~Placed(t)
    BY <1>1, <1>5, <1>7 DEF OwnOf
  <2>2. Exclusive(t)'
    BY <2>1, <1>2, <1>3, <1>7 DEF Placed, Exclusive
  <2>3. global'[t] = 1 /\ Placed(t)'
    BY <1>1, <1>2, <1>4, <1>7 DEF Placed
  <2> QED  BY <2>2, <2>3 DEF OwnOf
<1> QED
  BY <1>6, <1>7

LEMMA OwnScheduleNet ==
  ASSUME TypeInv, OwnInv, NEW th \in Threads, ScheduleNet(th)
  PROVE  OwnInv'
<1> DEFINE u == tgt[th]
           b == evbind[u]
           top == Len(deferq[b]) + 1
<1> USE Sets
<1>1. u \in Tasks /\ b \in Nets /\ Scheduling(th, u) /\ deferq[b] \in Seq(Tasks) /\ top \in Nat
  BY DEF TypeInv, TypeOK, Control, ControlOf, ScheduleNet, Scheduling
<1>2. \A x \in Threads, t \in Tasks : Scheduling(x, t)' <=> Scheduling(x, t) /\ x # th
  <2>1. pc'[th] # "sched" /\ \A x \in Threads : x # th => pc'[x] = pc[x]
    BY Returning DEF TypeInv, TypeOK, ScheduleNet
  <2>2. \A x \in Threads : x # th => tgt'[x] = tgt[x]
    BY DEF TypeInv, TypeOK, ScheduleNet
  <2> QED  BY <2>1, <2>2 DEF Scheduling
<1>3. \A n \in Nets, i \in Nat, t \in Tasks :
        InDeferq(n, i, t)' <=> InDeferq(n, i, t) \/ (n = b /\ i = top /\ t = u)
  <2>1. deferq' = [deferq EXCEPT ![b] = Append(@, u)]
    BY DEF ScheduleNet
  <2>2. deferq \in [Nets -> Seq(Tasks)]
    BY DEF TypeInv, TypeOK
  <2>3. CASE TRUE
    <3>1. \A n \in Nets : n # b => deferq'[n] = deferq[n]
      BY <2>1, <2>2
    <3>2. deferq'[b] = Append(deferq[b], u)
      BY <1>1, <2>1, <2>2
    <3> DEFINE q == deferq[b]
    <3>3. q \in Seq(Tasks) /\ top = Len(q) + 1 /\ u \in Tasks
      BY <1>1
    <3> HIDE DEF u, b, top, q
    <3>4. /\ DOMAIN Append(q, u) = 1 .. top /\ DOMAIN q = 1 .. top - 1 /\ top \in Nat
          /\ Append(q, u)[top] = u /\ \A i \in 1 .. top - 1 : Append(q, u)[i] = q[i]
      BY <3>3
    <3>5. ASSUME NEW n \in Nets, n = b
          PROVE  \A i \in Nat, t \in Tasks :
                   InDeferq(n, i, t)' <=> InDeferq(n, i, t) \/ (i = top /\ t = u)
      <4>1. deferq[n] = q /\ deferq'[n] = Append(q, u)
        BY <3>2, <3>5 DEF q
      <4> QED  BY <4>1, <3>4 DEF InDeferq
    <3> QED  BY <3>1, <3>5 DEF InDeferq
  <2> QED  BY <2>3
<1>4. /\ \A x \in Threads, t \in Tasks : Runs(x, t)' <=> Runs(x, t)
      /\ \A w \in Workers, i \in Nat, t \in Tasks : InTaskq(w, i, t)' <=> InTaskq(w, i, t)
      /\ global' = global
  BY DEF ScheduleNet, Runs, InTaskq, queues, waiters, ending, round, windows, history, Goto
<1> HIDE DEF u, b, top
<1> SUFFICES ASSUME NEW t \in Tasks PROVE OwnOf(t)'
  BY DEF OwnInv
<1>5. OwnOf(t) /\ (Scheduling(th, t) => t = u)
  BY DEF OwnInv, Scheduling, u
<1>6. CASE t # u
  <2>1. \A x \in Threads : Scheduling(x, t)' <=> Scheduling(x, t)
    BY <1>2, <1>5, <1>6
  <2>2. Exclusive(t)'
    BY <2>1, <1>3, <1>4, <1>5, <1>6 DEF OwnOf, Exclusive
  <2>3. global'[t] = 1 <=> Placed(t)'
    BY <2>1, <1>3, <1>4, <1>5, <1>6 DEF OwnOf, Placed
  <2> QED  BY <2>2, <2>3 DEF OwnOf
<1>7. CASE t = u
  <2>1. /\ \A x \in Threads : ~Runs(x, t)
        /\ \A x \in Threads : Scheduling(x, t) => x = th
        /\ \A w \in Workers, i \in Nat : ~InTaskq(w, i, t)
        /\ \A n \in Nets, i \in Nat : ~InDeferq(n, i, t)
    BY <1>1, <1>5, <1>7 DEF OwnOf, Exclusive
  <2>2. global[t] = 1
    BY <1>1, <1>5, <1>7 DEF OwnOf, Placed
  <2>3. Exclusive(t)'
    BY <2>1, <1>2, <1>3, <1>4, <1>7 DEF Exclusive
  <2>4. global'[t] = 1 /\ Placed(t)'
    BY <1>1, <2>2, <1>3, <1>4, <1>7 DEF Placed
  <2> QED  BY <2>3, <2>4 DEF OwnOf
<1> QED
  BY <1>6, <1>7

LEMMA OwnScheduleWorker ==
  ASSUME TypeInv, OwnInv, NEW th \in Threads, NEW v \in Workers, ScheduleWorker(th, v)
  PROVE  OwnInv'
<1> DEFINE u == tgt[th]
           cell == [task |-> u, by |-> th, ready |-> FALSE]
           top == Len(taskq[v]) + 1
<1> USE Sets
<1>1. u \in Tasks /\ Scheduling(th, u) /\ taskq[v] \in Seq(TaskCell) /\ top \in Nat
  BY DEF TypeInv, TypeOK, Control, ControlOf, ScheduleWorker, Scheduling
<1>2. \A x \in Threads, t \in Tasks : Scheduling(x, t)' <=> Scheduling(x, t) /\ x # th
  BY DEF TypeInv, TypeOK, ScheduleWorker, Scheduling, Goto
<1>3. \A n \in Workers, i \in Nat, t \in Tasks :
        InTaskq(n, i, t)' <=> InTaskq(n, i, t) \/ (n = v /\ i = top /\ t = u)
  <2>1. taskq' = [taskq EXCEPT ![v] = Append(@, cell)]
    BY DEF ScheduleWorker
  <2>2. taskq \in [Workers -> Seq(TaskCell)]
    BY DEF TypeInv, TypeOK
  <2>3. \A n \in Workers : n # v => taskq'[n] = taskq[n]
    BY <2>1, <2>2
  <2>4. taskq'[v] = Append(taskq[v], cell)
    BY <2>1, <2>2
  <2>5. cell.task = u /\ cell \in TaskCell
    BY <1>1 DEF TaskCell
  <2> HIDE DEF cell
  <2>6. /\ DOMAIN taskq'[v] = 1 .. top /\ DOMAIN taskq[v] = 1 .. top - 1
        /\ taskq'[v][top] = cell
        /\ \A i \in 1 .. top - 1 : taskq'[v][i] = taskq[v][i]
    BY <1>1, <2>4, <2>5
  <2>7. \A i \in Nat, t \in Tasks :
          InTaskq(v, i, t)' <=> InTaskq(v, i, t) \/ (i = top /\ t = u)
    <3> TAKE i \in Nat, t \in Tasks
    <3>1. top \in Nat \ {0} BY <1>1
    <3> HIDE DEF top
    <3>2. CASE i = top
      <4>1. i \in DOMAIN taskq'[v] /\ i \notin DOMAIN taskq[v] BY <2>6, <3>1, <3>2
      <4>2. taskq'[v][i].task = u BY <2>5, <2>6, <3>2
      <4> QED BY <3>2, <4>1, <4>2 DEF InTaskq
    <3>3. CASE i \in 1 .. top - 1
      <4>1. taskq'[v][i] = taskq[v][i] /\ i \in DOMAIN taskq'[v] /\ i \in DOMAIN taskq[v] /\ i # top
        BY <2>6, <3>1, <3>3
      <4> QED BY <4>1 DEF InTaskq
    <3>4. CASE i # top /\ i \notin 1 .. top - 1
      <4>1. i \notin 1 .. top BY <3>1, <3>4
      <4> QED BY <2>6, <3>4, <4>1 DEF InTaskq
    <3> QED BY <3>2, <3>3, <3>4
  <2> QED  BY <2>3, <2>7 DEF InTaskq
<1>4. /\ \A x \in Threads, t \in Tasks : Runs(x, t)' <=> Runs(x, t)
      /\ \A n \in Nets, i \in Nat, t \in Tasks : InDeferq(n, i, t)' <=> InDeferq(n, i, t)
      /\ global' = global
  BY DEF ScheduleWorker, Runs, InDeferq, queues, waiters, ending, round, windows, history, Goto
<1> HIDE DEF u, top
<1> SUFFICES ASSUME NEW t \in Tasks PROVE OwnOf(t)'
  BY DEF OwnInv
<1>5. OwnOf(t) /\ (Scheduling(th, t) => t = u)
  BY DEF OwnInv, Scheduling, u
<1>6. CASE t # u
  <2>1. \A x \in Threads : Scheduling(x, t)' <=> Scheduling(x, t)
    BY <1>2, <1>5, <1>6
  <2>2. Exclusive(t)'
    BY <2>1, <1>3, <1>4, <1>5, <1>6 DEF OwnOf, Exclusive
  <2>3. global'[t] = 1 <=> Placed(t)'
    BY <2>1, <1>3, <1>4, <1>5, <1>6 DEF OwnOf, Placed
  <2> QED  BY <2>2, <2>3 DEF OwnOf
<1>7. CASE t = u
  <2>1. /\ \A x \in Threads : ~Runs(x, t)
        /\ \A x \in Threads : Scheduling(x, t) => x = th
        /\ \A w \in Workers, i \in Nat : ~InTaskq(w, i, t)
        /\ \A n \in Nets, i \in Nat : ~InDeferq(n, i, t)
    BY <1>1, <1>5, <1>7 DEF OwnOf, Exclusive
  <2>2. global[t] = 1
    BY <1>1, <1>5, <1>7 DEF OwnOf, Placed
  <2>3. Exclusive(t)'
    BY <2>1, <1>2, <1>3, <1>4, <1>7 DEF Exclusive
  <2>4. global'[t] = 1 /\ Placed(t)'
    BY <1>1, <2>2, <1>3, <1>4, <1>7 DEF Placed
  <2> QED  BY <2>3, <2>4 DEF OwnOf
<1> QED
  BY <1>6, <1>7

LEMMA OwnTake ==
  ASSUME TypeInv, OwnInv, NEW w \in Workers, NEW v \in Workers, TakeFrom(w, v),
         cur[w] = None, pc[w] # "sched"
  PROVE  OwnInv'
<1> DEFINE u == Head(taskq[v]).task
<1> USE Sets
<1>1. taskq[v] \in Seq(TaskCell) /\ taskq[v] # <<>> /\ u \in Tasks /\ InTaskq(v, 1, u)
  <2>1. taskq[v] \in Seq(TaskCell) /\ taskq[v] # <<>>
    BY DEF TypeInv, TypeOK, TakeFrom, CanTake
  <2>2. taskq[v][1] \in TaskCell /\ 1 \in DOMAIN taskq[v] /\ Head(taskq[v]) = taskq[v][1]
    BY <2>1
  <2> QED  BY <2>1, <2>2 DEF InTaskq, TaskCell
<1>2. \A x \in Threads, t \in Tasks : Runs(x, t)' <=> Runs(x, t) \/ (x = w /\ t = u)
  BY <1>1 DEF TypeInv, TypeOK, TakeFrom, Runs
<1>3. \A n \in Workers, i \in Nat, t \in Tasks :
        InTaskq(n, i, t)' <=> IF n = v THEN i # 0 /\ InTaskq(v, i + 1, t) ELSE InTaskq(n, i, t)
  <2>1. taskq' = [taskq EXCEPT ![v] = Tail(@)]
    BY DEF TakeFrom
  <2>2. taskq \in [Workers -> Seq(TaskCell)]
    BY DEF TypeInv, TypeOK
  <2>3. \A n \in Workers : n # v => taskq'[n] = taskq[n]
    BY <2>1, <2>2
  <2>4. taskq'[v] = Tail(taskq[v])
    BY <2>1, <2>2
  <2>5. /\ DOMAIN taskq'[v] = 1 .. Len(taskq[v]) - 1 /\ DOMAIN taskq[v] = 1 .. Len(taskq[v])
        /\ \A i \in 1 .. Len(taskq[v]) - 1 : taskq'[v][i] = taskq[v][i + 1]
        /\ Len(taskq[v]) \in Nat
    BY <1>1, <2>4
  <2>6. \A i \in Nat, t \in Tasks : InTaskq(v, i, t)' <=> i # 0 /\ InTaskq(v, i + 1, t)
    BY <2>5 DEF InTaskq
  <2> QED  BY <2>3, <2>6 DEF InTaskq
<1>4. /\ \A x \in Threads, t \in Tasks : Scheduling(x, t)' <=> Scheduling(x, t)
      /\ \A n \in Nets, i \in Nat, t \in Tasks : InDeferq(n, i, t)' <=> InDeferq(n, i, t)
      /\ global' = global
  <2>1. \A x \in Threads : pc'[x] = "sched" <=> pc[x] = "sched"
    BY DEF TypeInv, TypeOK, TakeFrom, Goto
  <2> QED  BY <2>1 DEF TakeFrom, Scheduling, InDeferq, queues, waiters, ending, round, windows, history, Goto
<1> HIDE DEF u
<1> SUFFICES ASSUME NEW t \in Tasks PROVE OwnOf(t)'
  BY DEF OwnInv
<1>5. OwnOf(t)
  BY DEF OwnInv
<1>6. CASE t # u
  <2>1. ~InTaskq(v, 1, t)
    BY <1>1, <1>6 DEF InTaskq
  <2>2. Exclusive(t)'
    <3>1. Exclusive(t)
      BY <1>5 DEF OwnOf
    <3>2. \A x \in Threads : Runs(x, t)' <=> Runs(x, t)
      BY <1>2, <1>6
    <3>3. \A n \in Workers, i \in Nat : InTaskq(n, i, t)' =>
            InTaskq(n, IF n = v THEN i + 1 ELSE i, t)
      BY <1>3
    <3>4. ASSUME NEW n \in Workers, NEW m \in Workers, NEW i \in Nat, NEW j \in Nat,
                 InTaskq(n, i, t)', InTaskq(m, j, t)'
          PROVE  n = m /\ i = j
      <4> DEFINE ii == IF n = v THEN i + 1 ELSE i
                 jj == IF m = v THEN j + 1 ELSE j
      <4>1. ii \in Nat /\ jj \in Nat /\ InTaskq(n, ii, t) /\ InTaskq(m, jj, t)
        BY <3>3, <3>4
      <4> HIDE DEF ii, jj
      <4>2. n = m /\ ii = jj
        BY <3>1, <4>1 DEF Exclusive
      <4> QED  BY <4>2 DEF ii, jj
    <3> QED  BY <3>1, <3>2, <3>3, <3>4, <1>4 DEF Exclusive
  <2>3. global'[t] = 1 <=> Placed(t)'
    <3>1. ASSUME NEW i \in Nat, InTaskq(v, i, t)
          PROVE  \E j \in Nat : InTaskq(v, j, t)'
      <4> DEFINE j == i - 1
      <4>1. i # 0 /\ i # 1
        BY <1>1, <2>1, <3>1 DEF InTaskq
      <4>2. j \in Nat /\ j # 0 /\ j + 1 = i
        BY <4>1
      <4> HIDE DEF j
      <4>3. InTaskq(v, j + 1, t)
        BY <3>1, <4>2
      <4> QED  BY <1>3, <4>2, <4>3
    <3>2. (\E n \in Workers, i \in Nat : InTaskq(n, i, t)') <=> (\E n \in Workers, i \in Nat : InTaskq(n, i, t))
      BY <1>3, <3>1
    <3> QED  BY <3>2, <1>2, <1>4, <1>5, <1>6 DEF OwnOf, Placed
  <2> QED  BY <2>2, <2>3 DEF OwnOf
<1>7. CASE t = u
  <2>1. /\ \A x \in Threads : ~Runs(x, t) /\ ~Scheduling(x, t)
        /\ \A n \in Workers, i \in Nat : InTaskq(n, i, t) => n = v /\ i = 1
        /\ \A n \in Nets, i \in Nat : ~InDeferq(n, i, t)
    BY <1>1, <1>5, <1>7 DEF OwnOf, Exclusive
  <2>2. global[t] = 1
    BY <1>1, <1>5, <1>7 DEF OwnOf, Placed
  <2>3. \A n \in Workers, i \in Nat : ~InTaskq(n, i, t)'
    BY <2>1, <1>3
  <2>4. Exclusive(t)'
    BY <2>1, <2>3, <1>2, <1>4, <1>7 DEF Exclusive
  <2>5. global'[t] = 1 /\ Placed(t)'
    BY <2>2, <1>2, <1>4, <1>7 DEF Placed
  <2> QED  BY <2>4, <2>5 DEF OwnOf
<1> QED
  BY <1>6, <1>7

LEMMA OwnDeferTake ==
  ASSUME TypeInv, OwnInv, NEW n \in Nets, DeferTake(n), cur[n] = None
  PROVE  OwnInv'
<1> DEFINE u == Head(deferq[n])
<1> USE Sets
<1>1. deferq[n] \in Seq(Tasks) /\ deferq[n] # <<>> /\ u \in Tasks /\ InDeferq(n, 1, u)
  BY DEF TypeInv, TypeOK, DeferTake, InDeferq
<1>2. \A x \in Threads, t \in Tasks : Runs(x, t)' <=> Runs(x, t) \/ (x = n /\ t = u)
  BY <1>1 DEF TypeInv, TypeOK, DeferTake, Runs
<1>3. \A m \in Nets, i \in Nat, t \in Tasks :
        InDeferq(m, i, t)' <=> IF m = n THEN i # 0 /\ InDeferq(n, i + 1, t) ELSE InDeferq(m, i, t)
  <2>1. deferq' = [deferq EXCEPT ![n] = Tail(@)]
    BY DEF DeferTake
  <2>2. deferq \in [Nets -> Seq(Tasks)]
    BY DEF TypeInv, TypeOK
  <2>3. \A m \in Nets : m # n => deferq'[m] = deferq[m]
    BY <2>1, <2>2
  <2>4. deferq'[n] = Tail(deferq[n])
    BY <2>1, <2>2
  <2>5. /\ DOMAIN deferq'[n] = 1 .. Len(deferq[n]) - 1 /\ DOMAIN deferq[n] = 1 .. Len(deferq[n])
        /\ \A i \in 1 .. Len(deferq[n]) - 1 : deferq'[n][i] = deferq[n][i + 1]
        /\ Len(deferq[n]) \in Nat
    BY <1>1, <2>4
  <2>6. \A i \in Nat, t \in Tasks : InDeferq(n, i, t)' <=> i # 0 /\ InDeferq(n, i + 1, t)
    BY <2>5 DEF InDeferq
  <2> QED  BY <2>3, <2>6 DEF InDeferq
<1>4. /\ \A x \in Threads, t \in Tasks : Scheduling(x, t)' <=> Scheduling(x, t)
      /\ \A m \in Workers, i \in Nat, t \in Tasks : InTaskq(m, i, t)' <=> InTaskq(m, i, t)
      /\ global' = global
  BY DEF TypeInv, TypeOK, DeferTake, Scheduling, InTaskq, queues, waiters, ending, round, windows, history, Goto
<1> HIDE DEF u
<1> SUFFICES ASSUME NEW t \in Tasks PROVE OwnOf(t)'
  BY DEF OwnInv
<1>5. OwnOf(t)
  BY DEF OwnInv
<1>6. CASE t # u
  <2>1. ~InDeferq(n, 1, t)
    BY <1>1, <1>6 DEF InDeferq
  <2>2. Exclusive(t)'
    <3>1. Exclusive(t)
      BY <1>5 DEF OwnOf
    <3>2. \A x \in Threads : Runs(x, t)' <=> Runs(x, t)
      BY <1>2, <1>6
    <3>3. \A m \in Nets, i \in Nat : InDeferq(m, i, t)' =>
            InDeferq(m, IF m = n THEN i + 1 ELSE i, t)
      BY <1>3
    <3>4. ASSUME NEW m \in Nets, NEW k \in Nets, NEW i \in Nat, NEW j \in Nat,
                 InDeferq(m, i, t)', InDeferq(k, j, t)'
          PROVE  m = k /\ i = j
      <4> DEFINE ii == IF m = n THEN i + 1 ELSE i
                 jj == IF k = n THEN j + 1 ELSE j
      <4>1. ii \in Nat /\ jj \in Nat /\ InDeferq(m, ii, t) /\ InDeferq(k, jj, t)
        BY <3>3, <3>4
      <4> HIDE DEF ii, jj
      <4>2. m = k /\ ii = jj
        BY <3>1, <4>1 DEF Exclusive
      <4> QED  BY <4>2 DEF ii, jj
    <3>5. \A m \in Nets, i \in Nat : InDeferq(m, i, t)' => \E j \in Nat : InDeferq(m, j, t)
      BY <3>3
    <3> QED  BY <3>1, <3>2, <3>4, <3>5, <1>4 DEF Exclusive
  <2>3. global'[t] = 1 <=> Placed(t)'
    <3>1. ASSUME NEW i \in Nat, InDeferq(n, i, t)
          PROVE  \E j \in Nat : InDeferq(n, j, t)'
      <4> DEFINE j == i - 1
      <4>1. i # 0 /\ i # 1
        BY <1>1, <2>1, <3>1 DEF InDeferq
      <4>2. j \in Nat /\ j # 0 /\ j + 1 = i
        BY <4>1
      <4> HIDE DEF j
      <4>3. InDeferq(n, j + 1, t)
        BY <3>1, <4>2
      <4> QED  BY <1>3, <4>2, <4>3
    <3>2. (\E m \in Nets, i \in Nat : InDeferq(m, i, t)') <=> (\E m \in Nets, i \in Nat : InDeferq(m, i, t))
      BY <1>3, <3>1
    <3> QED  BY <3>2, <1>2, <1>4, <1>5, <1>6 DEF OwnOf, Placed
  <2> QED  BY <2>2, <2>3 DEF OwnOf
<1>7. CASE t = u
  <2>1. /\ \A x \in Threads : ~Runs(x, t) /\ ~Scheduling(x, t)
        /\ \A m \in Workers, i \in Nat : ~InTaskq(m, i, t)
        /\ \A m \in Nets, i \in Nat : InDeferq(m, i, t) => m = n /\ i = 1
    BY <1>1, <1>5, <1>7 DEF OwnOf, Exclusive
  <2>2. global[t] = 1
    BY <1>1, <1>5, <1>7 DEF OwnOf, Placed
  <2>3. ASSUME NEW m \in Nets, NEW i \in Nat PROVE ~InDeferq(m, i, t)'
    <3>1. CASE m = n
      <4>1. i + 1 \in Nat /\ (i # 0 => i + 1 # 1)
        OBVIOUS
      <4> QED  BY <2>1, <1>3, <3>1, <4>1
    <3>2. CASE m # n
      BY <2>1, <1>3, <3>2
    <3> QED  BY <3>1, <3>2
  <2>4. Exclusive(t)'
    BY <2>1, <2>3, <1>2, <1>4, <1>7 DEF Exclusive
  <2>5. global'[t] = 1 /\ Placed(t)'
    BY <2>2, <1>2, <1>4, <1>7 DEF Placed
  <2> QED  BY <2>4, <2>5 DEF OwnOf
<1> QED
  BY <1>6, <1>7

LEMMA OwnInline ==
  ASSUME TypeInv, OwnInv, NEW n \in Nets, EmitInline(n)
  PROVE  OwnInv'
<1> DEFINE u == tgt[n]
<1> USE Sets
<1>1. u \in Tasks /\ global[u] = 0 /\ cur[n] = None
  BY DEF TypeInv, TypeOK, Control, ControlOf, EmitInline, HasTask, Posting
<1>2. \A x \in Threads, t \in Tasks : Runs(x, t)' <=> Runs(x, t) \/ (x = n /\ t = u)
  BY <1>1 DEF TypeInv, TypeOK, EmitInline, Runs
<1>3. /\ \A x \in Threads, t \in Tasks : Scheduling(x, t)' <=> Scheduling(x, t)
      /\ global' = [global EXCEPT ![u] = 1]
  BY DEF TypeInv, TypeOK, EmitInline, Scheduling, Goto
<1>4. /\ \A w \in Workers, i \in Nat, t \in Tasks : InTaskq(w, i, t)' <=> InTaskq(w, i, t)
      /\ \A m \in Nets, i \in Nat, t \in Tasks : InDeferq(m, i, t)' <=> InDeferq(m, i, t)
  BY DEF EmitInline, InTaskq, InDeferq
<1>5. global \in [Tasks -> {0, 1}]
  BY DEF TypeInv, TypeOK
<1> HIDE DEF u
<1> SUFFICES ASSUME NEW t \in Tasks PROVE OwnOf(t)'
  BY DEF OwnInv
<1>6. OwnOf(t)
  BY DEF OwnInv
<1>7. CASE t # u
  <2>1. Exclusive(t)'
    BY <1>2, <1>3, <1>4, <1>6, <1>7 DEF OwnOf, Exclusive
  <2>2. global'[t] = 1 <=> Placed(t)'
    BY <1>1, <1>2, <1>3, <1>4, <1>5, <1>6, <1>7 DEF OwnOf, Placed
  <2> QED  BY <2>1, <2>2 DEF OwnOf
<1>8. CASE t = u
  <2>1. ~Placed(t)
    BY <1>1, <1>6, <1>8 DEF OwnOf
  <2>2. Exclusive(t)'
    BY <2>1, <1>2, <1>3, <1>4, <1>8 DEF Placed, Exclusive
  <2>3. global'[t] = 1 /\ Placed(t)'
    BY <1>1, <1>2, <1>3, <1>5, <1>8 DEF Placed
  <2> QED  BY <2>2, <2>3 DEF OwnOf
<1> QED
  BY <1>7, <1>8

LEMMA OwnRelease ==
  ASSUME TypeInv, OwnInv, NEW th \in Threads, Release(th)
  PROVE  OwnInv'
<1> DEFINE u == cur[th]
<1> USE Sets
<1>1. u \in Tasks /\ Runs(th, u)
  BY DEF TypeInv, TypeOK, Control, ControlOf, Release, Running, HasTask, Runs
<1>2. \A x \in Threads, t \in Tasks : Runs(x, t)' <=> Runs(x, t) /\ x # th
  BY <1>1 DEF TypeInv, TypeOK, Release, Runs
<1>3. /\ \A x \in Threads, t \in Tasks : Scheduling(x, t)' <=> Scheduling(x, t)
      /\ global' = [global EXCEPT ![u] = 0]
  BY DEF TypeInv, TypeOK, Release, Running, Scheduling, Goto
<1>4. /\ \A w \in Workers, i \in Nat, t \in Tasks : InTaskq(w, i, t)' <=> InTaskq(w, i, t)
      /\ \A m \in Nets, i \in Nat, t \in Tasks : InDeferq(m, i, t)' <=> InDeferq(m, i, t)
  BY DEF Release, InTaskq, InDeferq
<1>5. global \in [Tasks -> {0, 1}] /\ \A t \in Tasks : Runs(th, t) => t = u
  BY DEF TypeInv, TypeOK, Runs
<1> HIDE DEF u
<1> SUFFICES ASSUME NEW t \in Tasks PROVE OwnOf(t)'
  BY DEF OwnInv
<1>6. OwnOf(t)
  BY DEF OwnInv
<1>7. CASE t # u
  <2>0. \A x \in Threads : Runs(x, t)' <=> Runs(x, t)
    BY <1>2, <1>5, <1>7
  <2>1. Exclusive(t)'
    BY <2>0, <1>3, <1>4, <1>6, <1>7 DEF OwnOf, Exclusive
  <2>2. global'[t] = 1 <=> Placed(t)'
    BY <2>0, <1>1, <1>3, <1>4, <1>5, <1>6, <1>7 DEF OwnOf, Placed
  <2> QED  BY <2>1, <2>2 DEF OwnOf
<1>8. CASE t = u
  <2>1. /\ \A x \in Threads : (Runs(x, t) => x = th) /\ ~Scheduling(x, t)
        /\ \A w \in Workers, i \in Nat : ~InTaskq(w, i, t)
        /\ \A m \in Nets, i \in Nat : ~InDeferq(m, i, t)
    BY <1>1, <1>6, <1>8 DEF OwnOf, Exclusive
  <2>2. ~Placed(t)'
    BY <2>1, <1>2, <1>3, <1>4 DEF Placed
  <2>3. Exclusive(t)'
    BY <2>2 DEF Placed, Exclusive
  <2>4. global'[t] = 0
    BY <1>1, <1>3, <1>5, <1>8
  <2> QED  BY <2>2, <2>3, <2>4 DEF OwnOf
<1> QED
  BY <1>7, <1>8

-----------------------------------------------------------------------------

LEMMA OwnInit ==
  ASSUME Init
  PROVE  OwnInv
<1>1. \A x \in Threads, t \in Tasks : ~Runs(x, t) /\ ~Scheduling(x, t)
  BY Sets DEF Init, Runs, Scheduling
<1>2. /\ \A w \in Workers, i \in Nat, t \in Tasks : ~InTaskq(w, i, t)
      /\ \A n \in Nets, i \in Nat, t \in Tasks : ~InDeferq(n, i, t)
  <2>1. taskq = [w \in Workers |-> <<>>] /\ deferq = [n \in Nets |-> <<>>]
    BY DEF Init
  <2> QED  BY <2>1 DEF InTaskq, InDeferq
<1>3. \A t \in Tasks : global[t] # 1
  <2>1. global = [t \in Tasks |-> 0]
    BY DEF Init
  <2>2. 0 # 1
    OBVIOUS
  <2> QED  BY <2>1, <2>2
<1>4. ASSUME NEW t \in Tasks PROVE Exclusive(t) /\ ~Placed(t)
  BY <1>1, <1>2 DEF Exclusive, Placed
<1> QED
  BY <1>3, <1>4 DEF OwnInv, OwnOf

LEMMA OwnNext ==
  ASSUME TypeInv, OwnInv, [Next]_vars
  PROVE  OwnInv'
<1> USE Sets
<1> SUFFICES ASSUME ~QuietOwn PROVE OwnInv'
  BY OwnFrame
<1>1. ASSUME NEW th \in Threads, Post(th) PROVE OwnInv'
  BY <1>1, QuietPost, OwnActivate, OwnScheduleNet, OwnScheduleWorker
<1>2. ASSUME NEW th \in Threads, RunTask(th) PROVE OwnInv'
  BY <1>2, QuietRun, OwnRelease
<1>3. ASSUME NEW w \in Workers, WorkerLoop(w) \/ SpuriousWake(w) PROVE OwnInv'
  <2>1. pc[w] \in {"idle", "steal", "retry"} => cur[w] = None
    BY DEF TypeInv, Control, ControlOf, HasTask, Posting
  <2>2. TakeOwn(w) => TakeFrom(w, w) /\ cur[w] = None /\ pc[w] # "sched"
    BY <2>1 DEF TakeOwn
  <2>3. \A v \in Workers : Steal(w, v) => TakeFrom(w, v) /\ cur[w] = None /\ pc[w] # "sched"
    BY <2>1 DEF Steal
  <2> QED
    BY <1>3, <2>2, <2>3, QuietWorker, OwnTake
<1>4. ASSUME NEW n \in Nets, NetLoop(n) \/ NetMay(n) PROVE OwnInv'
  <2>1. DeferTake(n) => cur[n] = None
    BY DEF TypeInv, Control, ControlOf, HasTask, Posting, DeferTake
  <2> QED
    BY <1>4, <2>1, QuietNet, OwnDeferTake, OwnInline
<1>5. CASE \/ \E t \in Tasks, b \in Nets \cup {None} : Rebind(t, b)
           \/ LoaderStop
           \/ \E w \in Workers : WakeupAll(w) \/ WakeupSkip(w)
           \/ Joined
  BY <1>5, QuietMain
<1>6. CASE vars' = vars
  BY <1>6 DEF vars, QuietOwn, Scheduling, InTaskq, queues, waiters, ending, round, windows, history
<1> QED
  BY <1>1, <1>2, <1>3, <1>4, <1>5, <1>6 DEF Next

\* Ownership is an invariant: a task is in one place while global is 1 and
\* nowhere while it is 0 (loader.c:148-165, 229-245, 316-345).
THEOREM Ownership == Spec => [](TypeInv /\ OwnInv)
<1>1. Init => TypeInv /\ OwnInv
  BY TypeInit, OwnInit
<1>2. TypeInv /\ OwnInv /\ [Next]_vars => TypeInv' /\ OwnInv'
  BY TypeNext, OwnNext
<1> QED
  BY <1>1, <1>2, PTL DEF Spec

\* No two threads run one task, however it was scheduled, stolen, deferred or
\* dispatched inline (loader.c:287).
THEOREM OneRunnerCorrect == Spec => []OneRunner
<1>1. TypeInv /\ OwnInv => OneRunner
  BY Sets DEF TypeInv, TypeOK, OwnInv, OwnOf, Exclusive, Runs, OneRunner
<1> QED
  BY <1>1, Ownership, PTL

\* A task whose flag is set is being run, being scheduled or in a run queue, so
\* a thread that finds the flag set may leave the task alone (loader.c:159-165).
THEOREM GlobalHeldCorrect == Spec => []GlobalHeld
<1>1. TypeInv /\ OwnInv => GlobalHeld
  BY DEF OwnInv, OwnOf, Placed, Runs, InTaskq, InDeferq, GlobalHeld
<1> QED
  BY <1>1, Ownership, PTL

-----------------------------------------------------------------------------
(* No wake-up is lost. *)

\* What a thread publishes under a window is for the window's task, which the end of
\* the window activates.
InWindow == \A n \in Nets : pc[n] = "epub" => tgt[n] = Target(n)

MsgInv == TypeInv /\ NoLostMessage /\ InWindow

\* t depends on somebody to look at it.
Needs(t) == qumsg[t] # <<>> /\ global[t] = 0

\* A step after which t needs somebody has left all of those it had, or brought one.
Covered(t) ==
  Needs(t)' => \/ \E th \in Threads : WillActivate(th, t)'
               \/ Needs(t) /\ \A th \in Threads : WillActivate(th, t) => WillActivate(th, t)'

\* Then no message is lost.
LEMMA CoveredStep ==
  ASSUME NoLostMessage, \A t \in Tasks : Covered(t)
  PROVE  NoLostMessage'
BY DEF NoLostMessage, Covered, Needs

\* The target of a window is one of its tasks.
LEMMA TargetIn ==
  ASSUME TypeInv, NEW n \in Nets, win[n] # <<>>
  PROVE  /\ Len(win[n]) \in DOMAIN win[n] /\ Len(win[n]) \in Nat
         /\ win[n] \in Seq(Tasks) /\ Target(n) \in Tasks
BY DEF TypeInv, TypeOK, Target

\* A thread that was not about to look at t, and opens or closes no window, takes
\* nobody away from t.
LEMMA Stepped ==
  ASSUME NEW th \in Threads, NEW t \in Tasks,
         \A x \in Threads : x # th => pc'[x] = pc[x] /\ tgt'[x] = tgt[x],
         UNCHANGED windows, pc[th] \in {"pub", "cas", "relchk", "epub"} => tgt[th] # t
  PROVE  \A x \in Threads : WillActivate(x, t) => WillActivate(x, t)'
BY DEF WillActivate, windows

\* A step of a thread that was not about to look at any task, and that leaves the
\* messages, the flags and the windows alone.
Aside(th) ==
  /\ \A x \in Threads : x # th => pc'[x] = pc[x] /\ tgt'[x] = tgt[x]
  /\ pc[th] \notin {"pub", "cas", "relchk", "epub"}
  /\ UNCHANGED <<qumsg, global, windows>>

LEMMA AsideCovers ==
  ASSUME NEW th \in Threads, NEW t \in Tasks, Aside(th)
  PROVE  Covered(t)
<1>1. \A x \in Threads : WillActivate(x, t) => WillActivate(x, t)'
  BY Stepped DEF Aside
<1>2. Needs(t)' => Needs(t)
  BY DEF Aside, Needs
<1> QED
  BY <1>1, <1>2 DEF Covered

-----------------------------------------------------------------------------
(* Posting *)

LEMMA PostCovers ==
  ASSUME TypeInv, NEW th \in Threads, Post(th), NEW t \in Tasks
  PROVE  Covered(t)
<1> TypeOK /\ Control
  BY DEF TypeInv
<1> USE Sets DEF TypeOK, queues, waiters, ending, round, windows, history, Covered, Needs, WillActivate, Goto
<1>1. ASSUME NEW u \in Tasks, PostClaim(th, u) PROVE Covered(t)
  BY <1>1 DEF PostClaim, ClaimMessage
<1>2. CASE PostPublish(th)
  <2>1. tgt[th] \in Tasks /\ qumsg[tgt[th]] \in Seq(MsgCell)
    BY <1>2 DEF PostPublish, Control, ControlOf
  <2>2. Publish(qumsg[tgt[th]], th) # <<>> => qumsg[tgt[th]] # <<>>
    BY DEF Publish
  <2> QED BY <1>2, <2>1, <2>2 DEF PostPublish
<1>3. CASE Activate(th)
  BY <1>3 DEF Activate
<1>4. CASE AlreadyActive(th)
  <2>1. CASE t = tgt[th] BY <2>1, <1>4 DEF AlreadyActive
  <2>2. CASE t # tgt[th]
    <3>1. \A x \in Threads : x # th => pc'[x] = pc[x] /\ tgt'[x] = tgt[x]
      BY <1>4, Returning DEF AlreadyActive
    <3>2. UNCHANGED <<qumsg, global, windows>> BY <1>4 DEF AlreadyActive
    <3> QED BY <3>1, <3>2, <2>2, Stepped
  <2> QED BY <2>1, <2>2
<1>5. CASE ScheduleNet(th)
  <2>1. Aside(th) BY <1>5, Returning DEF ScheduleNet, Aside
  <2> QED BY <2>1, AsideCovers
<1>6. ASSUME NEW w \in Workers, ScheduleWorker(th, w) PROVE Covered(t)
  BY <1>6 DEF ScheduleWorker
<1>7. CASE TaskqPublish(th)
  BY <1>7 DEF TaskqPublish
<1>8. CASE MarkWaking(th)
  BY <1>8 DEF MarkWaking
<1>9. CASE NoWakeNeeded(th)
  BY <1>9, Returning DEF NoWakeNeeded
<1>10. CASE WakeEpoch(th)
  BY <1>10 DEF WakeEpoch
<1>11. CASE FutexWake(th)
  BY <1>11 DEF FutexWake
<1> QED
  BY <1>1, <1>2, <1>3, <1>4, <1>5, <1>6, <1>7, <1>8, <1>9, <1>10, <1>11 DEF Post

-----------------------------------------------------------------------------
(* Running *)

LEMMA RunCovers ==
  ASSUME TypeInv, NEW th \in Threads, RunTask(th), NEW t \in Tasks
  PROVE  Covered(t)
<1> TypeOK /\ Control
  BY DEF TypeInv
<1> USE Sets DEF TypeOK, queues, waiters, ending, round, windows, history, Covered, Needs, WillActivate, Goto
<1>1. CASE RunSize(th)
  BY <1>1 DEF RunSize
<1>2. CASE RunPop(th)
  <2>1. cur[th] \in Tasks /\ qumsg[cur[th]] \in Seq(MsgCell)
    BY <1>2 DEF RunPop, Running, Control, ControlOf, HasTask
  <2>2. ASSUME NEW k \in 0 .. MsgBatch PROVE Drop(qumsg[cur[th]], k) # <<>> => qumsg[cur[th]] # <<>>
    BY <2>1 DEF Drop
  <2>3. /\ \E k \in 0 .. MsgBatch : qumsg' = [qumsg EXCEPT ![cur[th]] = Drop(@, k)]
        /\ pc[th] \in {"run", "hand"} /\ pc' = [pc EXCEPT ![th] = "run"]
        /\ UNCHANGED <<global, tgt, windows>>
    BY <1>2 DEF RunPop, Running
  <2>4. qumsg'[t] # <<>> => qumsg[t] # <<>>
    <3>1. CASE t = cur[th] BY <2>1, <2>2, <2>3, <3>1
    <3>2. CASE t # cur[th] BY <2>1, <2>3, <3>2
    <3> QED BY <3>1, <3>2
  <2>5. \A x \in Threads : WillActivate(x, t) => WillActivate(x, t)' BY <2>3, Stepped
  <2> QED BY <2>3, <2>4, <2>5
<1>3. CASE Dispatch(th)
  BY <1>3 DEF Dispatch, Running
<1>4. CASE Release(th)
  <2>1. /\ cur[th] \in Tasks /\ pc[th] \in {"run", "hand"} /\ UNCHANGED <<qumsg, windows>>
        /\ global' = [global EXCEPT ![cur[th]] = 0]
        /\ pc' = [pc EXCEPT ![th] = "relchk"] /\ tgt' = [tgt EXCEPT ![th] = cur[th]]
    BY <1>4 DEF Release, Running, Control, ControlOf, HasTask
  <2>2. CASE t = cur[th] BY <2>1, <2>2
  <2>3. CASE t # cur[th]
    <3>1. \A x \in Threads : WillActivate(x, t) => WillActivate(x, t)' BY <2>1, Stepped
    <3>2. Needs(t)' => Needs(t) BY <2>1, <2>3
    <3> QED BY <3>1, <3>2 DEF Covered
  <2> QED BY <2>2, <2>3
<1>5. CASE ReleaseCheck(th)
  BY <1>5 DEF ReleaseCheck
<1>6. CASE ReleaseDone(th)
  <2>1. /\ pc[th] = "relchk" /\ qumsg[tgt[th]] = <<>> /\ UNCHANGED <<qumsg, global, windows>>
        /\ \A x \in Threads : x # th => pc'[x] = pc[x] /\ tgt'[x] = tgt[x]
    BY <1>6, Returning DEF ReleaseDone
  <2>2. CASE t = tgt[th] BY <2>1, <2>2
  <2>3. CASE t # tgt[th]
    <3>1. \A x \in Threads : WillActivate(x, t) => WillActivate(x, t)' BY <2>1, <2>3, Stepped
    <3> QED BY <2>1, <3>1
  <2> QED BY <2>2, <2>3
<1> QED
  BY <1>1, <1>2, <1>3, <1>4, <1>5, <1>6 DEF RunTask

-----------------------------------------------------------------------------
(* The workers' loop and the shutdown post nothing. *)

LEMMA WorkerCovers ==
  ASSUME TypeInv, NEW w \in Workers, WorkerLoop(w) \/ SpuriousWake(w), NEW t \in Tasks
  PROVE  Covered(t)
<1> TypeOK /\ Control
  BY DEF TypeInv
<1> USE Sets DEF TypeOK, queues, waiters, ending, round, windows, history, Covered, Needs, WillActivate, Goto
<1>1. CASE TakeOwn(w) \/ \E v \in Workers : Steal(w, v)
  <2>1. /\ pc[w] \in {"idle", "steal", "retry"} /\ pc' = [pc EXCEPT ![w] = "size"]
        /\ UNCHANGED <<qumsg, global, tgt, windows>>
    BY <1>1 DEF TakeOwn, Steal, TakeFrom
  <2>2. Aside(w) BY <2>1 DEF Aside
  <2> QED BY <2>2, AsideCovers
<1>2. CASE OwnFails(w) \/ NoTask(w) \/ LookAgain(w)
  <2>1. Aside(w) BY <1>2 DEF OwnFails, NoTask, LookAgain, Aside
  <2> QED BY <2>1, AsideCovers
<1>3. CASE PrepareSeen(w) \/ PrepareShow(w) \/ SleepRecheck(w)
  <2>1. Aside(w) BY <1>3 DEF PrepareSeen, PrepareShow, SleepRecheck, Aside
  <2> QED BY <2>1, AsideCovers
<1>4. CASE Commit(w) \/ Awaken(w) \/ WorkerExit(w) \/ SpuriousWake(w)
  <2>1. Aside(w) BY <1>4 DEF Commit, Awaken, WorkerExit, SpuriousWake, Aside
  <2> QED BY <2>1, AsideCovers
<1> QED
  BY <1>1, <1>2, <1>3, <1>4 DEF WorkerLoop

Others == \/ \E t \in Tasks, b \in Nets \cup {None} : Rebind(t, b)
          \/ LoaderStop
          \/ \E w \in Workers : WakeupAll(w) \/ WakeupSkip(w)
          \/ Joined \/ UNCHANGED vars

LEMMA OthersCover ==
  ASSUME TypeInv, Others, NEW t \in Tasks
  PROVE  Covered(t)
<1> TypeOK /\ Control
  BY DEF TypeInv
<1> USE Sets DEF TypeOK, queues, waiters, ending, round, windows, history, Covered, Needs, WillActivate, Goto
<1>1. CASE \E u \in Tasks, b \in Nets \cup {None} : Rebind(u, b)
  BY <1>1 DEF Rebind
<1>2. CASE LoaderStop
  BY <1>2 DEF LoaderStop
<1>3. CASE \E w \in Workers : WakeupAll(w) \/ WakeupSkip(w)
  <2>1. PICK w \in Workers : WakeupAll(w) \/ WakeupSkip(w) BY <1>3
  <2>2. Aside(Main) BY <2>1 DEF WakeupAll, WakeupSkip, Aside
  <2> QED BY <2>2, AsideCovers
<1>4. CASE Joined \/ UNCHANGED vars
  BY <1>4 DEF Joined, vars
<1> QED
  BY <1>1, <1>2, <1>3, <1>4 DEF Others

-----------------------------------------------------------------------------
(* Windows *)

LEMMA NetCovers ==
  ASSUME TypeInv, InWindow, NEW n \in Nets, NetLoop(n) \/ NetMay(n), NEW t \in Tasks
  PROVE  Covered(t)
<1> TypeOK /\ Control
  BY DEF TypeInv
<1> USE Sets DEF TypeOK, queues, waiters, ending, round, history, windows, Covered, Needs, Goto
<1>1. CASE DeferTake(n)
  BY <1>1 DEF DeferTake, WillActivate
<1>2. ASSUME NEW u \in Tasks, EmitBegin(n, u) PROVE Covered(t)
  <2>1. win[n] \in Seq(Tasks) OBVIOUS
  <2>2. \A i \in DOMAIN win[n] : i \in DOMAIN Append(win[n], u) /\ Append(win[n], u)[i] = win[n][i]
    <3> DEFINE q == win[n]
    <3>1. q \in Seq(Tasks) BY <2>1
    <3> HIDE DEF q
    <3>2. /\ Len(q) \in Nat /\ DOMAIN q = 1 .. Len(q) /\ DOMAIN Append(q, u) = 1 .. Len(q) + 1
          /\ \A i \in 1 .. Len(q) : Append(q, u)[i] = q[i]
      BY <3>1, AppendProperties, LenProperties
    <3>3. \A i \in DOMAIN q : i \in DOMAIN Append(q, u) /\ Append(q, u)[i] = q[i]
      BY <3>2
    <3> QED BY <3>3 DEF q
  <2>3. win' = [win EXCEPT ![n] = Append(@, u)]
        /\ nwin' = [nwin EXCEPT ![n] = IF win[n] = <<>> THEN 0 ELSE @]
        /\ pc[n] \in {"idle", "win"} /\ pc' = [pc EXCEPT ![n] = "win"] /\ tgt' = tgt
        /\ qumsg' = qumsg /\ global' = global
    BY <1>2 DEF EmitBegin
  <2>4. win[n] = <<>> => DOMAIN win[n] = {} OBVIOUS
  <2>5. ASSUME NEW th \in Threads, WillActivate(th, t) PROVE WillActivate(th, t)'
    <3>1. CASE th # n BY <3>1, <2>3, <2>5 DEF WillActivate
    <3>2. CASE th = n
      <4>1. nwin[n] > 0 /\ \E i \in DOMAIN win[n] : win[n][i] = t
        BY <3>2, <2>5, <2>3 DEF WillActivate
      <4>2. nwin'[n] = nwin[n] /\ win'[n] = Append(win[n], u) BY <4>1, <2>3, <2>4
      <4>3. \E i \in DOMAIN win'[n] : win'[n][i] = t BY <4>1, <4>2, <2>1, <2>2
      <4> QED BY <3>2, <4>1, <4>2, <4>3 DEF WillActivate
    <3> QED BY <3>1, <3>2
  <2> QED BY <2>5, <2>3
<1>3. CASE EmitTryInline(n)
  BY <1>3 DEF EmitTryInline, WillActivate
<1>4. CASE EmitInline(n)
  <2>1. /\ pc[n] = "try" /\ tgt[n] \in Tasks /\ UNCHANGED <<qumsg, windows>>
        /\ global' = [global EXCEPT ![tgt[n]] = 1]
        /\ pc' = [pc EXCEPT ![n] = "run"] /\ tgt' = [tgt EXCEPT ![n] = None]
    BY <1>4 DEF EmitInline, Control, ControlOf
  <2>2. \A x \in Threads : WillActivate(x, t) => WillActivate(x, t)' BY <2>1, Stepped
  <2> QED BY <2>1, <2>2
<1>5. CASE EmitLost(n)
  <2>1. Aside(n) BY <1>5 DEF EmitLost, Aside
  <2> QED BY <2>1, AsideCovers
<1>6. CASE EmitClaim(n)
  <2>1. Target(n) \in Tasks /\ win[n] # <<>>
    BY <1>6, TargetIn DEF EmitClaim, Control, ControlOf
  <2> QED BY <1>6, <2>1 DEF EmitClaim, ClaimMessage, WillActivate
<1>7. CASE EmitPublish(n)
  <2>1. win[n] # <<>> /\ tgt[n] = Target(n) /\ tgt[n] \in Tasks /\ pc[n] = "epub"
    BY <1>7 DEF EmitPublish, Control, ControlOf, InWindow
  <2>2. qumsg[tgt[n]] \in Seq(MsgCell) BY <2>1
  <2>3. Publish(qumsg[tgt[n]], n) # <<>> => qumsg[tgt[n]] # <<>>
    BY DEF Publish
  <2>4. Needs(t)' => Needs(t) BY <1>7, <2>1, <2>2, <2>3 DEF EmitPublish
  <2>5. win' = win /\ nwin' = [nwin EXCEPT ![n] = @ + 1] /\ pc' = [pc EXCEPT ![n] = "win"]
        /\ tgt' = [tgt EXCEPT ![n] = None]
    BY <1>7 DEF EmitPublish
  <2>6. nwin'[n] > 0 /\ Len(win[n]) \in DOMAIN win[n] /\ win[n][Len(win[n])] = tgt[n]
    BY <2>1, <2>5, TargetIn DEF Target
  <2>7. ASSUME NEW th \in Threads, WillActivate(th, t) PROVE WillActivate(th, t)'
    <3>1. CASE th # n BY <3>1, <2>5, <2>7 DEF WillActivate
    <3>2. CASE th = n BY <3>2, <2>1, <2>5, <2>6, <2>7 DEF WillActivate
    <3> QED BY <3>1, <3>2
  <2> QED BY <2>4, <2>7
<1>8. CASE EmitEnd(n)
  <2>1. win[n] # <<>> BY <1>8 DEF EmitEnd, Control, ControlOf
  <2> DEFINE m == Len(win[n])  r == SubSeq(win[n], 1, m - 1)
  <2>2. /\ win[n] \in Seq(Tasks) /\ m \in Nat \ {0} /\ r \in Seq(Tasks) /\ DOMAIN win[n] = 1 .. m
        /\ DOMAIN r = 1 .. m - 1 /\ \A i \in 1 .. m - 1 : r[i] = win[n][i]
    BY <2>1, ButLast, TargetIn
  <2>3. win' = [win EXCEPT ![n] = r] /\ nwin' = nwin /\ tgt' = [tgt EXCEPT ![n] = win[n][m]]
        /\ pc' = [pc EXCEPT ![n] = "cas"] /\ pc[n] = "win" /\ qumsg' = qumsg /\ global' = global
    BY <1>8 DEF EmitEnd, Target
  <2> HIDE DEF m, r
  <2>4. ASSUME NEW th \in Threads, WillActivate(th, t) PROVE WillActivate(th, t)'
    <3>1. CASE th # n BY <3>1, <2>3, <2>4 DEF WillActivate
    <3>2. CASE th = n
      <4>1. nwin[n] > 0 /\ \E i \in 1 .. m : win[n][i] = t
        BY <3>2, <2>2, <2>3, <2>4 DEF WillActivate
      <4>2. CASE win[n][m] = t BY <4>2, <3>2, <2>3 DEF WillActivate
      <4>3. CASE win[n][m] # t
        <5>1. PICK i \in 1 .. m : win[n][i] = t BY <4>1
        <5>2. i # m BY <5>1, <4>3
        <5>4. i \in 1 .. m - 1 BY <5>2, <2>2
        <5>3. i \in DOMAIN r /\ r[i] = t BY <5>1, <5>4, <2>2
        <5> QED BY <5>3, <4>1, <3>2, <2>2, <2>3 DEF WillActivate
      <4> QED BY <4>2, <4>3
    <3> QED BY <3>1, <3>2
  <2> QED BY <2>3, <2>4
<1>9. CASE EmitEndEmpty(n)
  <2>1. /\ pc[n] = "win" /\ nwin[n] = 0 /\ UNCHANGED <<qumsg, global, tgt, nwin>>
        /\ \A x \in Threads : x # n => pc'[x] = pc[x]
        /\ \A x \in Nets : x # n => win'[x] = win[x]
    BY <1>9 DEF EmitEndEmpty
  <2>2. ~WillActivate(n, t) BY <2>1 DEF WillActivate
  <2>3. ASSUME NEW th \in Threads, th # n, WillActivate(th, t) PROVE WillActivate(th, t)'
    BY <2>1, <2>3 DEF WillActivate
  <2> QED BY <2>1, <2>2, <2>3
<1> QED
  BY <1>1, <1>2, <1>3, <1>4, <1>5, <1>6, <1>7, <1>8, <1>9 DEF NetLoop, NetMay

\* Only the net thread itself moves between a claim and its publishing.
LEMMA WindowStep ==
  ASSUME TypeInv, InWindow, [Next]_vars
  PROVE  InWindow'
<1> TypeOK /\ Control
  BY DEF TypeInv
<1> USE Sets DEF TypeOK, queues, waiters, ending, round, history, windows, InWindow, Target, Goto
<1> SUFFICES ASSUME NEW n \in Nets, pc'[n] = "epub" PROVE tgt'[n] = Target(n)'
  OBVIOUS
<1>1. ASSUME NEW th \in Threads, Post(th) PROVE tgt'[n] = Target(n)'
  <2>1. CASE \E t \in Tasks : PostClaim(th, t) BY <2>1 DEF PostClaim
  <2>2. CASE PostPublish(th) \/ Activate(th) BY <2>2 DEF PostPublish, Activate
  <2>3. CASE AlreadyActive(th) \/ ScheduleNet(th)
    BY <2>3, Returning DEF AlreadyActive, ScheduleNet
  <2>4. CASE (\E w \in Workers : ScheduleWorker(th, w)) \/ TaskqPublish(th)
    BY <2>4 DEF ScheduleWorker, TaskqPublish
  <2>5. CASE MarkWaking(th) \/ WakeEpoch(th) BY <2>5 DEF MarkWaking, WakeEpoch
  <2>6. CASE NoWakeNeeded(th) BY <2>6, Returning DEF NoWakeNeeded
  <2>7. CASE FutexWake(th) BY <2>7 DEF FutexWake, ReturnPoint
  <2> QED BY <1>1, <2>1, <2>2, <2>3, <2>4, <2>5, <2>6, <2>7 DEF Post
<1>2. ASSUME NEW th \in Threads, RunTask(th) PROVE tgt'[n] = Target(n)'
  <2>1. CASE RunSize(th) \/ RunPop(th) \/ Dispatch(th) BY <2>1 DEF RunSize, RunPop, Dispatch
  <2>2. CASE Release(th) \/ ReleaseCheck(th) BY <2>2 DEF Release, ReleaseCheck
  <2>3. CASE ReleaseDone(th) BY <2>3, Returning DEF ReleaseDone
  <2> QED BY <1>2, <2>1, <2>2, <2>3 DEF RunTask
<1>3. ASSUME NEW w \in Workers, WorkerLoop(w) \/ SpuriousWake(w) PROVE tgt'[n] = Target(n)'
  <2>1. tgt' = tgt /\ win' = win /\ pc'[n] = pc[n]
    <3>1. CASE TakeOwn(w) \/ \E v \in Workers : Steal(w, v) BY <3>1 DEF TakeOwn, Steal, TakeFrom
    <3>2. CASE OwnFails(w) \/ NoTask(w) \/ LookAgain(w) BY <3>2 DEF OwnFails, NoTask, LookAgain
    <3>3. CASE PrepareSeen(w) \/ PrepareShow(w) \/ SleepRecheck(w)
      BY <3>3 DEF PrepareSeen, PrepareShow, SleepRecheck
    <3>4. CASE Commit(w) \/ Awaken(w) \/ WorkerExit(w) \/ SpuriousWake(w)
      BY <3>4 DEF Commit, Awaken, WorkerExit, SpuriousWake
    <3> QED BY <1>3, <3>1, <3>2, <3>3, <3>4 DEF WorkerLoop
  <2> QED BY <2>1
<1>4. ASSUME NEW m \in Nets, NetLoop(m) \/ NetMay(m) PROVE tgt'[n] = Target(n)'
  <2>1. CASE DeferTake(m) \/ EmitTryInline(m) BY <2>1 DEF DeferTake, EmitTryInline
  <2>2. CASE \E t \in Tasks : EmitBegin(m, t) BY <2>2 DEF EmitBegin
  <2>3. CASE EmitInline(m) \/ EmitLost(m) BY <2>3 DEF EmitInline, EmitLost
  <2>4. CASE EmitClaim(m) BY <2>4 DEF EmitClaim
  <2>5. CASE EmitPublish(m) BY <2>5 DEF EmitPublish
  <2>7. CASE EmitEnd(m)
    <3>1. n # m /\ pc[n] = "epub" /\ tgt'[n] = tgt[n] /\ win'[n] = win[n] BY <2>7 DEF EmitEnd
    <3> QED BY <3>1
  <2>6. CASE EmitEndEmpty(m) BY <2>6 DEF EmitEndEmpty
  <2> QED BY <1>4, <2>1, <2>2, <2>3, <2>4, <2>5, <2>6, <2>7 DEF NetLoop, NetMay
<1>5. CASE Others
  BY <1>5 DEF Others, Rebind, LoaderStop, WakeupAll, WakeupSkip, Joined, vars
<1> QED
  BY <1>1, <1>2, <1>3, <1>4, <1>5 DEF Next, Others

\* No message is lost: the releaser looks after it has cleared the flag, the producer tries
\* the flag after it has queued, and a window tries it at its end (loader.c:236-244,
\* task.c:578-588).
THEOREM NoLostMessageCorrect == Spec => []NoLostMessage
<1>1. Init => MsgInv
  BY TypeInit, Sets DEF Init, MsgInv, NoLostMessage, InWindow
<1>2. MsgInv /\ [Next]_vars => MsgInv'
  <2> SUFFICES ASSUME MsgInv, [Next]_vars PROVE MsgInv'
    OBVIOUS
  <2> USE DEF MsgInv
  <2>1. \A t \in Tasks : Covered(t)
    BY PostCovers, RunCovers, WorkerCovers, NetCovers, OthersCover DEF Next, Others
  <2> QED BY <2>1, TypeNext, CoveredStep, WindowStep
<1> QED
  BY <1>1, <1>2, PTL DEF Spec, MsgInv
-----------------------------------------------------------------------------
(* Sleeping workers *)

\* A worker past showing its state whose epoch has not moved still shows it, or has
\* a waker that is about to move the epoch.
Shown(w) ==
  pc[w] \in {"recheck", "commit", "blocked"} /\ ~moved[w] =>
    \/ wstate[w] = "sleep"
    \/ wstate[w] = "waking" /\ \E th \in Threads : pc[th] = "wake" /\ wk[th] = w

\* NoLostWakeup, of one worker.
HasWaker(w) ==
  Asleep(w) => /\ taskq[w] # <<>> => \E th \in Threads : WillWake(th, w)
               /\ stop => w \in unwoken \/ \E th \in Threads : WillWake(th, w)

WakeInv == TypeInv /\ \A w \in Workers : Shown(w) /\ HasWaker(w)

\* A step of a thread that is neither waking a worker nor going to sleep, and that puts
\* nothing in an empty run queue.
Quiet(th) ==
  /\ \A x \in Threads : x # th => pc'[x] = pc[x] /\ wk'[x] = wk[x]
  /\ UNCHANGED <<waiters, ending>>
  /\ pc[th] \notin {"tpub", "wst", "wake"}
  /\ pc'[th] \notin {"recheck", "commit", "blocked"}
  /\ \A w \in Workers : taskq'[w] # <<>> => taskq[w] # <<>>

LEMMA QuietStep ==
  ASSUME NEW th \in Threads, Quiet(th), NEW w \in Workers, Shown(w), HasWaker(w)
  PROVE  Shown(w)' /\ HasWaker(w)'
<1> USE Sets DEF waiters, ending, Quiet
<1>1. Shown(w)'
  BY DEF Shown
<1>2. HasWaker(w)'
  BY DEF HasWaker, Asleep, WillWake
<1> QED
  BY <1>1, <1>2

\* The futex call changes the place of nobody but its caller and a blocked worker.
LEMMA Woken ==
  ASSUME pc \in [Threads -> PCs], NEW th \in Threads, FutexWake(th)
  PROVE  /\ pc'[th] \in {"hand", "win", "idle"}
         /\ \A x \in Threads : x # th => pc'[x] = pc[x] \/ (pc[x] = "blocked" /\ pc'[x] = "woke")
<1>1. ReturnPoint(th) \in {"hand", "win", "idle"} /\ pc[th] = "fwake"
  BY DEF ReturnPoint, FutexWake
<1>2. \A x \in Threads :
         pc'[x] = IF x = th THEN ReturnPoint(th)
                  ELSE IF x = wk[th] /\ pc[x] = "blocked" THEN "woke" ELSE pc[x]
  BY <1>1 DEF FutexWake
<1> QED
  BY <1>1, <1>2

LEMMA PostWakes ==
  ASSUME WakeInv, NEW th \in Threads, Post(th), NEW w \in Workers
  PROVE  Shown(w)' /\ HasWaker(w)'
<1> TypeOK /\ Control /\ Shown(w) /\ HasWaker(w)
  BY DEF WakeInv, TypeInv
<1> USE Sets DEF TypeOK, queues, waiters, ending, round, windows, history, Goto
<1>1. CASE (\E t \in Tasks : PostClaim(th, t)) \/ PostPublish(th) \/ Activate(th)
  <2>1. CASE \E t \in Tasks : PostClaim(th, t)
    <3>1. PICK t \in Tasks : PostClaim(th, t) BY <2>1
    <3>2. /\ pc' = [pc EXCEPT ![th] = "pub"] /\ pc[th] \in {"idle", "hand"}
          /\ UNCHANGED <<wk, waiters, ending, taskq>>
      BY <3>1 DEF PostClaim
    <3>3. Quiet(th) BY <3>2 DEF Quiet
    <3> QED BY <3>3, QuietStep
  <2>2. CASE PostPublish(th) BY <2>2, QuietStep DEF PostPublish, Quiet
  <2>3. CASE Activate(th) BY <2>3, QuietStep DEF Activate, Quiet
  <2> QED BY <1>1, <2>1, <2>2, <2>3
<1>2. CASE AlreadyActive(th)
  BY <1>2, Returning, QuietStep DEF AlreadyActive, Quiet
<1>3. CASE ScheduleNet(th)
  BY <1>3, Returning, QuietStep DEF ScheduleNet, Quiet
<1>4. ASSUME NEW v \in Workers, ScheduleWorker(th, v) PROVE Shown(w)' /\ HasWaker(w)'
  <2>1. pc[th] = "sched" /\ pc' = [pc EXCEPT ![th] = "tpub"] /\ wk' = [wk EXCEPT ![th] = v]
        /\ UNCHANGED <<wstate, moved, stop, unwoken>> /\ (w # v => taskq'[w] = taskq[w])
    BY <1>4 DEF ScheduleWorker
  <2>2. Shown(w)' BY <2>1 DEF Shown
  <2>3. HasWaker(w)' BY <2>1 DEF HasWaker, Asleep, WillWake
  <2> QED BY <2>2, <2>3
<1>5. CASE TaskqPublish(th)
  <2>1. /\ pc[th] = "tpub" /\ pc' = [pc EXCEPT ![th] = "wst"] /\ wk' = wk
        /\ UNCHANGED <<wstate, moved, stop, unwoken>>
        /\ taskq' = [taskq EXCEPT ![wk[th]] = Publish(@, th)]
    BY <1>5 DEF TaskqPublish
  <2>2. Publish(taskq[w], th) # <<>> => taskq[w] # <<>>
    BY DEF Publish
  <2>3. taskq'[w] # <<>> => taskq[w] # <<>> BY <2>1, <2>2
  <2>4. Shown(w)' BY <2>1 DEF Shown
  <2>5. HasWaker(w)' BY <2>1, <2>3 DEF HasWaker, Asleep, WillWake
  <2> QED BY <2>4, <2>5
<1>6. CASE MarkWaking(th)
  <2>1. /\ pc[th] = "wst" /\ pc' = [pc EXCEPT ![th] = "wake"] /\ wk' = wk
        /\ wstate' = [wstate EXCEPT ![wk[th]] = "waking"] /\ wk[th] \in Workers
        /\ UNCHANGED <<taskq, moved, stop, unwoken>>
    BY <1>6 DEF MarkWaking, Control, ControlOf
  <2>2. Shown(w)' BY <2>1 DEF Shown
  <2>3. HasWaker(w)' BY <2>1 DEF HasWaker, Asleep, WillWake
  <2> QED BY <2>2, <2>3
<1>7. CASE NoWakeNeeded(th)
  <2>1. /\ pc[th] = "wst" /\ wstate[wk[th]] # "sleep" /\ wk' = [wk EXCEPT ![th] = None]
        /\ UNCHANGED <<wstate, taskq, moved, stop, unwoken>>
        /\ pc'[th] \in {"hand", "win", "idle"} /\ \A x \in Threads : x # th => pc'[x] = pc[x]
    BY <1>7, Returning DEF NoWakeNeeded
  <2>2. Shown(w)' BY <2>1 DEF Shown
  <2>3. HasWaker(w)'
    <3>1. CASE wk[th] # w BY <2>1, <3>1 DEF HasWaker, Asleep, WillWake
    <3>2. CASE wk[th] = w BY <2>1, <3>2, <2>2 DEF Shown, HasWaker, Asleep, WillWake
    <3> QED BY <3>1, <3>2
  <2> QED BY <2>2, <2>3
<1>8. CASE WakeEpoch(th)
  <2>1. /\ pc[th] = "wake" /\ moved' = [moved EXCEPT ![wk[th]] = TRUE] /\ wk[th] \in Workers
        /\ pc' = [pc EXCEPT ![th] = "fwake"] /\ wk' = wk
        /\ UNCHANGED <<wstate, taskq, stop, unwoken>>
    BY <1>8 DEF WakeEpoch, Control, ControlOf
  <2>2. Shown(w)' BY <2>1 DEF Shown
  <2>3. HasWaker(w)' BY <2>1 DEF HasWaker, Asleep, WillWake
  <2> QED BY <2>2, <2>3
<1>9. CASE FutexWake(th)
  <2>1. ReturnPoint(th) \in {"hand", "win", "idle"}
    BY DEF ReturnPoint
  <2>2. /\ pc[th] = "fwake" /\ wk[th] \in Workers /\ wk' = [wk EXCEPT ![th] = None]
        /\ UNCHANGED <<wstate, moved, taskq, stop, unwoken>>
    BY <1>9 DEF FutexWake, Control, ControlOf
  <2>4. pc'[th] \in {"hand", "win", "idle"}
        /\ \A x \in Threads : x # th => pc'[x] = pc[x] \/ (pc[x] = "blocked" /\ pc'[x] = "woke")
    BY <1>9, Woken
  <2>5. Shown(w)' BY <2>2, <2>4 DEF Shown
  <2>6. HasWaker(w)' BY <2>2, <2>4 DEF HasWaker, Asleep, WillWake
  <2> QED BY <2>5, <2>6
<1> QED
  BY <1>1, <1>2, <1>3, <1>4, <1>5, <1>6, <1>7, <1>8, <1>9 DEF Post

LEMMA RunWakes ==
  ASSUME WakeInv, NEW th \in Threads, RunTask(th), NEW w \in Workers
  PROVE  Shown(w)' /\ HasWaker(w)'
<1> TypeOK /\ Control /\ Shown(w) /\ HasWaker(w)
  BY DEF WakeInv, TypeInv
<1> USE Sets DEF TypeOK, queues, waiters, ending, round, windows, history, Goto, Running
<1>1. CASE RunSize(th) \/ RunPop(th)
  <2>1. CASE RunSize(th) BY <2>1, QuietStep DEF RunSize, Quiet
  <2>2. CASE RunPop(th) BY <2>2, QuietStep DEF RunPop, Quiet
  <2> QED BY <1>1, <2>1, <2>2
<1>2. CASE Dispatch(th) \/ Release(th) \/ ReleaseCheck(th)
  <2>1. CASE Dispatch(th) BY <2>1, QuietStep DEF Dispatch, Quiet
  <2>2. CASE Release(th) BY <2>2, QuietStep DEF Release, Quiet
  <2>3. CASE ReleaseCheck(th) BY <2>3, QuietStep DEF ReleaseCheck, Quiet
  <2> QED BY <1>2, <2>1, <2>2, <2>3
<1>3. CASE ReleaseDone(th)
  BY <1>3, Returning, QuietStep DEF ReleaseDone, Quiet
<1> QED
  BY <1>1, <1>2, <1>3 DEF RunTask

LEMMA NetWakes ==
  ASSUME WakeInv, NEW n \in Nets, NetLoop(n) \/ NetMay(n), NEW w \in Workers
  PROVE  Shown(w)' /\ HasWaker(w)'
<1> TypeOK /\ Control /\ Shown(w) /\ HasWaker(w) /\ n \in Threads
  BY Sets DEF WakeInv, TypeInv
<1> USE Sets DEF TypeOK, queues, waiters, ending, round, windows, history, Goto
<1>1. CASE DeferTake(n) \/ (\E t \in Tasks : EmitBegin(n, t)) \/ EmitTryInline(n)
  <2>1. CASE DeferTake(n) BY <2>1, QuietStep DEF DeferTake, Quiet
  <2>2. CASE \E t \in Tasks : EmitBegin(n, t)
    <3>1. PICK t \in Tasks : EmitBegin(n, t) BY <2>2
    <3>2. /\ pc[n] \in {"idle", "win"} /\ pc' = [pc EXCEPT ![n] = "win"]
          /\ UNCHANGED <<taskq, waiters, ending, wk>>
      BY <3>1 DEF EmitBegin
    <3>3. Quiet(n) BY <3>2 DEF Quiet
    <3> QED BY <3>3, QuietStep
  <2>3. CASE EmitTryInline(n) BY <2>3, QuietStep DEF EmitTryInline, Quiet
  <2> QED BY <1>1, <2>1, <2>2, <2>3
<1>2. CASE EmitInline(n) \/ EmitLost(n) \/ EmitClaim(n)
  <2>1. CASE EmitInline(n) BY <2>1, QuietStep DEF EmitInline, Quiet
  <2>2. CASE EmitLost(n) BY <2>2, QuietStep DEF EmitLost, Quiet
  <2>3. CASE EmitClaim(n) BY <2>3, QuietStep DEF EmitClaim, Quiet
  <2> QED BY <1>2, <2>1, <2>2, <2>3
<1>3. CASE EmitPublish(n) \/ EmitEnd(n) \/ EmitEndEmpty(n)
  <2>1. CASE EmitPublish(n) BY <2>1, QuietStep DEF EmitPublish, Quiet
  <2>2. CASE EmitEnd(n) BY <2>2, QuietStep DEF EmitEnd, Quiet
  <2>3. CASE EmitEndEmpty(n) BY <2>3, QuietStep DEF EmitEndEmpty, Quiet
  <2> QED BY <1>3, <2>1, <2>2, <2>3
<1> QED
  BY <1>1, <1>2, <1>3 DEF NetLoop, NetMay

LEMMA WorkerWakes ==
  ASSUME WakeInv, NEW v \in Workers, WorkerLoop(v) \/ SpuriousWake(v), NEW w \in Workers
  PROVE  Shown(w)' /\ HasWaker(w)'
<1> TypeOK /\ Control /\ Shown(w) /\ HasWaker(w) /\ v \in Threads
  BY Sets DEF WakeInv, TypeInv
<1> USE Sets DEF TypeOK, queues, waiters, ending, round, windows, history, Goto
<1>1. CASE TakeOwn(v) \/ \E u \in Workers : Steal(v, u)
  <2>1. PICK u \in Workers : TakeFrom(v, u) /\ pc[v] \in {"idle", "steal", "retry"}
    BY <1>1 DEF TakeOwn, Steal
  <2>2. taskq' = [taskq EXCEPT ![u] = Tail(@)] /\ taskq[u] # <<>>
    BY <2>1 DEF TakeFrom, CanTake
  <2>3. \A x \in Workers : taskq'[x] # <<>> => taskq[x] # <<>>
    <3> SUFFICES ASSUME NEW x \in Workers, taskq'[x] # <<>> PROVE taskq[x] # <<>>
      OBVIOUS
    <3>1. CASE x = u BY <2>2, <3>1
    <3>2. CASE x # u BY <2>2, <3>2
    <3> QED BY <3>1, <3>2
  <2>4. Quiet(v) BY <2>1, <2>3 DEF TakeFrom, Quiet
  <2> QED BY <2>4, QuietStep
<1>2. CASE OwnFails(v) \/ NoTask(v) \/ LookAgain(v)
  <2>1. CASE OwnFails(v) BY <2>1, QuietStep DEF OwnFails, Quiet
  <2>2. CASE NoTask(v) BY <2>2, QuietStep DEF NoTask, Quiet
  <2>3. CASE LookAgain(v) BY <2>3, QuietStep DEF LookAgain, Quiet
  <2> QED BY <1>2, <2>1, <2>2, <2>3
<1>3. CASE WorkerExit(v) \/ SpuriousWake(v)
  <2>1. CASE WorkerExit(v) BY <2>1, QuietStep DEF WorkerExit, Quiet
  <2>2. CASE SpuriousWake(v) BY <2>2, QuietStep DEF SpuriousWake, Quiet
  <2> QED BY <1>3, <2>1, <2>2
<1>4. CASE PrepareSeen(v) \/ PrepareShow(v) \/ SleepRecheck(v) \/ Commit(v) \/ Awaken(v)
  <2>1. UNCHANGED <<taskq, wk, stop, unwoken>> /\ \A x \in Threads : x # v => pc'[x] = pc[x]
    BY <1>4 DEF PrepareSeen, PrepareShow, SleepRecheck, Commit, Awaken
  <2>2. /\ \A u \in Workers : u # v => wstate'[u] = wstate[u] /\ moved'[u] = moved[u]
        /\ pc[v] \notin {"tpub", "wst", "wake"} /\ pc'[v] \notin {"tpub", "wst", "wake"}
    BY <1>4 DEF PrepareSeen, PrepareShow, SleepRecheck, Commit, Awaken
  <2>3. CASE w # v
    <3>1. Shown(w)' BY <2>1, <2>2, <2>3 DEF Shown
    <3>2. HasWaker(w)' BY <2>1, <2>2, <2>3 DEF HasWaker, Asleep, WillWake
    <3> QED BY <3>1, <3>2
  <2>4. CASE w = v
    <3>1. CASE PrepareSeen(v) \/ Awaken(v)
      BY <3>1, <2>4 DEF PrepareSeen, Awaken, Shown, HasWaker, Asleep
    <3>2. CASE PrepareShow(v)
      BY <3>2, <2>4 DEF PrepareShow, Shown, HasWaker, Asleep
    <3>3. CASE SleepRecheck(v)
      <4>1. Shown(w)' BY <3>3, <2>1, <2>2, <2>4 DEF SleepRecheck, Shown
      <4>2. HasWaker(w)' BY <3>3, <2>4 DEF SleepRecheck, HasWaker, Asleep
      <4> QED BY <4>1, <4>2
    <3>4. CASE Commit(v)
      <4>1. Shown(w)' BY <3>4, <2>1, <2>2, <2>4 DEF Commit, Shown
      <4>2. HasWaker(w)' BY <3>4, <2>1, <2>2, <2>4 DEF Commit, HasWaker, Asleep, WillWake
      <4> QED BY <4>1, <4>2
    <3> QED BY <1>4, <3>1, <3>2, <3>3, <3>4
  <2> QED BY <2>3, <2>4
<1> QED
  BY <1>1, <1>2, <1>3, <1>4 DEF WorkerLoop

LEMMA OthersWake ==
  ASSUME WakeInv, Others, NEW w \in Workers
  PROVE  Shown(w)' /\ HasWaker(w)'
<1> TypeOK /\ Control /\ Shown(w) /\ HasWaker(w)
  BY DEF WakeInv, TypeInv
<1> USE Sets DEF TypeOK, queues, waiters, ending, round, windows, history, Goto
<1>1. CASE (\E t \in Tasks, b \in Nets \cup {None} : Rebind(t, b)) \/ Joined \/ UNCHANGED vars
  <2>1. UNCHANGED <<taskq, waiters, ending, pc, wk>>
    <3>1. CASE \E t \in Tasks, b \in Nets \cup {None} : Rebind(t, b) BY <3>1 DEF Rebind
    <3>2. CASE Joined \/ UNCHANGED vars BY <3>2 DEF Joined, vars
    <3> QED BY <1>1, <3>1, <3>2
  <2>2. Shown(w)' BY <2>1 DEF Shown
  <2>3. HasWaker(w)' BY <2>1 DEF HasWaker, Asleep, WillWake
  <2> QED BY <2>2, <2>3
<1>2. CASE LoaderStop
  <2>1. UNCHANGED <<taskq, waiters, pc, wk>> /\ unwoken' = Workers
    BY <1>2 DEF LoaderStop
  <2>2. Shown(w)' BY <2>1 DEF Shown
  <2>3. HasWaker(w)' BY <2>1 DEF HasWaker, Asleep, WillWake
  <2> QED BY <2>2, <2>3
<1>3. ASSUME NEW v \in Workers, WakeupAll(v) PROVE Shown(w)' /\ HasWaker(w)'
  <2>1. /\ pc[Main] = "idle" /\ pc' = [pc EXCEPT ![Main] = "wake"]
        /\ wk' = [wk EXCEPT ![Main] = v] /\ unwoken' = unwoken \ {v}
        /\ UNCHANGED <<wstate, moved, taskq, stop>>
    BY <1>3 DEF WakeupAll
  <2>2. Shown(w)' BY <2>1 DEF Shown
  <2>3. HasWaker(w)' BY <2>1 DEF HasWaker, Asleep, WillWake
  <2> QED BY <2>2, <2>3
<1>4. ASSUME NEW v \in Workers, WakeupSkip(v) PROVE Shown(w)' /\ HasWaker(w)'
  BY <1>4 DEF WakeupSkip, Shown, HasWaker, Asleep, WillWake
<1> QED
  BY <1>1, <1>2, <1>3, <1>4 DEF Others

\* No wake-up is lost: a waker takes the sleeping worker's state before it moves the
\* epoch, the worker shows its state before its second look (waiter.h:14-19,
\* loader.c:159-176).
THEOREM NoLostWakeupCorrect == Spec => []NoLostWakeup
<1>1. Init => WakeInv
  BY TypeInit, Sets DEF Init, WakeInv, Shown, HasWaker, Asleep
<1>2. WakeInv /\ [Next]_vars => WakeInv'
  <2> SUFFICES ASSUME WakeInv, [Next]_vars PROVE WakeInv'
    OBVIOUS
  <2>1. \A w \in Workers : Shown(w)' /\ HasWaker(w)'
    BY PostWakes, RunWakes, NetWakes, WorkerWakes, OthersWake DEF Next, Others
  <2> QED BY <2>1, TypeNext DEF WakeInv
<1>3. WakeInv => NoLostWakeup
  BY DEF WakeInv, HasWaker, NoLostWakeup
<1> QED
  BY <1>1, <1>2, <1>3, PTL DEF Spec

-----------------------------------------------------------------------------
(* Sequences of message cells. *)

Rising(q) ==
  \A i, j \in DOMAIN q : i < j /\ q[i].by = q[j].by => q[i].n < q[j].n

Before(p, q) ==
  \A i \in DOMAIN p, j \in DOMAIN q : p[i].by = q[j].by => p[i].n < q[j].n

Has(q, from, k) == \E i \in DOMAIN q : q[i].by = from /\ q[i].n = k

\* By the counts done and posted, the cells of q were sent to t and not handled.
Pending(q, t, done, posted) ==
  \A i \in DOMAIN q : done[t][q[i].by] < q[i].n /\ q[i].n <= posted[q[i].by][t]

LEMMA CellIn ==
  ASSUME NEW q \in Seq(MsgCell), NEW i \in DOMAIN q
  PROVE  q[i] \in MsgCell /\ q[i].by \in Threads /\ q[i].n \in Nat
<1>1. q[i] \in MsgCell
  OBVIOUS
<1> QED
  BY <1>1 DEF MsgCell

LEMMA Published ==
  ASSUME NEW q \in Seq(MsgCell), NEW th
  PROVE  /\ DOMAIN Publish(q, th) = DOMAIN q
         /\ \A i \in DOMAIN q : Publish(q, th)[i].by = q[i].by /\ Publish(q, th)[i].n = q[i].n
BY DEF Publish, MsgCell

LEMMA Appended ==
  ASSUME NEW q \in Seq(MsgCell), NEW m \in MsgCell
  PROVE  /\ DOMAIN q = 1 .. Len(q) /\ Len(q) \in Nat
         /\ DOMAIN Append(q, m) = 1 .. Len(q) + 1
         /\ Append(q, m)[Len(q) + 1] = m
         /\ \A i \in DOMAIN q : Append(q, m)[i] = q[i]
BY AppendProperties, LenProperties

LEMMA Split ==
  ASSUME NEW q \in Seq(MsgCell), NEW k \in 0 .. Len(q)
  PROVE  /\ DOMAIN q = 1 .. Len(q) /\ Len(q) \in Nat
         /\ DOMAIN SubSeq(q, 1, k) = 1 .. k
         /\ \A i \in 1 .. k : SubSeq(q, 1, k)[i] = q[i]
         /\ DOMAIN Drop(q, k) = 1 .. Len(q) - k
         /\ \A i \in 1 .. Len(q) - k : Drop(q, k)[i] = q[i + k]
BY SubSeqProperties, LenProperties DEF Drop

LEMMA SplitOrder ==
  ASSUME NEW q \in Seq(MsgCell), NEW k \in 0 .. Len(q), Rising(q)
  PROVE  /\ Rising(SubSeq(q, 1, k)) /\ Rising(Drop(q, k))
         /\ Before(SubSeq(q, 1, k), Drop(q, k))
         /\ \A from, n : Has(q, from, n) => Has(SubSeq(q, 1, k), from, n) \/ Has(Drop(q, k), from, n)
         /\ \A t, d, s : Pending(q, t, d, s) =>
              Pending(SubSeq(q, 1, k), t, d, s) /\ Pending(Drop(q, k), t, d, s)
<1> DEFINE p == SubSeq(q, 1, k)
           r == Drop(q, k)
           l == Len(q)
<1>1. /\ DOMAIN q = 1 .. l /\ l \in Nat /\ k \in Nat /\ k <= l
      /\ DOMAIN p = 1 .. k /\ \A i \in 1 .. k : p[i] = q[i]
      /\ DOMAIN r = 1 .. l - k /\ \A i \in 1 .. l - k : r[i] = q[i + k]
  <2>1. l \in Nat /\ k \in Nat /\ k <= l
    BY LenProperties
  <2>2. DOMAIN q = 1 .. l
    BY LenProperties
  <2>3. DOMAIN p = 1 .. k /\ \A i \in 1 .. k : p[i] = q[i]
    BY Split
  <2>4. DOMAIN r = 1 .. l - k /\ \A i \in 1 .. l - k : r[i] = q[i + k]
    BY Split
  <2> QED BY <2>1, <2>2, <2>3, <2>4
<1> HIDE DEF p, r, l
<1>2. \A i \in 1 .. k : i \in DOMAIN q
  BY <1>1
<1>3. \A i \in 1 .. l - k : i + k \in DOMAIN q /\ i + k > k
  BY <1>1
<1>4. Rising(p)
  BY <1>1, <1>2 DEF Rising
<1>5. Rising(r)
  <2> SUFFICES ASSUME NEW i \in DOMAIN r, NEW j \in DOMAIN r, i < j, r[i].by = r[j].by
               PROVE  r[i].n < r[j].n
    BY DEF Rising
  <2>1. i + k \in DOMAIN q /\ j + k \in DOMAIN q /\ i + k < j + k /\ r[i] = q[i + k] /\ r[j] = q[j + k]
    BY <1>1, <1>3
  <2> QED BY <2>1 DEF Rising
<1>6. Before(p, r)
  <2> SUFFICES ASSUME NEW i \in DOMAIN p, NEW j \in DOMAIN r, p[i].by = r[j].by
               PROVE  p[i].n < r[j].n
    BY DEF Before
  <2>1. i \in DOMAIN q /\ j + k \in DOMAIN q /\ i < j + k /\ p[i] = q[i] /\ r[j] = q[j + k]
    BY <1>1, <1>2, <1>3
  <2> QED BY <2>1 DEF Rising
<1>7. ASSUME NEW from, NEW n, Has(q, from, n) PROVE Has(p, from, n) \/ Has(r, from, n)
  <2>1. PICK i \in DOMAIN q : q[i].by = from /\ q[i].n = n
    BY <1>7 DEF Has
  <2>2. CASE i <= k
    <3>1. i \in DOMAIN p /\ p[i] = q[i] BY <2>2, <1>1
    <3> QED BY <2>1, <3>1 DEF Has
  <2>3. CASE i > k
    <3>1. i - k \in DOMAIN r /\ (i - k) + k = i BY <2>3, <1>1
    <3>2. r[i - k] = q[i] BY <3>1, <1>1
    <3> QED BY <2>1, <3>1, <3>2 DEF Has
  <2> QED BY <2>2, <2>3, <1>1
<1>8. ASSUME NEW t, NEW d, NEW s, Pending(q, t, d, s)
      PROVE  Pending(p, t, d, s) /\ Pending(r, t, d, s)
  BY <1>1, <1>2, <1>3, <1>8 DEF Pending
<1> QED
  BY <1>4, <1>5, <1>6, <1>7, <1>8 DEF p, r

LEMMA TailOrder ==
  ASSUME NEW q \in Seq(MsgCell), q # <<>>, Rising(q)
  PROVE  /\ Head(q) = q[1] /\ 1 \in DOMAIN q /\ Head(q) \in MsgCell
         /\ Rising(Tail(q))
         /\ Before(<<Head(q)>>, Tail(q))
         /\ \A i \in DOMAIN Tail(q) : i + 1 \in DOMAIN q /\ i + 1 > 1 /\ Tail(q)[i] = q[i + 1]
         /\ \A from, n : Has(q, from, n) =>
              Has(Tail(q), from, n) \/ (Head(q).by = from /\ Head(q).n = n)
<1> DEFINE r == Tail(q)
           l == Len(q)
<1>1. /\ DOMAIN q = 1 .. l /\ l \in Nat \ {0} /\ Head(q) = q[1] /\ Head(q) \in MsgCell
      /\ DOMAIN r = 1 .. l - 1 /\ \A i \in 1 .. l - 1 : r[i] = q[i + 1]
  BY HeadTailProperties, LenProperties, EmptySeq
<1> HIDE DEF r, l
<1>2. 1 \in DOMAIN q /\ \A i \in DOMAIN r : i + 1 \in DOMAIN q /\ i + 1 > 1 /\ r[i] = q[i + 1]
  BY <1>1
<1>3. Rising(r)
  <2> SUFFICES ASSUME NEW i \in DOMAIN r, NEW j \in DOMAIN r, i < j, r[i].by = r[j].by
               PROVE  r[i].n < r[j].n
    BY DEF Rising
  <2>1. i + 1 < j + 1 BY <1>1
  <2> QED BY <2>1, <1>2 DEF Rising
<1>4. Before(<<Head(q)>>, r)
  BY <1>1, <1>2 DEF Rising, Before
<1>5. ASSUME NEW from, NEW n, Has(q, from, n)
      PROVE  Has(r, from, n) \/ (Head(q).by = from /\ Head(q).n = n)
  <2>1. PICK i \in DOMAIN q : q[i].by = from /\ q[i].n = n
    BY <1>5 DEF Has
  <2>2. CASE i = 1 BY <2>1, <2>2, <1>1
  <2>3. CASE i # 1
    <3>1. i - 1 \in DOMAIN r /\ (i - 1) + 1 = i BY <2>3, <1>1
    <3>2. r[i - 1] = q[i] BY <3>1, <1>1
    <3> QED BY <2>1, <3>1, <3>2 DEF Has
  <2> QED BY <2>2, <2>3
<1> QED
  BY <1>1, <1>2, <1>3, <1>4, <1>5 DEF r
-----------------------------------------------------------------------------
(* The invariant. *)

\* The runner's batch and then the queue of t: sender by sender in order, and exactly
\* the messages that were sent and not handled.
Ordered(t) ==
  /\ Rising(qumsg[t]) /\ Pending(qumsg[t], t, last, sent)
  /\ \A from \in Threads : last[t][from] <= sent[from][t]
  /\ \A x \in Threads : cur[x] = t =>
       Rising(batch[x]) /\ Before(batch[x], qumsg[t]) /\ Pending(batch[x], t, last, sent)
  /\ \A from \in Threads, k \in Nat :
       last[t][from] < k /\ k <= sent[from][t] =>
         Has(qumsg[t], from, k) \/ \E x \in Threads : cur[x] = t /\ Has(batch[x], from, k)

\* A thread without a task has no batch.
NoBatch == \A x \in Threads : cur[x] = None => batch[x] = <<>>

\* A net thread about to try the inline path has nothing of its own in the queue.
Emptied ==
  \A n \in Nets : pc[n] = "try" => \A i \in DOMAIN qumsg[tgt[n]] : qumsg[tgt[n]][i].by # n

MailInv == TypeInv /\ OwnInv /\ NoBatch /\ Emptied /\ \A t \in Tasks : Ordered(t)

-----------------------------------------------------------------------------
(* What a step does to the variables of the invariant. *)

Silent == UNCHANGED <<qumsg, cur, batch, history>>

Publishing(th) ==
  /\ \E t \in Tasks : qumsg' = [qumsg EXCEPT ![t] = Publish(@, th)]
  /\ UNCHANGED <<cur, batch, history>>

Claiming(th, t) == ClaimMessage(th, t) /\ pc'[th] # "try" /\ UNCHANGED <<cur, batch, last>>

Taking(th, t) ==
  /\ cur[th] = None /\ \A x \in Threads : cur[x] # t
  /\ cur' = [cur EXCEPT ![th] = t]
  /\ UNCHANGED <<qumsg, batch, history>>

Effect(th) ==
  \/ Publishing(th) \/ Release(th) \/ RunPop(th) \/ Dispatch(th)
  \/ \E t \in Tasks : Claiming(th, t) \/ Taking(th, t)
  \/ th \in Nets /\ EmitInline(th)

LEMMA PostEffect ==
  ASSUME TypeInv, NEW th \in Threads, Post(th)
  PROVE  Silent \/ Effect(th)
<1> TypeOK /\ Control
  BY DEF TypeInv
<1> USE Sets DEF TypeOK, queues, waiters, ending, round, windows, history
<1>1. CASE \E t \in Tasks : PostClaim(th, t)
  <2>1. PICK t \in Tasks : PostClaim(th, t) BY <1>1
  <2>2. Claiming(th, t) BY <2>1 DEF PostClaim, Claiming, Goto
  <2> QED BY <2>2 DEF Effect
<1>2. CASE PostPublish(th)
  <2>1. tgt[th] \in Tasks BY <1>2 DEF PostPublish, Control, ControlOf
  <2> QED BY <1>2, <2>1 DEF PostPublish, Publishing, Effect
<1>3. CASE Activate(th) \/ AlreadyActive(th) \/ ScheduleNet(th)
  BY <1>3 DEF Activate, AlreadyActive, ScheduleNet, Silent
<1>4. CASE (\E w \in Workers : ScheduleWorker(th, w)) \/ TaskqPublish(th) \/ MarkWaking(th)
  BY <1>4 DEF ScheduleWorker, TaskqPublish, MarkWaking, Silent
<1>5. CASE NoWakeNeeded(th) \/ WakeEpoch(th) \/ FutexWake(th)
  BY <1>5 DEF NoWakeNeeded, WakeEpoch, FutexWake, Silent
<1> QED
  BY <1>1, <1>2, <1>3, <1>4, <1>5 DEF Post

LEMMA RunEffect ==
  ASSUME NEW th \in Threads, RunTask(th)
  PROVE  Silent \/ Effect(th)
<1> USE DEF queues, waiters, ending, round, windows, history
<1>1. CASE RunSize(th) \/ ReleaseCheck(th) \/ ReleaseDone(th)
  BY <1>1 DEF RunSize, ReleaseCheck, ReleaseDone, Silent
<1>2. CASE RunPop(th) \/ Dispatch(th) \/ Release(th)
  BY <1>2 DEF Effect
<1> QED
  BY <1>1, <1>2 DEF RunTask

\* A task in a run queue is being run by nobody.
LEMMA TakeEffect ==
  ASSUME TypeInv, OwnInv, NEW w \in Workers, NEW v \in Workers, TakeFrom(w, v), cur[w] = None
  PROVE  Effect(w)
<1> DEFINE u == Head(taskq[v]).task
<1>1. u \in Tasks /\ InTaskq(v, 1, u)
  <2>1. taskq[v] \in Seq(TaskCell) /\ taskq[v] # <<>>
    BY DEF TypeInv, TypeOK, TakeFrom, CanTake
  <2>2. taskq[v][1] \in TaskCell /\ 1 \in DOMAIN taskq[v] /\ Head(taskq[v]) = taskq[v][1]
    BY <2>1
  <2> QED  BY <2>1, <2>2 DEF InTaskq, TaskCell
<1>2. cur' = [cur EXCEPT ![w] = u] /\ UNCHANGED <<qumsg, batch, history>>
  BY DEF TakeFrom
<1> HIDE DEF u
<1>3. \A x \in Threads : cur[x] # u
  BY <1>1 DEF OwnInv, OwnOf, Exclusive, Runs
<1> QED
  BY <1>1, <1>2, <1>3 DEF Effect, Taking

LEMMA DeferEffect ==
  ASSUME TypeInv, OwnInv, NEW n \in Nets, DeferTake(n), cur[n] = None
  PROVE  Effect(n)
<1> DEFINE u == Head(deferq[n])
<1>1. u \in Tasks /\ InDeferq(n, 1, u)
  <2>1. deferq[n] \in Seq(Tasks) /\ deferq[n] # <<>>
    BY DEF TypeInv, TypeOK, DeferTake
  <2>2. deferq[n][1] \in Tasks /\ 1 \in DOMAIN deferq[n] /\ Head(deferq[n]) = deferq[n][1]
    BY <2>1
  <2> QED  BY <2>1, <2>2 DEF InDeferq
<1>2. cur' = [cur EXCEPT ![n] = u] /\ UNCHANGED <<qumsg, batch, history>>
  BY DEF DeferTake, history
<1> HIDE DEF u
<1>3. \A x \in Threads : cur[x] # u
  BY <1>1 DEF OwnInv, OwnOf, Exclusive, Runs
<1> QED
  BY <1>1, <1>2, <1>3 DEF Effect, Taking

LEMMA WorkerEffect ==
  ASSUME TypeInv, OwnInv, NEW w \in Workers, WorkerLoop(w) \/ SpuriousWake(w)
  PROVE  Silent \/ Effect(w)
<1> USE DEF queues, waiters, ending, round, windows, history
<1>1. CASE TakeOwn(w) \/ \E v \in Workers : Steal(w, v)
  <2>1. pc[w] \in {"idle", "steal", "retry"} /\ \E v \in Workers : TakeFrom(w, v)
    BY <1>1 DEF TakeOwn, Steal
  <2>2. cur[w] = None
    BY <2>1, Sets DEF TypeInv, Control, ControlOf, HasTask, Posting
  <2> QED BY <2>1, <2>2, TakeEffect
<1>2. CASE OwnFails(w) \/ NoTask(w) \/ LookAgain(w) \/ WorkerExit(w)
  BY <1>2 DEF OwnFails, NoTask, LookAgain, WorkerExit, Silent
<1>3. CASE PrepareSeen(w) \/ PrepareShow(w) \/ SleepRecheck(w)
  BY <1>3 DEF PrepareSeen, PrepareShow, SleepRecheck, Silent
<1>4. CASE Commit(w) \/ Awaken(w) \/ SpuriousWake(w)
  BY <1>4 DEF Commit, Awaken, SpuriousWake, Silent
<1> QED
  BY <1>1, <1>2, <1>3, <1>4 DEF WorkerLoop

LEMMA NetEffect ==
  ASSUME TypeInv, OwnInv, NEW n \in Nets, NetLoop(n) \/ NetMay(n)
  PROVE  Silent \/ Effect(n)
<1> TypeOK /\ Control
  BY DEF TypeInv
<1> USE Sets DEF TypeOK, queues, waiters, ending, round, windows, history
<1>1. CASE DeferTake(n)
  BY <1>1, DeferEffect DEF DeferTake, Control, ControlOf, HasTask, Posting
<1>2. CASE EmitInline(n)
  BY <1>2 DEF Effect
<1>3. CASE EmitClaim(n)
  <2>1. Target(n) \in Tasks
    <3>1. win[n] \in Seq(Tasks) /\ win[n] # <<>> BY <1>3 DEF EmitClaim, Control, ControlOf
    <3> QED BY <3>1 DEF Target
  <2> QED BY <1>3, <2>1 DEF EmitClaim, ClaimMessage, Claiming, Effect, Goto
<1>4. CASE EmitPublish(n)
  <2>1. tgt[n] \in Tasks BY <1>4 DEF EmitPublish, Control, ControlOf
  <2> QED BY <1>4, <2>1 DEF EmitPublish, Publishing, Effect
<1>5. CASE (\E t \in Tasks : EmitBegin(n, t)) \/ EmitTryInline(n) \/ EmitLost(n)
  BY <1>5 DEF EmitBegin, EmitTryInline, EmitLost, Silent
<1>6. CASE EmitEnd(n) \/ EmitEndEmpty(n)
  BY <1>6 DEF EmitEnd, EmitEndEmpty, Silent
<1> QED
  BY <1>1, <1>2, <1>3, <1>4, <1>5, <1>6 DEF NetLoop, NetMay

LEMMA Effects ==
  ASSUME TypeInv, OwnInv, [Next]_vars
  PROVE  Silent \/ \E th \in Threads : Effect(th)
<1> USE Sets
<1>1. ASSUME NEW th \in Threads, Post(th) \/ RunTask(th) PROVE Silent \/ Effect(th)
  BY <1>1, PostEffect, RunEffect
<1>2. ASSUME NEW w \in Workers, WorkerLoop(w) \/ SpuriousWake(w) PROVE Silent \/ Effect(w)
  BY <1>2, WorkerEffect
<1>3. ASSUME NEW n \in Nets, NetLoop(n) \/ NetMay(n) PROVE Silent \/ Effect(n)
  BY <1>3, NetEffect
<1>4. CASE \/ \E t \in Tasks, b \in Nets \cup {None} : Rebind(t, b)
           \/ LoaderStop
           \/ \E w \in Workers : WakeupAll(w) \/ WakeupSkip(w)
           \/ Joined \/ UNCHANGED vars
  BY <1>4 DEF Rebind, LoaderStop, WakeupAll, WakeupSkip, Joined, vars, Silent,
              queues, waiters, ending, round, windows, history
<1> QED
  BY <1>1, <1>2, <1>3, <1>4 DEF Next
-----------------------------------------------------------------------------
(* The steps keep the order. *)

\* A step that moves no message of t and changes no counter of it.
LEMMA OrderedFrame ==
  ASSUME TypeOK, NEW t \in Tasks, Ordered(t),
         qumsg'[t] = qumsg[t], last'[t] = last[t],
         \A x \in Threads : sent'[x][t] = sent[x][t],
         \A x \in Threads : (cur'[x] = t <=> cur[x] = t) /\ (cur[x] = t => batch'[x] = batch[x])
  PROVE  Ordered(t)'
<1>1. \A i \in DOMAIN qumsg[t] : qumsg[t][i].by \in Threads
  <2>1. qumsg[t] \in Seq(MsgCell) BY DEF TypeOK
  <2> QED BY <2>1, CellIn
<1>2. \A x \in Threads : \A i \in DOMAIN batch[x] : batch[x][i].by \in Threads
  <2>1. \A x \in Threads : batch[x] \in Seq(MsgCell) BY DEF TypeOK
  <2> QED BY <2>1, CellIn
<1>3. /\ Rising(qumsg[t])' /\ Pending(qumsg'[t], t, last', sent')
      /\ \A x \in Threads : last'[t][x] <= sent'[x][t]
  BY <1>1 DEF Ordered, Rising, Pending
<1>4. ASSUME NEW x \in Threads, cur'[x] = t
      PROVE  Rising(batch[x])' /\ Before(batch[x], qumsg[t])' /\ Pending(batch'[x], t, last', sent')
  <2>1. cur[x] = t /\ batch'[x] = batch[x] BY <1>4
  <2>2. Rising(batch[x])' BY <2>1 DEF Ordered, Rising
  <2>3. Before(batch[x], qumsg[t])' BY <2>1 DEF Ordered, Before
  <2>4. Pending(batch'[x], t, last', sent') BY <2>1, <1>2 DEF Ordered, Pending
  <2> QED BY <2>2, <2>3, <2>4
<1>5. ASSUME NEW from \in Threads, NEW k \in Nat, last'[t][from] < k, k <= sent'[from][t]
      PROVE  Has(qumsg[t], from, k)' \/ \E x \in Threads : cur'[x] = t /\ Has(batch[x], from, k)'
  <2>1. Has(qumsg[t], from, k) \/ \E x \in Threads : cur[x] = t /\ Has(batch[x], from, k)
    BY <1>5 DEF Ordered
  <2> QED BY <2>1 DEF Has
<1> QED
  BY <1>3, <1>4, <1>5 DEF Ordered

\* One thread runs t.
LEMMA Sole ==
  ASSUME OwnInv, NEW t \in Tasks, NEW x \in Threads, NEW y \in Threads, cur[x] = t, cur[y] = t
  PROVE  x = y
BY DEF OwnInv, OwnOf, Exclusive, Runs

\* What is to be shown of a step after which th runs t with the batch b before the queue q.
LEMMA OrderedNext ==
  ASSUME NEW t \in Tasks, NEW th \in Threads, NEW q, NEW b,
         qumsg'[t] = q, batch'[th] = b, \A x \in Threads : cur'[x] = t <=> x = th,
         Rising(q), Rising(b), Before(b, q),
         Pending(q, t, last', sent'), Pending(b, t, last', sent'),
         \A x \in Threads : last'[t][x] <= sent'[x][t],
         \A x \in Threads, k \in Nat :
           last'[t][x] < k /\ k <= sent'[x][t] => Has(q, x, k) \/ Has(b, x, k)
  PROVE  Ordered(t)'
BY DEF Ordered

LEMMA PublishingKeeps ==
  ASSUME TypeOK, NEW th \in Threads, Publishing(th), NEW t \in Tasks, Ordered(t)
  PROVE  Ordered(t)'
<1>1. PICK u \in Tasks : qumsg' = [qumsg EXCEPT ![u] = Publish(@, th)]
  BY DEF Publishing
<1>2. UNCHANGED <<cur, batch, sent, last>>
  BY DEF Publishing, history
<1>3. CASE t # u
  <2>1. qumsg'[t] = qumsg[t] BY <1>1, <1>3 DEF TypeOK
  <2> QED BY <2>1, <1>2, OrderedFrame
<1>4. CASE t = u
  <2> DEFINE q == qumsg[t]  r == Publish(q, th)
  <2>1. q \in Seq(MsgCell) /\ qumsg'[t] = r
    BY <1>1, <1>4 DEF TypeOK
  <2>2. DOMAIN r = DOMAIN q /\ \A i \in DOMAIN q : r[i].by = q[i].by /\ r[i].n = q[i].n
    BY <2>1, Published
  <2> HIDE DEF r
  <2>3. Rising(qumsg[t])' /\ Pending(qumsg'[t], t, last', sent')
    BY <2>1, <2>2, <1>2 DEF Ordered, Rising, Pending
  <2>4. \A x \in Threads : cur[x] = t =>
          Rising(batch[x])' /\ Before(batch[x], qumsg[t])' /\ Pending(batch'[x], t, last', sent')
    BY <2>1, <2>2, <1>2 DEF Ordered, Rising, Before, Pending
  <2>5. \A from, k : Has(q, from, k) => Has(r, from, k)
    BY <2>2 DEF Has
  <2>6. ASSUME NEW from \in Threads, NEW k \in Nat, last'[t][from] < k, k <= sent'[from][t]
        PROVE  Has(qumsg[t], from, k)' \/ \E x \in Threads : cur'[x] = t /\ Has(batch[x], from, k)'
    <3>1. Has(q, from, k) \/ \E x \in Threads : cur[x] = t /\ Has(batch[x], from, k)
      BY <2>6, <1>2 DEF Ordered
    <3>2. CASE Has(q, from, k)
      <4>1. Has(qumsg'[t], from, k) BY <3>2, <2>1, <2>5
      <4> QED BY <4>1
    <3>3. CASE \E x \in Threads : cur[x] = t /\ Has(batch[x], from, k)
      BY <3>3, <1>2 DEF Has
    <3> QED BY <3>1, <3>2, <3>3
  <2> QED BY <2>3, <2>4, <2>6, <1>2 DEF Ordered
<1> QED
  BY <1>3, <1>4

\* The new message has the highest number of its sender.
LEMMA ClaimingKeeps ==
  ASSUME TypeOK, NEW th \in Threads, NEW u \in Tasks, Claiming(th, u), NEW t \in Tasks, Ordered(t)
  PROVE  Ordered(t)'
<1> DEFINE m == [by |-> th, n |-> sent[th][u] + 1, ready |-> FALSE]
<1>1. /\ qumsg' = [qumsg EXCEPT ![u] = Append(@, m)] /\ sent' = [sent EXCEPT ![th][u] = @ + 1]
      /\ UNCHANGED <<cur, batch, last>>
  BY DEF Claiming, ClaimMessage
<1>2. m \in MsgCell /\ m.by = th /\ m.n = sent[th][u] + 1 /\ sent[th][u] \in Nat
  BY DEF TypeOK, MsgCell
<1>3. sent'[th][u] = sent[th][u] + 1
      /\ \A x \in Threads, v \in Tasks : x # th \/ v # u => sent'[x][v] = sent[x][v]
  BY <1>1 DEF TypeOK
<1> HIDE DEF m
<1>4. CASE t # u
  <2>1. qumsg'[t] = qumsg[t] BY <1>1, <1>4 DEF TypeOK
  <2> QED BY <2>1, <1>1, <1>3, <1>4, OrderedFrame
<1>5. CASE t = u
  <2> DEFINE q == qumsg[t]  r == Append(q, m)
  <2>1. q \in Seq(MsgCell) /\ qumsg'[t] = r
    BY <1>1, <1>5 DEF TypeOK
  <2>2. /\ DOMAIN q = 1 .. Len(q) /\ Len(q) \in Nat /\ DOMAIN r = 1 .. Len(q) + 1
        /\ r[Len(q) + 1] = m /\ \A i \in DOMAIN q : r[i] = q[i]
    BY <2>1, <1>2, Appended
  <2>3. \A i \in DOMAIN q : q[i].by \in Threads /\ q[i].n \in Nat
    BY <2>1, CellIn
  <2>4. \A x \in Threads : last[t][x] \in Nat /\ sent[x][t] \in Nat /\ last[t][x] <= sent[x][t]
    BY DEF TypeOK, Ordered
  <2>5. /\ \A x \in Threads : sent'[x][t] \in Nat /\ sent[x][t] <= sent'[x][t]
        /\ sent'[th][t] = m.n /\ m.n = sent[th][t] + 1
    BY <1>2, <1>3, <1>5, <2>4
  <2> HIDE DEF r
  <2>6. \A i \in DOMAIN q : last[t][q[i].by] < q[i].n /\ q[i].n <= sent[q[i].by][t]
    BY DEF Ordered, Pending
  <2>7. Rising(r)
    <3> SUFFICES ASSUME NEW i \in DOMAIN r, NEW j \in DOMAIN r, i < j, r[i].by = r[j].by
                 PROVE  r[i].n < r[j].n
      BY DEF Rising
    <3>1. i \in DOMAIN q /\ r[i] = q[i] BY <2>2
    <3>2. CASE j \in DOMAIN q
      BY <3>1, <3>2, <2>2 DEF Ordered, Rising
    <3>3. CASE j \notin DOMAIN q
      <4>1. r[j] = m /\ q[i].by = th BY <3>1, <3>3, <2>2, <1>2
      <4>2. q[i].n <= sent[th][t] BY <4>1, <3>1, <2>6
      <4> QED BY <4>1, <4>2, <3>1, <2>3, <2>4, <2>5
    <3> QED BY <3>2, <3>3
  <2>8. Pending(r, t, last', sent')
    <3> SUFFICES ASSUME NEW i \in DOMAIN r
                 PROVE  last[t][r[i].by] < r[i].n /\ r[i].n <= sent'[r[i].by][t]
      BY <1>1 DEF Pending
    <3>1. CASE i \in DOMAIN q
      <4>1. r[i] = q[i] /\ q[i].by \in Threads /\ q[i].n \in Nat BY <3>1, <2>2, <2>3
      <4>2. last[t][q[i].by] < q[i].n /\ q[i].n <= sent[q[i].by][t] BY <3>1, <2>6
      <4>3. /\ sent[q[i].by][t] \in Nat /\ sent'[q[i].by][t] \in Nat
            /\ sent[q[i].by][t] <= sent'[q[i].by][t]
        BY <4>1, <2>4, <2>5
      <4> QED BY <4>1, <4>2, <4>3
    <3>2. CASE i \notin DOMAIN q
      <4>1. r[i] = m BY <3>2, <2>2
      <4> QED BY <4>1, <2>4, <2>5, <1>2
    <3> QED BY <3>1, <3>2
  <2>9. ASSUME NEW x \in Threads, cur[x] = t
        PROVE  Rising(batch[x]) /\ Before(batch[x], r) /\ Pending(batch'[x], t, last', sent')
    <3>1. Rising(batch[x]) /\ Before(batch[x], q) /\ Pending(batch[x], t, last, sent)
      BY <2>9 DEF Ordered
    <3>2. \A i \in DOMAIN batch[x] : batch[x][i].by \in Threads /\ batch[x][i].n \in Nat
      <4>1. batch[x] \in Seq(MsgCell) BY DEF TypeOK
      <4> QED BY <4>1, CellIn
    <3>3. Pending(batch'[x], t, last', sent')
      BY <3>1, <3>2, <2>4, <2>5, <1>1 DEF Pending
    <3>4. Before(batch[x], r)
      <4> SUFFICES ASSUME NEW i \in DOMAIN batch[x], NEW j \in DOMAIN r, batch[x][i].by = r[j].by
                   PROVE  batch[x][i].n < r[j].n
        BY DEF Before
      <4>1. CASE j \in DOMAIN q BY <4>1, <3>1, <2>2 DEF Before
      <4>2. CASE j \notin DOMAIN q
        <5>1. r[j] = m /\ batch[x][i].by = th BY <4>2, <2>2, <1>2
        <5>2. batch[x][i].n <= sent[th][t] BY <5>1, <3>1 DEF Pending
        <5> QED BY <5>1, <5>2, <3>2, <2>4, <2>5
      <4> QED BY <4>1, <4>2
    <3> QED BY <3>1, <3>3, <3>4
  <2>10. ASSUME NEW from \in Threads, NEW k \in Nat, last[t][from] < k, k <= sent'[from][t]
         PROVE  Has(r, from, k) \/ \E x \in Threads : cur[x] = t /\ Has(batch[x], from, k)
    <3>1. CASE k <= sent[from][t]
      <4>1. Has(q, from, k) \/ \E x \in Threads : cur[x] = t /\ Has(batch[x], from, k)
        BY <2>10, <3>1 DEF Ordered
      <4>2. Has(q, from, k) => Has(r, from, k) BY <2>2 DEF Has
      <4> QED BY <4>1, <4>2
    <3>2. CASE k > sent[from][t]
      <4>1. from = th /\ k = m.n
        <5>1. from = th BY <3>2, <2>10, <1>3, <1>5, <2>4
        <5> QED BY <5>1, <3>2, <2>10, <2>4, <2>5
      <4>2. Len(q) + 1 \in DOMAIN r BY <2>2
      <4> QED BY <4>1, <4>2, <2>2, <1>2 DEF Has
    <3> QED BY <3>1, <3>2, <2>4
  <2>11. \A x \in Threads : last[t][x] <= sent'[x][t]
    BY <2>4, <2>5
  <2> HIDE DEF q
  <2>12. Rising(qumsg'[t]) /\ Pending(qumsg'[t], t, last', sent')
    BY <2>1, <2>7, <2>8
  <2> QED BY <2>1, <2>9, <2>10, <2>11, <2>12, <1>1 DEF Ordered
<1> QED
  BY <1>4, <1>5
\* The released task's batch is empty.
LEMMA ReleaseKeeps ==
  ASSUME TypeInv, NEW th \in Threads, Release(th), NEW t \in Tasks, Ordered(t)
  PROVE  Ordered(t)'
<1> TypeOK
  BY DEF TypeInv
<1>1. /\ batch[th] = <<>> /\ cur' = [cur EXCEPT ![th] = None] /\ UNCHANGED <<qumsg, batch, sent, last>>
  BY DEF Release, history
<1>2. \A x \in Threads : cur'[x] = t => cur[x] = t
  BY <1>1, Sets DEF TypeOK
<1>3. \A from, k : ~Has(batch[th], from, k)
  BY <1>1 DEF Has
<1>4. ASSUME NEW from \in Threads, NEW k \in Nat, last[t][from] < k, k <= sent[from][t]
      PROVE  Has(qumsg[t], from, k) \/ \E x \in Threads : cur'[x] = t /\ Has(batch[x], from, k)
  <2>1. Has(qumsg[t], from, k) \/ \E x \in Threads : cur[x] = t /\ Has(batch[x], from, k)
    BY <1>4 DEF Ordered
  <2>2. \A x \in Threads : cur[x] = t /\ Has(batch[x], from, k) => cur'[x] = t
    BY <1>1, <1>3 DEF TypeOK
  <2> QED BY <2>1, <2>2
<1> QED
  BY <1>1, <1>2, <1>4 DEF Ordered

\* So is the batch of a thread that takes a task.
LEMMA TakingKeeps ==
  ASSUME TypeOK, NoBatch, NEW th \in Threads, NEW u \in Tasks, Taking(th, u),
         NEW t \in Tasks, Ordered(t)
  PROVE  Ordered(t)'
<1>1. /\ batch[th] = <<>> /\ cur[th] = None /\ cur' = [cur EXCEPT ![th] = u]
      /\ UNCHANGED <<qumsg, batch, sent, last>>
  BY DEF Taking, NoBatch, history
<1>2. \A x \in Threads : cur'[x] = t => cur[x] = t \/ x = th
  BY <1>1 DEF TypeOK
<1>3. \A x \in Threads : cur[x] = t => cur'[x] = t
  BY <1>1, Sets DEF TypeOK
<1>4. /\ Rising(batch[th]) /\ Before(batch[th], qumsg[t]) /\ Pending(batch[th], t, last, sent)
  BY <1>1 DEF Rising, Before, Pending
<1> QED
  BY <1>1, <1>2, <1>3, <1>4 DEF Ordered

LEMMA PopKeeps ==
  ASSUME TypeInv, OwnInv, NEW th \in Threads, RunPop(th), NEW t \in Tasks, Ordered(t)
  PROVE  Ordered(t)'
<1> TypeOK /\ Control
  BY DEF TypeInv
<1> DEFINE u == cur[th]
<1>1. u \in Tasks
  BY Sets DEF RunPop, Running, Control, ControlOf, HasTask, TypeOK
<1>2. PICK k \in 0 .. MsgBatch :
        /\ Gets(qumsg[u], k, Want(th))
        /\ batch' = [batch EXCEPT ![th] = SubSeq(qumsg[u], 1, k)]
        /\ qumsg' = [qumsg EXCEPT ![u] = Drop(@, k)]
  BY DEF RunPop
<1>3. batch[th] = <<>> /\ UNCHANGED <<cur, sent, last>>
  BY DEF RunPop, history
<1> HIDE DEF u
<1>4. CASE t # u
  <2>1. qumsg'[t] = qumsg[t] /\ \A x \in Threads : cur[x] = t => batch'[x] = batch[x]
    BY <1>1, <1>2, <1>4 DEF TypeOK, u
  <2> QED BY <2>1, <1>3, OrderedFrame
<1>5. CASE t = u
  <2> DEFINE q == qumsg[t]  p == SubSeq(q, 1, k)  r == Drop(q, k)
  <2>1. q \in Seq(MsgCell) /\ k \in 0 .. Len(q)
    <3>1. q \in Seq(MsgCell) BY DEF TypeOK
    <3>2. k \in Nat /\ k <= Len(q) BY <1>2, <1>5, Sets DEF Gets
    <3> QED BY <3>1, <3>2
  <2>2. qumsg'[t] = r /\ batch'[th] = p /\ cur[th] = t
    BY <1>1, <1>2, <1>5 DEF TypeOK, u
  <2>3. \A x \in Threads : cur[x] = t => x = th
    BY <2>2, Sole
  <2>4. Rising(q) /\ Pending(q, t, last, sent)
    BY DEF Ordered
  <2> HIDE DEF q
  <2>5. /\ Rising(p) /\ Rising(r) /\ Before(p, r)
        /\ Pending(p, t, last, sent) /\ Pending(r, t, last, sent)
        /\ \A from, n : Has(q, from, n) => Has(p, from, n) \/ Has(r, from, n)
    BY <2>1, <2>4, SplitOrder
  <2>6. \A from, n : ~Has(batch[th], from, n)
    BY <1>3 DEF Has
  <2> HIDE DEF p, r
  <2>7. ASSUME NEW from \in Threads, NEW n \in Nat, last[t][from] < n, n <= sent[from][t]
        PROVE  Has(r, from, n) \/ Has(p, from, n)
    <3>1. Has(q, from, n) \/ \E x \in Threads : cur[x] = t /\ Has(batch[x], from, n)
      BY <2>7 DEF Ordered, q
    <3> QED BY <3>1, <2>3, <2>5, <2>6
  <2>8. \A x \in Threads : last[t][x] <= sent[x][t]
    BY DEF Ordered
  <2>9. \A x \in Threads : cur'[x] = t <=> x = th
    BY <1>3, <2>2, <2>3
  <2> QED BY <1>3, <2>2, <2>5, <2>7, <2>8, <2>9, OrderedNext
<1> QED
  BY <1>4, <1>5

\* The message handled next is the one after the last of its sender.
LEMMA NextHandled ==
  ASSUME TypeInv, OwnInv, NEW th \in Threads, Dispatch(th), Ordered(cur[th])
  PROVE  /\ cur[th] \in Tasks /\ Head(batch[th]) \in MsgCell /\ Head(batch[th]).by \in Threads
         /\ Head(batch[th]).n = last[cur[th]][Head(batch[th]).by] + 1
         /\ Head(batch[th]).n <= sent[Head(batch[th]).by][cur[th]]
<1> TypeOK /\ Control
  BY DEF TypeInv
<1> DEFINE t == cur[th]  b == batch[th]  m == Head(b)
<1>1. t \in Tasks /\ b \in Seq(MsgCell) /\ b # <<>>
  BY Sets DEF Dispatch, Running, Control, ControlOf, HasTask, TypeOK
<1>2. /\ Rising(b) /\ Before(b, qumsg[t]) /\ Pending(b, t, last, sent)
  BY DEF Ordered
<1> HIDE DEF t, b
<1>3. m = b[1] /\ 1 \in DOMAIN b /\ m \in MsgCell
  BY <1>1, <1>2, TailOrder
<1>4. m.by \in Threads /\ m.n \in Nat /\ last[t][m.by] < m.n /\ m.n <= sent[m.by][t]
  BY <1>2, <1>3 DEF Pending, MsgCell
<1> DEFINE k == last[t][m.by] + 1
<1>5. last[t][m.by] \in Nat /\ sent[m.by][t] \in Nat
  BY <1>1, <1>4 DEF TypeOK
<1>6. k \in Nat /\ last[t][m.by] < k /\ k <= sent[m.by][t] /\ k <= m.n
  BY <1>4, <1>5
<1> HIDE DEF k, m
<1>7. Has(qumsg[t], m.by, k) \/ \E x \in Threads : cur[x] = t /\ Has(batch[x], m.by, k)
  BY <1>4, <1>6 DEF Ordered, t
<1>8. ~Has(qumsg[t], m.by, k)
  <2> SUFFICES ASSUME NEW j \in DOMAIN qumsg[t], qumsg[t][j].by = m.by, qumsg[t][j].n = k PROVE FALSE
    BY DEF Has
  <2>1. m.n < k BY <1>2, <1>3 DEF Before
  <2> QED BY <2>1, <1>4, <1>6
<1>9. Has(b, m.by, k)
  BY <1>1, <1>7, <1>8, Sole DEF t, b
<1>10. PICK i \in DOMAIN b : b[i].by = m.by /\ b[i].n = k
  BY <1>9 DEF Has
<1>11. i \in Nat \ {0}
  BY <1>1
<1>12. i = 1
  <2> SUFFICES ASSUME i > 1 PROVE FALSE
    BY <1>11
  <2>1. m.n < k BY <1>2, <1>3, <1>10 DEF Rising
  <2> QED BY <2>1, <1>4, <1>6
<1>13. m.n = k
  BY <1>3, <1>10, <1>12
<1> QED
  BY <1>1, <1>3, <1>4, <1>13 DEF t, b, m, k
LEMMA DispatchKeeps ==
  ASSUME TypeInv, OwnInv, NEW th \in Threads, Dispatch(th), Ordered(cur[th]),
         NEW t \in Tasks, Ordered(t)
  PROVE  Ordered(t)'
<1> TypeOK
  BY DEF TypeInv
<1> DEFINE u == cur[th]  b == batch[th]  m == Head(b)  r == Tail(b)
<1>1. /\ u \in Tasks /\ m \in MsgCell /\ m.by \in Threads
      /\ m.n = last[u][m.by] + 1 /\ m.n <= sent[m.by][u]
  BY NextHandled
<1>2. /\ b \in Seq(MsgCell) /\ b # <<>> /\ batch' = [batch EXCEPT ![th] = r]
      /\ last' = [last EXCEPT ![u][m.by] = m.n] /\ UNCHANGED <<qumsg, cur, sent>>
  BY DEF Dispatch, TypeOK, queues
<1>3. /\ last'[u][m.by] = m.n /\ batch'[th] = r
      /\ \A v \in Tasks, x \in Threads : v # u \/ x # m.by => last'[v][x] = last[v][x]
      /\ \A x \in Threads : x # th => batch'[x] = batch[x]
  BY <1>1, <1>2 DEF TypeOK
<1>4. Rising(b) /\ Before(b, qumsg[u]) /\ Pending(b, u, last, sent)
  BY DEF Ordered
<1>5. /\ m = b[1] /\ 1 \in DOMAIN b /\ Rising(r)
      /\ \A i \in DOMAIN r : i + 1 \in DOMAIN b /\ i + 1 > 1 /\ r[i] = b[i + 1]
      /\ \A from, n : Has(b, from, n) => Has(r, from, n) \/ (m.by = from /\ m.n = n)
  BY <1>2, <1>4, TailOrder
<1>6. last[u] \in [Threads -> Nat] /\ last'[u] \in [Threads -> Nat]
  <2>1. last[u] \in [Threads -> Nat] BY <1>1 DEF TypeOK
  <2>2. m.n \in Nat BY <1>1 DEF MsgCell
  <2>3. last'[u] = [last[u] EXCEPT ![m.by] = m.n] BY <1>1, <1>2 DEF TypeOK
  <2> QED BY <2>1, <2>2, <2>3
<1>7. cur[th] = u
  OBVIOUS
<1> HIDE DEF u, m, r, b
<1>8. CASE t # u
  <2>1. last'[t] = last[t]
    BY <1>1, <1>2, <1>8 DEF TypeOK
  <2>2. \A x \in Threads : cur[x] = t => batch'[x] = batch[x]
    BY <1>3, <1>7, <1>8
  <2> QED BY <2>1, <2>2, <1>2, OrderedFrame
<1>9. CASE t = u
  <2> DEFINE q == qumsg[t]
  <2>1. Rising(q) /\ Pending(q, t, last, sent) /\ q \in Seq(MsgCell)
    BY DEF Ordered, TypeOK
  <2>2. \A x \in Threads : cur[x] = t => x = th
    BY <1>7, <1>9, Sole
  <2>3. Pending(q, t, last', sent)
    <3> SUFFICES ASSUME NEW i \in DOMAIN q
                 PROVE  last'[t][q[i].by] < q[i].n /\ q[i].n <= sent[q[i].by][t]
      BY DEF Pending
    <3>1. q[i].by \in Threads /\ last[t][q[i].by] < q[i].n /\ q[i].n <= sent[q[i].by][t]
      BY <2>1, CellIn DEF Pending
    <3>2. CASE q[i].by = m.by
      <4>1. m.n < q[i].n BY <3>2, <1>4, <1>5, <1>9 DEF Before
      <4> QED BY <4>1, <3>1, <3>2, <1>3, <1>9
    <3>3. CASE q[i].by # m.by BY <3>1, <3>3, <1>3, <1>9
    <3> QED BY <3>2, <3>3
  <2>4. Pending(r, t, last', sent)
    <3> SUFFICES ASSUME NEW i \in DOMAIN r
                 PROVE  last'[t][r[i].by] < r[i].n /\ r[i].n <= sent[r[i].by][t]
      BY DEF Pending
    <3> DEFINE j == i + 1
    <3>1. j \in DOMAIN b /\ 1 < j /\ r[i] = b[j] BY <1>5
    <3> HIDE DEF j
    <3>2. r[i].by \in Threads /\ last[t][r[i].by] < r[i].n /\ r[i].n <= sent[r[i].by][t]
      BY <3>1, <1>2, <1>4, <1>9, CellIn DEF Pending
    <3>3. CASE r[i].by = m.by
      <4>1. m.n < r[i].n BY <3>1, <3>3, <1>4, <1>5 DEF Rising
      <4> QED BY <4>1, <3>2, <3>3, <1>3, <1>9
    <3>4. CASE r[i].by # m.by BY <3>2, <3>4, <1>3, <1>9
    <3> QED BY <3>3, <3>4
  <2>5. Before(r, q)
    BY <1>4, <1>5, <1>9 DEF Before
  <2>6. ASSUME NEW from \in Threads PROVE last'[t][from] <= sent[from][t]
    <3>1. last[t][from] <= sent[from][t] BY DEF Ordered
    <3> QED BY <3>1, <1>1, <1>3, <1>9
  <2>7. ASSUME NEW from \in Threads, NEW k \in Nat, last'[t][from] < k, k <= sent[from][t]
        PROVE  Has(q, from, k) \/ Has(r, from, k)
    <3>1. last[t][from] < k /\ ~(from = m.by /\ k = m.n)
      <4>1. CASE from = m.by
        <5>1. last[t][from] \in Nat /\ m.n = last[t][from] + 1 /\ m.n < k
          BY <4>1, <2>7, <1>1, <1>3, <1>6, <1>9
        <5> QED BY <5>1
      <4>2. CASE from # m.by BY <4>2, <2>7, <1>3, <1>9
      <4> QED BY <4>1, <4>2
    <3>2. Has(q, from, k) \/ \E x \in Threads : cur[x] = t /\ Has(batch[x], from, k)
      BY <3>1, <2>7 DEF Ordered
    <3> QED BY <3>1, <3>2, <2>2, <1>5 DEF b
  <2> HIDE DEF q
  <2>8. qumsg'[t] = q
    BY <1>2 DEF q
  <2>9. sent' = sent /\ batch'[th] = r /\ \A x \in Threads : cur'[x] = t <=> x = th
    BY <1>2, <1>3, <1>7, <1>9, <2>2
  <2>10. Rising(r)
    BY <1>5
  <2> HIDE <1>2, <1>3, <1>5
  <2> QED BY <2>1, <2>3, <2>4, <2>5, <2>6, <2>7, <2>8, <2>9, <2>10, OrderedNext
<1> QED
  BY <1>8, <1>9

\* A message dispatched at once overtakes none of its sender's.
LEMMA InlineKeeps ==
  ASSUME TypeInv, OwnInv, Emptied, NEW n \in Nets, EmitInline(n), NEW t \in Tasks, Ordered(t)
  PROVE  Ordered(t)'
<1> TypeOK /\ Control
  BY DEF TypeInv
<1> DEFINE u == tgt[n]  c == [by |-> n, n |-> sent[n][u] + 1, ready |-> TRUE]
<1>1. /\ n \in Threads /\ u \in Tasks /\ cur[n] = None /\ global[u] = 0 /\ pc[n] = "try"
  BY Sets DEF EmitInline, Control, ControlOf, HasTask, Posting, TypeOK
<1>2. /\ sent' = [sent EXCEPT ![n][u] = @ + 1] /\ cur' = [cur EXCEPT ![n] = u]
      /\ batch' = [batch EXCEPT ![n] = <<c>>] /\ UNCHANGED <<qumsg, last>>
  BY DEF EmitInline
<1>3. c.by = n /\ c.n = sent[n][u] + 1 /\ sent[n][u] \in Nat
  BY <1>1 DEF TypeOK
<1>4. \A i \in DOMAIN qumsg[u] : qumsg[u][i].by # n
  BY <1>1 DEF Emptied
<1>5. \A x \in Threads : cur[x] # u
  BY <1>1 DEF OwnInv, OwnOf, Placed, Runs
<1> HIDE DEF u, c
<1>6. /\ sent'[n][u] = sent[n][u] + 1 /\ batch'[n] = <<c>> /\ cur'[n] = u
      /\ \A x \in Threads, v \in Tasks : x # n \/ v # u => sent'[x][v] = sent[x][v]
      /\ \A x \in Threads : x # n => batch'[x] = batch[x] /\ cur'[x] = cur[x]
  BY <1>1, <1>2 DEF TypeOK
<1>7. CASE t # u
  <2>1. \A x \in Threads : (cur'[x] = t <=> cur[x] = t) /\ (cur[x] = t => batch'[x] = batch[x])
    BY <1>1, <1>6, <1>7, Sets
  <2> QED BY <2>1, <1>2, <1>6, <1>7, OrderedFrame
<1>8. CASE t = u
  <2> DEFINE q == qumsg[t]
  <2>1. Rising(q) /\ Pending(q, t, last, sent) /\ q \in Seq(MsgCell)
    BY DEF Ordered, TypeOK
  <2>2. \A x \in Threads : cur'[x] = t <=> x = n
    BY <1>5, <1>6, <1>8, <1>1
  <2>3. last[t][n] = sent[n][t]
    <3>1. last[t][n] \in Nat /\ sent[n][t] \in Nat /\ last[t][n] <= sent[n][t]
      BY <1>1 DEF TypeOK, Ordered
    <3> DEFINE k == last[t][n] + 1
    <3>2. ~Has(q, n, k) /\ ~\E x \in Threads : cur[x] = t /\ Has(batch[x], n, k)
      BY <1>4, <1>5, <1>8 DEF Has
    <3>3. ~(k <= sent[n][t])
      BY <1>1, <3>1, <3>2 DEF Ordered
    <3> QED BY <3>1, <3>3
  <2>4. \A i \in DOMAIN q : q[i].by \in Threads
    BY <2>1, CellIn
  <2>5. Pending(q, t, last, sent')
    BY <2>1, <2>4, <1>4, <1>6, <1>8 DEF Pending
  <2>6. Rising(<<c>>) /\ Before(<<c>>, q) /\ Pending(<<c>>, t, last, sent')
    <3>1. DOMAIN <<c>> = {1} /\ <<c>>[1] = c OBVIOUS
    <3>2. Rising(<<c>>) BY <3>1 DEF Rising
    <3>3. Before(<<c>>, q) BY <3>1, <1>3, <1>4, <1>8 DEF Before
    <3>4. Pending(<<c>>, t, last, sent') BY <3>1, <1>3, <1>6, <1>8, <2>3 DEF Pending
    <3> QED BY <3>2, <3>3, <3>4
  <2>7. ASSUME NEW from \in Threads PROVE last[t][from] <= sent'[from][t]
    BY <1>3, <1>6, <1>8, <2>3 DEF Ordered
  <2>8. ASSUME NEW from \in Threads, NEW k \in Nat, last[t][from] < k, k <= sent'[from][t]
        PROVE  Has(q, from, k) \/ Has(<<c>>, from, k)
    <3>1. CASE from = n
      <4>1. k = c.n BY <3>1, <2>8, <2>3, <1>3, <1>6, <1>8
      <4> QED BY <4>1, <3>1, <1>3 DEF Has
    <3>2. CASE from # n
      <4>1. Has(q, from, k) \/ \E x \in Threads : cur[x] = t /\ Has(batch[x], from, k)
        BY <3>2, <2>8, <1>6 DEF Ordered
      <4> QED BY <4>1, <1>5, <1>8
    <3> QED BY <3>1, <3>2
  <2> HIDE DEF q
  <2>9. qumsg'[t] = q
    BY <1>2 DEF q
  <2>10. last' = last /\ batch'[n] = <<c>> /\ n \in Threads
    BY <1>1, <1>2, <1>6
  <2> QED BY <2>1, <2>2, <2>5, <2>6, <2>7, <2>8, <2>9, <2>10, OrderedNext
<1> QED
  BY <1>7, <1>8
-----------------------------------------------------------------------------
(* The invariant holds. *)

LEMMA OrderedStep ==
  ASSUME MailInv, [Next]_vars, NEW t \in Tasks
  PROVE  Ordered(t)'
<1> /\ TypeInv /\ OwnInv /\ NoBatch /\ Emptied /\ \A u \in Tasks : Ordered(u)
    /\ TypeOK /\ Control
  BY DEF MailInv, TypeInv
<1>1. CASE Silent
  BY <1>1, OrderedFrame DEF Silent, history
<1>2. ASSUME NEW th \in Threads, Effect(th) PROVE Ordered(t)'
  <2>1. Running(th) => cur[th] \in Tasks
    BY Sets DEF Running, Control, ControlOf, HasTask, TypeOK
  <2>2. CASE Publishing(th) BY <2>2, PublishingKeeps
  <2>3. CASE Release(th) BY <2>3, ReleaseKeeps
  <2>4. CASE RunPop(th) BY <2>4, PopKeeps
  <2>5. CASE Dispatch(th) BY <2>1, <2>5, DispatchKeeps DEF Dispatch
  <2>6. CASE \E u \in Tasks : Claiming(th, u) BY <2>6, ClaimingKeeps
  <2>7. CASE \E u \in Tasks : Taking(th, u) BY <2>7, TakingKeeps
  <2>8. CASE th \in Nets /\ EmitInline(th) BY <2>8, InlineKeeps
  <2> QED BY <1>2, <2>2, <2>3, <2>4, <2>5, <2>6, <2>7, <2>8 DEF Effect
<1> QED
  BY <1>1, <1>2, Effects

LEMMA NoBatchStep ==
  ASSUME MailInv, [Next]_vars
  PROVE  NoBatch'
<1> TypeInv /\ OwnInv /\ NoBatch /\ TypeOK /\ Control
  BY DEF MailInv, TypeInv
<1>1. CASE Silent
  BY <1>1 DEF Silent, NoBatch
<1>2. ASSUME NEW th \in Threads, Effect(th) PROVE NoBatch'
  <2>1. Running(th) => cur[th] # None
    BY DEF Running, Control, ControlOf, HasTask
  <2>2. CASE Publishing(th) BY <2>2 DEF Publishing, NoBatch
  <2>3. CASE Release(th) BY <2>3 DEF Release, NoBatch, TypeOK
  <2>4. CASE RunPop(th)
    <3>1. cur' = cur /\ \A x \in Threads : x # th => batch'[x] = batch[x]
      BY <2>4 DEF RunPop, TypeOK
    <3> QED BY <3>1, <2>1, <2>4 DEF RunPop, NoBatch
  <2>5. CASE Dispatch(th)
    <3>1. cur' = cur /\ \A x \in Threads : x # th => batch'[x] = batch[x]
      BY <2>5 DEF Dispatch, TypeOK
    <3> QED BY <3>1, <2>1, <2>5 DEF Dispatch, NoBatch
  <2>6. CASE \E u \in Tasks : Claiming(th, u) BY <2>6 DEF Claiming, NoBatch
  <2>7. CASE \E u \in Tasks : Taking(th, u) BY <2>7, Sets DEF Taking, NoBatch, TypeOK
  <2>8. CASE th \in Nets /\ EmitInline(th)
    <3>1. tgt[th] \in Tasks
      BY <2>8 DEF EmitInline, Control, ControlOf, TypeOK
    <3>2. cur'[th] = tgt[th] /\ \A x \in Threads : x # th => batch'[x] = batch[x] /\ cur'[x] = cur[x]
      BY <2>8 DEF EmitInline, TypeOK
    <3> QED BY <3>1, <3>2, Sets DEF NoBatch
  <2> QED BY <1>2, <2>2, <2>3, <2>4, <2>5, <2>6, <2>7, <2>8 DEF Effect
<1> QED
  BY <1>1, <1>2, Effects

\* Only the thread itself comes to try the inline path, and it finds the queue empty.
LEMMA Trying ==
  ASSUME TypeInv, [Next]_vars, NEW n \in Nets, pc'[n] = "try"
  PROVE  EmitTryInline(n) \/ (pc[n] = "try" /\ tgt'[n] = tgt[n])
<1> TypeOK /\ Control
  BY DEF TypeInv
<1> USE Sets DEF TypeOK, queues, waiters, ending, round, history, windows, Goto
<1>1. ASSUME NEW th \in Threads, Post(th) PROVE pc[n] = "try" /\ tgt'[n] = tgt[n]
  <2>1. CASE \E t \in Tasks : PostClaim(th, t) BY <2>1 DEF PostClaim
  <2>2. CASE PostPublish(th) \/ Activate(th) BY <2>2 DEF PostPublish, Activate
  <2>3. CASE AlreadyActive(th) \/ ScheduleNet(th)
    BY <2>3, Returning DEF AlreadyActive, ScheduleNet
  <2>4. CASE (\E w \in Workers : ScheduleWorker(th, w)) \/ TaskqPublish(th)
    BY <2>4 DEF ScheduleWorker, TaskqPublish
  <2>5. CASE MarkWaking(th) \/ WakeEpoch(th) BY <2>5 DEF MarkWaking, WakeEpoch
  <2>6. CASE NoWakeNeeded(th) BY <2>6, Returning DEF NoWakeNeeded
  <2>7. CASE FutexWake(th) BY <2>7 DEF FutexWake, ReturnPoint
  <2> QED BY <1>1, <2>1, <2>2, <2>3, <2>4, <2>5, <2>6, <2>7 DEF Post
<1>2. ASSUME NEW th \in Threads, RunTask(th) PROVE pc[n] = "try" /\ tgt'[n] = tgt[n]
  <2>1. CASE RunSize(th) \/ RunPop(th) \/ Dispatch(th) BY <2>1 DEF RunSize, RunPop, Dispatch
  <2>2. CASE Release(th) \/ ReleaseCheck(th) BY <2>2 DEF Release, ReleaseCheck
  <2>3. CASE ReleaseDone(th) BY <2>3, Returning DEF ReleaseDone
  <2> QED BY <1>2, <2>1, <2>2, <2>3 DEF RunTask
<1>3. ASSUME NEW w \in Workers, WorkerLoop(w) \/ SpuriousWake(w)
      PROVE  pc[n] = "try" /\ tgt'[n] = tgt[n]
  <2>1. tgt' = tgt /\ pc'[n] = pc[n]
    <3>1. CASE TakeOwn(w) \/ \E v \in Workers : Steal(w, v) BY <3>1 DEF TakeOwn, Steal, TakeFrom
    <3>2. CASE OwnFails(w) \/ NoTask(w) \/ LookAgain(w) BY <3>2 DEF OwnFails, NoTask, LookAgain
    <3>3. CASE PrepareSeen(w) \/ PrepareShow(w) \/ SleepRecheck(w)
      BY <3>3 DEF PrepareSeen, PrepareShow, SleepRecheck
    <3>4. CASE Commit(w) \/ Awaken(w) \/ WorkerExit(w) \/ SpuriousWake(w)
      BY <3>4 DEF Commit, Awaken, WorkerExit, SpuriousWake
    <3> QED BY <1>3, <3>1, <3>2, <3>3, <3>4 DEF WorkerLoop
  <2> QED BY <2>1
<1>4. ASSUME NEW m \in Nets, NetLoop(m) \/ NetMay(m), ~EmitTryInline(n)
      PROVE  pc[n] = "try" /\ tgt'[n] = tgt[n]
  <2>1. CASE DeferTake(m) \/ EmitLost(m) BY <2>1 DEF DeferTake, EmitLost
  <2>2. CASE EmitTryInline(m)
    <3>1. m # n BY <2>2, <1>4
    <3> QED BY <2>2, <3>1 DEF EmitTryInline
  <2>3. CASE \E t \in Tasks : EmitBegin(m, t) BY <2>3 DEF EmitBegin
  <2>4. CASE EmitInline(m) BY <2>4 DEF EmitInline
  <2>5. CASE EmitClaim(m) BY <2>5 DEF EmitClaim
  <2>6. CASE EmitPublish(m) BY <2>6 DEF EmitPublish
  <2>7. CASE EmitEnd(m) BY <2>7 DEF EmitEnd
  <2>8. CASE EmitEndEmpty(m) BY <2>8 DEF EmitEndEmpty
  <2> QED BY <1>4, <2>1, <2>2, <2>3, <2>4, <2>5, <2>6, <2>7, <2>8 DEF NetLoop, NetMay
<1>5. CASE \/ \E t \in Tasks, b \in Nets \cup {None} : Rebind(t, b)
           \/ LoaderStop
           \/ \E w \in Workers : WakeupAll(w) \/ WakeupSkip(w)
           \/ Joined \/ UNCHANGED vars
  <2>1. CASE \E t \in Tasks, b \in Nets \cup {None} : Rebind(t, b) BY <2>1 DEF Rebind
  <2>2. CASE LoaderStop \/ Joined \/ UNCHANGED vars BY <2>2 DEF LoaderStop, Joined, vars
  <2>3. CASE \E w \in Workers : WakeupAll(w) \/ WakeupSkip(w) BY <2>3 DEF WakeupAll, WakeupSkip
  <2> QED BY <1>5, <2>1, <2>2, <2>3
<1> QED
  BY <1>1, <1>2, <1>3, <1>4, <1>5 DEF Next
LEMMA EmptiedStep ==
  ASSUME MailInv, [Next]_vars
  PROVE  Emptied'
<1> /\ TypeInv /\ OwnInv /\ Emptied /\ TypeOK /\ Control
  BY DEF MailInv, TypeInv
<1> SUFFICES ASSUME NEW n \in Nets, pc'[n] = "try"
             PROVE  \A i \in DOMAIN qumsg'[tgt'[n]] : qumsg'[tgt'[n]][i].by # n
  BY DEF Emptied
<1>1. CASE EmitTryInline(n)
  <2>1. tgt'[n] = Target(n) /\ qumsg' = qumsg /\ qumsg[Target(n)] = <<>>
    BY <1>1, Sets DEF EmitTryInline, queues, TypeOK
  <2> QED BY <2>1
<1>2. CASE pc[n] = "try" /\ tgt'[n] = tgt[n]
  <2> DEFINE u == tgt[n]  q == qumsg[u]
  <2>1. u \in Tasks /\ q \in Seq(MsgCell)
    BY <1>2, Sets DEF Control, ControlOf, TypeOK
  <2>2. \A i \in DOMAIN q : q[i].by # n
    BY <1>2 DEF Emptied
  <2>3. tgt'[n] = u
    BY <1>2
  <2> HIDE DEF u
  <2>4. CASE qumsg'[u] = qumsg[u]
    BY <2>2, <2>3, <2>4
  <2>5. ASSUME NEW th \in Threads, Publishing(th)
        PROVE  \A i \in DOMAIN qumsg'[u] : qumsg'[u][i].by # n
    <3>1. PICK t \in Tasks : qumsg' = [qumsg EXCEPT ![t] = Publish(@, th)]
      BY <2>5 DEF Publishing
    <3>2. CASE t # u BY <3>1, <3>2, <2>1, <2>2 DEF TypeOK
    <3>3. CASE t = u
      <4>1. qumsg'[u] = Publish(q, th) BY <3>1, <3>3, <2>1 DEF TypeOK
      <4> QED BY <4>1, <2>1, <2>2, Published
    <3> QED BY <3>2, <3>3
  <2>6. ASSUME NEW th \in Threads, RunPop(th)
        PROVE  \A i \in DOMAIN qumsg'[u] : qumsg'[u][i].by # n
    <3>1. PICK k \in 0 .. MsgBatch : /\ Gets(qumsg[cur[th]], k, Want(th))
                                     /\ qumsg' = [qumsg EXCEPT ![cur[th]] = Drop(@, k)]
      BY <2>6 DEF RunPop
    <3>2. CASE cur[th] # u BY <3>1, <3>2, <2>1, <2>2 DEF TypeOK
    <3>3. CASE cur[th] = u
      <4>1. qumsg'[u] = Drop(q, k) /\ k \in 0 .. Len(q)
        <5>1. qumsg'[u] = Drop(q, k) BY <3>1, <3>3, <2>1 DEF TypeOK
        <5>2. k \in Nat /\ k <= Len(q) BY <3>1, <3>3, Sets DEF Gets
        <5> QED BY <5>1, <5>2, <2>1
      <4> DEFINE l == Len(q)  r == Drop(q, k)
      <4>2. /\ DOMAIN q = 1 .. l /\ l \in Nat /\ DOMAIN r = 1 .. l - k
            /\ \A i \in 1 .. l - k : r[i] = q[i + k]
        BY <4>1, <2>1, Split
      <4> HIDE DEF l, r, q
      <4>3. \A i \in DOMAIN r : r[i].by # n
        BY <4>1, <4>2, <2>2 DEF l
      <4> QED BY <4>1, <4>3 DEF r
    <3> QED BY <3>2, <3>3
  <2>7. ASSUME NEW th \in Threads, NEW t \in Tasks, Claiming(th, t)
        PROVE  \A i \in DOMAIN qumsg'[u] : qumsg'[u][i].by # n
    <3> DEFINE m == [by |-> th, n |-> sent[th][t] + 1, ready |-> FALSE]
    <3>1. th # n /\ qumsg' = [qumsg EXCEPT ![t] = Append(@, m)]
      BY <2>7 DEF Claiming, ClaimMessage
    <3>2. m \in MsgCell /\ m.by = th
      BY DEF TypeOK, MsgCell
    <3> HIDE DEF m
    <3>3. CASE t # u BY <3>1, <3>3, <2>1, <2>2 DEF TypeOK
    <3>4. CASE t = u
      <4>1. qumsg'[u] = Append(q, m) BY <3>1, <3>4, <2>1 DEF TypeOK
      <4> DEFINE l == Len(q)  r == Append(q, m)
      <4>2. /\ DOMAIN q = 1 .. l /\ l \in Nat /\ DOMAIN r = 1 .. l + 1
            /\ r[l + 1] = m /\ \A i \in DOMAIN q : r[i] = q[i]
        BY <2>1, <3>2, Appended
      <4> HIDE DEF l, r, q
      <4>3. \A i \in DOMAIN r : i \in DOMAIN q \/ i = l + 1
        BY <4>2
      <4>4. \A i \in DOMAIN r : r[i].by # n
        BY <4>2, <4>3, <2>2, <3>1, <3>2
      <4> QED BY <4>1, <4>4 DEF r
    <3> QED BY <3>3, <3>4
  <2>8. CASE Silent
    BY <2>4, <2>8 DEF Silent
  <2>9. ASSUME NEW th \in Threads, Effect(th)
        PROVE  \A i \in DOMAIN qumsg'[u] : qumsg'[u][i].by # n
    <3>1. CASE Release(th) \/ Dispatch(th) \/ (th \in Nets /\ EmitInline(th))
      BY <2>4, <3>1, <2>3 DEF Release, Dispatch, EmitInline, queues
    <3>2. CASE \E t \in Tasks : Taking(th, t)
      BY <2>4, <3>2, <2>3 DEF Taking
    <3> QED BY <2>5, <2>6, <2>7, <2>9, <3>1, <3>2 DEF Effect
  <2> QED BY <2>3, <2>8, <2>9, Effects
<1> QED
  BY <1>1, <1>2, Trying

-----------------------------------------------------------------------------
(* The refinement. *)

LEMMA RunnerIs ==
  ASSUME OwnInv, NEW t \in Tasks, NEW x \in Threads, cur[x] = t
  PROVE  RunnerOf(t) = x
<1>1. \A y \in Threads : cur[y] = t => y = x
  BY Sole
<1> QED
  BY <1>1 DEF RunnerOf

LEMMA RunnerNone ==
  ASSUME NEW t \in Tasks, \A x \in Threads : cur[x] # t
  PROVE  RunnerOf(t) = None
BY DEF RunnerOf

LEMMA RunnerFrame ==
  ASSUME OwnInv, OwnInv', NEW t \in Tasks, \A x \in Threads : cur'[x] = t <=> cur[x] = t
  PROVE  RunnerOf(t)' = RunnerOf(t)
<1>1. CASE \A x \in Threads : cur[x] # t
  BY <1>1 DEF RunnerOf
<1>2. ASSUME NEW x \in Threads, cur[x] = t PROVE RunnerOf(t)' = RunnerOf(t)
  <2>1. \A y \in Threads : cur[y] = t => y = x
    BY <1>2, Sole
  <2>2. \A y \in Threads : cur'[y] = t => y = x
    BY <2>1
  <2>3. RunnerOf(t) = x /\ RunnerOf(t)' = x
    BY <1>2, <2>1, <2>2 DEF RunnerOf
  <2> QED BY <2>3
<1> QED
  BY <1>1, <1>2

LEMMA NoneApart == None \notin Threads
BY SchedAssumption DEF SchedAssumption

\* A thread is the runner of its own task only.
LEMMA RunnerOnly ==
  ASSUME NEW t \in Tasks, NEW x \in Threads, cur[x] # t
  PROVE  RunnerOf(t) # x
BY NoneApart DEF RunnerOf

LEMMA TakingRefines ==
  ASSUME TypeOK, OwnInv, OwnInv', NEW th \in Threads, NEW u \in Tasks,
         cur[th] = None, \A x \in Threads : cur[x] # u, cur' = [cur EXCEPT ![th] = u]
  PROVE  /\ RunnerOf(u) = None /\ \A t \in Tasks : RunnerOf(t) # th
         /\ \A t \in Tasks : RunnerOf(t)' = IF t = u THEN th ELSE RunnerOf(t)
<1>1. RunnerOf(u) = None
  BY RunnerNone
<1>2. \A t \in Tasks : RunnerOf(t) # th
  BY RunnerOnly, Sets
<1>3. cur'[th] = u /\ \A x \in Threads : x # th => cur'[x] = cur[x]
  BY DEF TypeOK
<1>4. ASSUME NEW t \in Tasks, t # u PROVE RunnerOf(t)' = RunnerOf(t)
  <2>1. \A x \in Threads : cur'[x] = t <=> cur[x] = t
    BY <1>3, <1>4, Sets
  <2> QED BY <2>1, RunnerFrame
<1>5. RunnerOf(u)' = th
  <2>1. \A x \in Threads : cur'[x] = u <=> x = th
    BY <1>3
  <2> QED BY <2>1 DEF RunnerOf
<1> QED
  BY <1>1, <1>2, <1>4, <1>5

LEMMA ReleaseRefines ==
  ASSUME TypeInv, OwnInv, OwnInv', NEW th \in Threads, Release(th)
  PROVE  \E u \in Tasks : M!Stop(u)
<1> TypeOK /\ Control
  BY DEF TypeInv
<1>0. PICK u \in Tasks : u = cur[th]
  BY Sets DEF Release, Running, Control, ControlOf, HasTask, TypeOK
<1>1. cur[th] = u /\ cur' = [cur EXCEPT ![th] = None] /\ sent' = sent /\ last' = last
  BY <1>0 DEF Release, history
<1>2. RunnerOf(u) = th
  BY <1>1, RunnerIs
<1>3. cur'[th] = None /\ \A x \in Threads : x # th => cur'[x] = cur[x]
  BY <1>1 DEF TypeOK
<1>4. RunnerOf(u)' = None
  <2>1. \A x \in Threads : cur[x] = u => x = th
    BY <1>1, Sole
  <2>2. \A x \in Threads : cur'[x] # u
    BY <2>1, <1>1, <1>3, Sets
  <2> QED BY <2>2 DEF RunnerOf
<1>5. ASSUME NEW t \in Tasks, t # u PROVE RunnerOf(t)' = RunnerOf(t)
  <2>1. \A x \in Threads : cur'[x] = t <=> cur[x] = t
    BY <1>1, <1>3, <1>5, Sets
  <2> QED BY <2>1, RunnerFrame
<1>6. \A t \in Tasks : RunnerOf(t)' = IF t = u THEN None ELSE RunnerOf(t)
  BY <1>4, <1>5
<1> QED
  BY <1>1, <1>2, <1>6, NoneApart DEF M!Stop

LEMMA DispatchRefines ==
  ASSUME TypeInv, OwnInv, OwnInv', NEW th \in Threads, Dispatch(th), Ordered(cur[th])
  PROVE  \E t \in Tasks, from \in Threads : M!Handle(t, from)
<1> TypeOK
  BY DEF TypeInv
<1> DEFINE t == cur[th]  m == Head(batch[th])
<1>1. /\ t \in Tasks /\ m \in MsgCell /\ m.by \in Threads
      /\ m.n = last[t][m.by] + 1 /\ m.n <= sent[m.by][t]
  BY NextHandled
<1>2. last' = [last EXCEPT ![t][m.by] = m.n] /\ sent' = sent /\ cur' = cur
  BY DEF Dispatch
<1>3. RunnerOf(t) = th
  BY <1>1, RunnerIs
<1> HIDE DEF t, m
<1>4. \A u \in Tasks : RunnerOf(u)' = RunnerOf(u)
  BY <1>2, RunnerFrame
<1>5. last[t][m.by] \in Nat /\ sent[m.by][t] \in Nat
  BY <1>1 DEF TypeOK
<1>6. last[t][m.by] < sent[m.by][t] /\ last' = [last EXCEPT ![t][m.by] = @ + 1]
  BY <1>1, <1>2, <1>5
<1> QED
  BY <1>1, <1>2, <1>3, <1>4, <1>6, NoneApart DEF M!Handle

LEMMA StepRefines ==
  ASSUME MailInv, OwnInv', [Next]_vars
  PROVE  [M!Next]_(M!mvars)
<1> /\ TypeInv /\ OwnInv /\ \A t \in Tasks : Ordered(t)
    /\ TypeOK /\ Control
  BY DEF MailInv, TypeInv
<1>1. ASSUME cur' = cur PROVE \A t \in Tasks : RunnerOf(t)' = RunnerOf(t)
  BY <1>1, RunnerFrame
<1>2. ASSUME cur' = cur, sent' = sent, last' = last PROVE UNCHANGED M!mvars
  BY <1>1, <1>2 DEF M!mvars
<1>3. CASE Silent
  BY <1>2, <1>3 DEF Silent, history
<1>4. ASSUME NEW th \in Threads, Effect(th) PROVE [M!Next]_(M!mvars)
  <2>1. CASE Publishing(th) \/ RunPop(th)
    BY <1>2, <2>1 DEF Publishing, RunPop, history
  <2>2. CASE Release(th)
    BY <2>2, ReleaseRefines DEF M!Next
  <2>3. CASE Dispatch(th)
    <3>1. cur[th] \in Tasks
      BY <2>3, Sets DEF Dispatch, Running, Control, ControlOf, HasTask, TypeOK
    <3> QED BY <2>3, <3>1, DispatchRefines DEF M!Next
  <2>4. ASSUME NEW t \in Tasks, Claiming(th, t) PROVE [M!Next]_(M!mvars)
    <3>1. M!Post(th, t)
      BY <1>1, <2>4 DEF Claiming, ClaimMessage, M!Post
    <3> QED BY <3>1 DEF M!Next
  <2>5. ASSUME NEW t \in Tasks, Taking(th, t) PROVE [M!Next]_(M!mvars)
    <3>1. sent' = sent /\ last' = last /\ cur[th] = None /\ cur' = [cur EXCEPT ![th] = t]
          /\ \A x \in Threads : cur[x] # t
      BY <2>5 DEF Taking, history
    <3>2. M!Start(th, t)
      BY <3>1, TakingRefines DEF M!Start
    <3> QED BY <3>2 DEF M!Next
  <2>6. CASE th \in Nets /\ EmitInline(th)
    <3>1. PICK u \in Tasks : u = tgt[th] /\ cur[th] = None /\ global[u] = 0
      BY <2>6, Sets DEF EmitInline, Control, ControlOf, HasTask, Posting, TypeOK
    <3>2. /\ sent' = [sent EXCEPT ![th][u] = @ + 1] /\ last' = last
          /\ cur' = [cur EXCEPT ![th] = u]
      BY <2>6, <3>1 DEF EmitInline
    <3>3. \A x \in Threads : cur[x] # u
      BY <3>1 DEF OwnInv, OwnOf, Placed, Runs
    <3>4. M!PostAndStart(th, u)
      BY <3>1, <3>2, <3>3, TakingRefines DEF M!PostAndStart
    <3> QED BY <3>1, <3>4 DEF M!Next
  <2> QED BY <1>4, <2>1, <2>2, <2>3, <2>4, <2>5, <2>6 DEF Effect
<1> QED
  BY <1>3, <1>4, Effects

LEMMA MailInit == Init => MailInv
<1> SUFFICES ASSUME Init PROVE MailInv
  OBVIOUS
<1>1. TypeInv /\ OwnInv
  BY TypeInit, OwnInit
<1>2. NoBatch /\ Emptied
  BY Sets DEF Init, NoBatch, Emptied
<1>3. ASSUME NEW t \in Tasks PROVE Ordered(t)
  <2>1. /\ qumsg[t] = <<>> /\ \A x \in Threads : cur[x] = None /\ last[t][x] = 0 /\ sent[x][t] = 0
    BY DEF Init
  <2> QED BY <2>1, Sets DEF Ordered, Rising, Pending
<1> QED
  BY <1>1, <1>2, <1>3 DEF MailInv

LEMMA MailNext == MailInv /\ [Next]_vars => MailInv'
<1> SUFFICES ASSUME MailInv, [Next]_vars PROVE MailInv'
  OBVIOUS
<1>1. (TypeInv /\ OwnInv)'
  BY TypeNext, OwnNext DEF MailInv
<1>2. \A t \in Tasks : Ordered(t)'
  BY OrderedStep
<1> QED
  BY <1>1, <1>2, NoBatchStep, EmptiedStep DEF MailInv

LEMMA Ordering == Spec => []MailInv
<1> QED
  BY MailInit, MailNext, PTL DEF Spec

LEMMA JoinOrder ==
  ASSUME NEW p \in Seq(MsgCell), NEW q \in Seq(MsgCell), Rising(p), Rising(q), Before(p, q)
  PROVE  /\ Rising(p \o q)
         /\ \A from, n : Has(p, from, n) \/ Has(q, from, n) => Has(p \o q, from, n)
         /\ \A t, d, s : Pending(p, t, d, s) /\ Pending(q, t, d, s) => Pending(p \o q, t, d, s)
<1> DEFINE r == p \o q  k == Len(p)  l == Len(q)
<1>1. /\ DOMAIN p = 1 .. k /\ k \in Nat /\ DOMAIN q = 1 .. l /\ l \in Nat
  BY LenProperties
<1>2. /\ DOMAIN r = 1 .. k + l
      /\ \A i \in 1 .. k + l : r[i] = IF i <= k THEN p[i] ELSE q[i - k]
  BY <1>1, ConcatProperties, LenProperties
<1> HIDE DEF r, k, l
<1>3. \A i \in DOMAIN p : i \in DOMAIN r /\ r[i] = p[i]
  BY <1>1, <1>2
<1>4. ASSUME NEW j \in DOMAIN q PROVE j + k \in DOMAIN r /\ r[j + k] = q[j]
  <2>1. j + k \in 1 .. k + l /\ ~(j + k <= k) /\ (j + k) - k = j BY <1>1
  <2> QED BY <2>1, <1>2
<1>5. ASSUME NEW i \in DOMAIN r, i \notin DOMAIN p
      PROVE  i - k \in DOMAIN q /\ r[i] = q[i - k]
  <2>1. ~(i <= k) /\ i - k \in 1 .. l BY <1>1, <1>2, <1>5
  <2> QED BY <2>1, <1>1, <1>2
<1>6. Rising(r)
  <2> SUFFICES ASSUME NEW i \in DOMAIN r, NEW j \in DOMAIN r, i < j, r[i].by = r[j].by
               PROVE  r[i].n < r[j].n
    BY DEF Rising
  <2>1. CASE j \in DOMAIN p
    <3>1. i \in DOMAIN p BY <2>1, <1>1, <1>2
    <3> QED BY <2>1, <3>1, <1>3 DEF Rising
  <2>2. CASE i \in DOMAIN p /\ j \notin DOMAIN p
    BY <2>2, <1>3, <1>5 DEF Before
  <2>3. CASE i \notin DOMAIN p /\ j \notin DOMAIN p
    <3>1. i - k < j - k BY <1>1, <1>2
    <3> QED BY <2>3, <3>1, <1>5 DEF Rising
  <2> QED BY <2>1, <2>2, <2>3
<1>7. ASSUME NEW from, NEW n, Has(p, from, n) \/ Has(q, from, n) PROVE Has(r, from, n)
  <2>1. CASE Has(p, from, n) BY <2>1, <1>3 DEF Has
  <2>2. CASE Has(q, from, n) BY <2>2, <1>4 DEF Has
  <2> QED BY <1>7, <2>1, <2>2
<1>8. ASSUME NEW t, NEW d, NEW s, Pending(p, t, d, s), Pending(q, t, d, s)
      PROVE  Pending(r, t, d, s)
  <2> SUFFICES ASSUME NEW i \in DOMAIN r PROVE d[t][r[i].by] < r[i].n /\ r[i].n <= s[r[i].by][t]
    BY DEF Pending
  <2>1. CASE i \in DOMAIN p BY <2>1, <1>3, <1>8 DEF Pending
  <2>2. CASE i \notin DOMAIN p
    <3> DEFINE j == i - k
    <3>1. j \in DOMAIN q /\ r[i] = q[j] BY <2>2, <1>5
    <3> HIDE DEF j
    <3> QED BY <3>1, <1>8 DEF Pending
  <2> QED BY <2>1, <2>2
<1> QED
  BY <1>6, <1>7, <1>8 DEF r

\* Every message is handled once and in its sender's order, also one dispatched at once
\* beside the queue (task.c:550-575).
THEOREM InOrderOnceCorrect == Spec => []InOrderOnce
<1>1. ASSUME MailInv PROVE InOrderOnce
  <2> /\ TypeOK /\ OwnInv /\ \A t \in Tasks : Ordered(t)
    BY <1>1 DEF MailInv, TypeInv
  <2> SUFFICES ASSUME NEW t \in Tasks, NEW from \in Threads
               PROVE  LET q    == Unhandled(t)
                          mine == {i \in DOMAIN q : q[i].by = from}
                      IN  /\ {q[i].n : i \in mine} = last[t][from] + 1 .. sent[from][t]
                          /\ \A i, j \in mine : i < j => q[i].n < q[j].n
    BY DEF InOrderOnce
  <2> DEFINE p == IF RunnerOf(t) = None THEN <<>> ELSE batch[RunnerOf(t)]
             r == Unhandled(t)
  <2>1. /\ p \in Seq(MsgCell) /\ Rising(p) /\ Before(p, qumsg[t]) /\ Pending(p, t, last, sent)
        /\ \A k : (\E x \in Threads : cur[x] = t /\ Has(batch[x], from, k)) => Has(p, from, k)
    <3>1. CASE \A x \in Threads : cur[x] # t
      <4>1. p = <<>> BY <3>1, RunnerNone
      <4> HIDE DEF p
      <4> QED BY <3>1, <4>1 DEF Rising, Before, Pending
    <3>2. ASSUME NEW x \in Threads, cur[x] = t
          PROVE  /\ p \in Seq(MsgCell) /\ Rising(p) /\ Before(p, qumsg[t])
                 /\ Pending(p, t, last, sent)
                 /\ \A k : (\E y \in Threads : cur[y] = t /\ Has(batch[y], from, k)) => Has(p, from, k)
      <4>1. p = batch[x] BY <3>2, RunnerIs, NoneApart
      <4>2. \A y \in Threads : cur[y] = t => y = x BY <3>2, Sole
      <4>3. batch[x] \in Seq(MsgCell) /\ Rising(batch[x]) /\ Before(batch[x], qumsg[t])
            /\ Pending(batch[x], t, last, sent)
        BY <3>2 DEF Ordered, TypeOK
      <4> HIDE DEF p
      <4> QED BY <4>1, <4>2, <4>3
    <3> QED BY <3>1, <3>2
  <2>2. qumsg[t] \in Seq(MsgCell) /\ Rising(qumsg[t]) /\ Pending(qumsg[t], t, last, sent)
    BY DEF Ordered, TypeOK
  <2>3. r = p \o qumsg[t]
    BY DEF Unhandled
  <2> HIDE DEF p, r
  <2>4. /\ Rising(r) /\ Pending(r, t, last, sent) /\ r \in Seq(MsgCell)
        /\ \A n : Has(p, from, n) \/ Has(qumsg[t], from, n) => Has(r, from, n)
    <3>1. r \in Seq(MsgCell) BY <2>1, <2>2, <2>3, ConcatProperties
    <3> QED BY <3>1, <2>1, <2>2, <2>3, JoinOrder
  <2>5. last[t][from] \in Nat /\ sent[from][t] \in Nat
    BY DEF TypeOK
  <2> DEFINE mine == {i \in DOMAIN r : r[i].by = from}
  <2>6. ASSUME NEW i \in mine PROVE r[i].n \in last[t][from] + 1 .. sent[from][t]
    <3>1. r[i].n \in Nat /\ last[t][from] < r[i].n /\ r[i].n <= sent[from][t]
      BY <2>4, CellIn DEF Pending
    <3> QED BY <3>1, <2>5
  <2>7. ASSUME NEW k \in last[t][from] + 1 .. sent[from][t] PROVE \E i \in mine : r[i].n = k
    <3>1. k \in Nat /\ last[t][from] < k /\ k <= sent[from][t] BY <2>5
    <3>2. Has(qumsg[t], from, k) \/ \E x \in Threads : cur[x] = t /\ Has(batch[x], from, k)
      BY <3>1 DEF Ordered
    <3> QED BY <3>2, <2>1, <2>4 DEF Has
  <2>8. {r[i].n : i \in mine} = last[t][from] + 1 .. sent[from][t]
    BY <2>6, <2>7
  <2>9. \A i, j \in mine : i < j => r[i].n < r[j].n
    BY <2>4 DEF Rising
  <2> QED BY <2>8, <2>9 DEF r
<1> QED
  BY <1>1, Ordering, PTL

\* The scheduler implements the mailbox: each step handles the next message of its
\* sender, posts, starts or stops the one runner, or changes nothing of these
\* (loader.c:229-345, task.c:550-588).
THEOREM MailboxImplemented == Spec => ImplementsMailbox
<1>1. Init => M!Init
  <2> SUFFICES ASSUME Init PROVE M!Init
    OBVIOUS
  <2>1. \A t \in Tasks : RunnerOf(t) = None
    BY Sets, RunnerNone DEF Init
  <2> QED BY <2>1 DEF Init, M!Init
<1>2. MailInv /\ MailInv' /\ [Next]_vars => [M!Next]_(M!mvars)
  BY StepRefines DEF MailInv
<1> QED
  BY <1>1, <1>2, Ordering, PTL DEF Spec, ImplementsMailbox, M!Spec
=============================================================================
