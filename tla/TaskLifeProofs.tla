----------------------------- MODULE TaskLifeProofs -----------------------------
(***************************************************************************)
(* Proofs about the life of a task, for any number of tasks, threads and   *)
(* names: its reference count is exactly the references held, nobody       *)
(* touches it once it is freed, names stand for one task, STARTUP comes    *)
(* first, and the shutdown ends only when every task is gone.              *)
(***************************************************************************)
EXTENDS TaskLife, FiniteSetTheorems, TLAPS

\* A thread in task_register, from the moment the task is in the table.
Registers(x) ==
  \/ pc[x] \in {"start", "late", "check", "registered"}
  \/ pc[x] \in Activating /\ back[x] \in {"late", "check", "registered"}

\* A thread that reads the table under the lock.
Reads(x) ==
  \/ pc[x] \in {"posted", "scan"}
  \/ pc[x] \in Activating /\ back[x] \in {"posted", "scan"}

\* A thread at work on cur[x], which is in the table.
Works(x) ==
  pc[x] \in Activating \cup {"ungrab", "recheck", "held", "start", "late", "check"}

Scanning == {"scan", "prepare", "size", "count", "commit", "asleep", "done"}

\* What a thread's place says of the task it works on and the one it runs.
ControlOf(x) ==
  /\ Works(x) \/ pc[x] \in {"unmap", "free", "register", "registered"} => cur[x] \in Tasks
  /\ pc[x] \in {"begin", "run"} => inh[x] # None
  /\ pc[x] \in {"idle", "held", "recheck", "posted"} \cup Scanning => inh[x] = None
  /\ pc[x] = "ungrab" /\ inh[x] # None => cur[x] = inh[x]
  /\ pc[x] = "recheck" => back[x] = "ungrab"
  /\ pc[x] \in Activating =>
       /\ back[x] # "idle"
       /\ back[x] = "run" => inh[x] # None /\ cur[x] = inh[x]
       /\ back[x] \in {"ungrab", "posted", "scan"} => inh[x] = None
       /\ back[x] = "scan" => x = Main
  /\ pc[x] = "register" \/ Registers(x) => inh[x] # None \/ x = Main
  /\ inh[x] # None => x # Main
  /\ pc[x] \in Scanning => x = Main

Control == \A x \in Threads : ControlOf(x)

Locks ==
  /\ \A x \in Threads : /\ Registers(x) => wr = x
                        /\ Reads(x) => x \in rd
  /\ wr # None => rd = {}

\* A task that is out of the table and whose memory is still there.
Pending == {t \in Tasks : \E n \in Nets : t \in deferred[n]}
Frees(x, t) == pc[x] = "free" /\ cur[x] = t
Dying(t) == t \in Pending \/ \E x \in Threads : Frees(x, t)

\* Whoever works on a task finds it in the table.
Mapped ==
  /\ \A x \in Threads : /\ Works(x) => cur[x] \in map
                        /\ inh[x] # None => inh[x] \in map
                        /\ Reads(x) /\ x = Main => todo \subseteq map
  /\ \A t \in Tasks : runq[t] > 0 => t \in map

\* What the table says of the memory of a task.
Memory ==
  /\ \A t \in Tasks :
       /\ t \in map => mem[t] = "live" /\ registered[t]
       /\ Dying(t) => t \notin map /\ mem[t] = "live" /\ registered[t]
       /\ registered[t] => t \in map \/ Dying(t) \/ mem[t] = "freed"
       /\ mem[t] = "none" => ~registered[t] /\ global[t] = 0 /\ qumsg[t] = <<>>
  /\ \A x, y \in Threads, t \in Tasks : Frees(x, t) /\ Frees(y, t) => x = y
  /\ \A x \in Threads, t \in Tasks : Frees(x, t) => t \notin Pending
  /\ \A n, o \in Nets : deferred[n] \cap deferred[o] # {} => n = o

\* A task that has just been made is its maker's alone, and untouched.
Fresh ==
  \A x \in Threads : pc[x] \in {"register", "start"} =>
    /\ ref[cur[x]] = 1 /\ global[cur[x]] = 0 /\ qumsg[cur[x]] = <<>>
    /\ pc[x] = "register" =>
         /\ mem[cur[x]] = "live" /\ ~registered[cur[x]]
         /\ \A y \in Threads : pc[y] = "register" /\ cur[y] = cur[x] => y = x

\* global is 1 while the task is in one place: run, queued or about to be queued.
Scheduling(t) == {x \in Threads : cur[x] = t /\ pc[x] \in {"incref", "enqueue"}}

OnePlace ==
  \A t \in Tasks : global[t] = runq[t] + Cardinality(Running(t)) + Cardinality(Scheduling(t))

\* CLOSING is on its way once: queued, being handled, or posted by task_register.
Closes(t, i) == i \in DOMAIN qumsg[t] /\ qumsg[t][i] = "closing"
Gives(x, t) == pc[x] = "ungrab" /\ inh[x] = t
LateFor(x, t) ==
  /\ cur[x] = t
  /\ \/ pc[x] = "late"
     \/ pc[x] = "start" /\ closing[t]
     \/ pc[x] \in Activating /\ back[x] = "late"

OneClosing ==
  \A t \in Tasks :
    /\ \A i, j \in DOMAIN qumsg[t] : Closes(t, i) /\ Closes(t, j) => i = j
    /\ \A i \in DOMAIN qumsg[t] : Closes(t, i) => closing[t]
    /\ \A x \in Threads : Gives(x, t) \/ LateFor(x, t) =>
         closing[t] /\ \A i \in DOMAIN qumsg[t] : ~Closes(t, i)
    /\ \A x, y \in Threads : ~(LateFor(x, t) /\ Gives(y, t))

\* The count of frees under way, and the end of the shutdown.
Ending == {x \in Threads : pc[x] \in {"free", "uncount"}}

Counted ==
  /\ IsFiniteSet(Pending)
  /\ nfreeing = Cardinality(Pending) + Cardinality(Ending)
  /\ pc[Main] \in {"count", "done"} => map = {}
  /\ pc[Main] = "done" => nfreeing = 0

IInv ==
  /\ TypeOK /\ Control /\ Locks /\ Mapped /\ Memory /\ Fresh /\ OnePlace /\ OneClosing
  /\ Counted /\ RefsCounted /\ NamesAgree /\ StartupFirst

USE TaskLifeAssumption

-----------------------------------------------------------------------------
(* Counting threads *)

LEMMA Counts ==
  ASSUME NEW S \in SUBSET Threads
  PROVE  /\ IsFiniteSet(S) /\ Cardinality(S) \in Nat
         /\ \A x \in S : Cardinality(S) > 0
         /\ Cardinality(S) = 0 => S = {}
         /\ Cardinality(S) < 2 => \A x, y \in S : x = y
<1>1. IsFiniteSet(S) /\ Cardinality(S) \in Nat
  BY FS_Subset, FS_CardinalityType
<1>2. Cardinality(S) = 0 <=> S = {}
  BY <1>1, FS_EmptySet
<1>3. ASSUME NEW x \in S, NEW y \in S, x # y PROVE Cardinality(S) >= 2
  <2>1. IsFiniteSet(S \ {x}) /\ Cardinality(S \ {x}) = Cardinality(S) - 1
    BY <1>1, FS_RemoveElement
  <2>2. Cardinality(S \ {x}) # 0 /\ Cardinality(S \ {x}) \in Nat
    BY <1>3, <2>1, FS_EmptySet, FS_CardinalityType
  <2> QED BY <1>1, <2>1, <2>2
<1> QED
  BY <1>1, <1>2, <1>3

\* One element more or less.
LEMMA OneChange ==
  ASSUME NEW S, NEW R, IsFiniteSet(S), NEW x, S \ {x} = R \ {x}
  PROVE  /\ IsFiniteSet(R)
         /\ Cardinality(R) = Cardinality(S) + (IF x \in R THEN 1 ELSE 0)
                                            - (IF x \in S THEN 1 ELSE 0)
<1>1. /\ IsFiniteSet(S \ {x}) /\ Cardinality(S) \in Nat
      /\ Cardinality(S \ {x}) = IF x \in S THEN Cardinality(S) - 1 ELSE Cardinality(S)
  BY FS_RemoveElement, FS_CardinalityType
<1>2. CASE x \in R
  <2>1. R = (S \ {x}) \cup {x} BY <1>2
  <2>2. IsFiniteSet(R) /\ Cardinality(R) = Cardinality(S \ {x}) + 1
    BY <1>1, <2>1, FS_AddElement
  <2> QED BY <1>1, <1>2, <2>2
<1>3. CASE x \notin R
  <2>1. R = S \ {x} BY <1>3
  <2> QED BY <1>1, <1>3, <2>1
<1> QED
  BY <1>2, <1>3

-----------------------------------------------------------------------------
(* A step is one thread's; it may wake Main, which sleeps. *)

Elsewhere(x) ==
  \A y \in Threads : y # x =>
    /\ inh'[y] = inh[y] /\ cur'[y] = cur[y] /\ back'[y] = back[y]
    /\ pc'[y] = pc[y] \/ (y = Main /\ pc[y] = "asleep" /\ pc'[y] = "prepare")

\* Whether x is one of the threads that run t, hold it, queue it, are scheduling it.
One(b) == IF b THEN 1 ELSE 0
Runs(x, t) == inh[x] = t
Holds(x, t) == /\ cur[x] = t /\ inh[x] = None
               /\ \/ pc[x] \in {"held", "recheck", "ungrab"}
                  \/ pc[x] \in Activating /\ back[x] = "ungrab"
Queues(x, t) == cur[x] = t /\ pc[x] = "enqueue"
Schedules(x, t) == cur[x] = t /\ pc[x] \in {"incref", "enqueue"}

\* How many there are.
RunCount(t) == Cardinality(Running(t))
HoldCount(t) == Cardinality(Holding(t))
QueueCount(t) == Cardinality(Enqueuing(t))
ScheduleCount(t) == Cardinality(Scheduling(t))

LEMMA CountsStep ==
  ASSUME NEW x \in Threads, Elsewhere(x), NEW t \in Tasks
  PROVE  /\ RunCount(t)' = RunCount(t) + One(Runs(x, t)') - One(Runs(x, t))
         /\ HoldCount(t)' = HoldCount(t) + One(Holds(x, t)') - One(Holds(x, t))
         /\ QueueCount(t)' = QueueCount(t) + One(Queues(x, t)') - One(Queues(x, t))
         /\ ScheduleCount(t)' = ScheduleCount(t) + One(Schedules(x, t)') - One(Schedules(x, t))
<1>1. Running(t) \ {x} = Running(t)' \ {x} BY DEF Elsewhere, Running
<1>2. Holding(t) \ {x} = Holding(t)' \ {x} BY DEF Elsewhere, Holding, Activating
<1>3. Enqueuing(t) \ {x} = Enqueuing(t)' \ {x} BY DEF Elsewhere, Enqueuing
<1>4. Scheduling(t) \ {x} = Scheduling(t)' \ {x} BY DEF Elsewhere, Scheduling
<1>5. /\ IsFiniteSet(Running(t)) /\ IsFiniteSet(Holding(t))
      /\ IsFiniteSet(Enqueuing(t)) /\ IsFiniteSet(Scheduling(t))
  <2>1. \A S \in SUBSET Threads : IsFiniteSet(S) BY Counts
  <2> QED BY <2>1 DEF Running, Holding, Enqueuing, Scheduling
<1>6. /\ RunCount(t)' = RunCount(t) + One(x \in Running(t)') - One(x \in Running(t))
      /\ HoldCount(t)' = HoldCount(t) + One(x \in Holding(t)') - One(x \in Holding(t))
      /\ QueueCount(t)' = QueueCount(t) + One(x \in Enqueuing(t)') - One(x \in Enqueuing(t))
      /\ ScheduleCount(t)' = ScheduleCount(t) + One(x \in Scheduling(t)') - One(x \in Scheduling(t))
  BY <1>1, <1>2, <1>3, <1>4, <1>5, OneChange DEF RunCount, HoldCount, QueueCount, ScheduleCount, One
<1>7. (x \in Running(t)) = Runs(x, t) /\ (x \in Running(t)') = Runs(x, t)'
  BY DEF Running, Runs
<1>8. (x \in Holding(t)) = Holds(x, t) /\ (x \in Holding(t)') = Holds(x, t)'
  <2>1. x \in Holding(t) <=> Holds(x, t) BY DEF Holding, Holds
  <2>2. x \in Holding(t)' <=> Holds(x, t)' BY DEF Holding, Holds
  <2>3. Holds(x, t) \in BOOLEAN /\ Holds(x, t)' \in BOOLEAN BY DEF Holds
  <2> QED BY <2>1, <2>2, <2>3
<1>9. (x \in Enqueuing(t)) = Queues(x, t) /\ (x \in Enqueuing(t)') = Queues(x, t)'
  BY DEF Enqueuing, Queues
<1>10. (x \in Scheduling(t)) = Schedules(x, t) /\ (x \in Scheduling(t)') = Schedules(x, t)'
  BY DEF Scheduling, Schedules
<1> QED
  BY <1>6, <1>7, <1>8, <1>9, <1>10

LEMMA CountsType ==
  ASSUME NEW t
  PROVE  /\ RunCount(t) \in Nat /\ HoldCount(t) \in Nat
         /\ QueueCount(t) \in Nat /\ ScheduleCount(t) \in Nat
         /\ \A x \in Threads : /\ Runs(x, t) => RunCount(t) > 0
                               /\ Schedules(x, t) => ScheduleCount(t) > 0
         /\ Held(t) = RunCount(t) + HoldCount(t) + QueueCount(t)
<1>1. /\ Running(t) \in SUBSET Threads /\ Holding(t) \in SUBSET Threads
      /\ Enqueuing(t) \in SUBSET Threads /\ Scheduling(t) \in SUBSET Threads
  BY DEF Running, Holding, Enqueuing, Scheduling
<1>2. \A x \in Threads : /\ Runs(x, t) => x \in Running(t)
                         /\ Schedules(x, t) => x \in Scheduling(t)
  BY DEF Running, Scheduling, Runs, Schedules
<1> QED
  BY <1>1, <1>2, Counts DEF RunCount, HoldCount, QueueCount, ScheduleCount, Held

LEMMA ControlStep ==
  ASSUME Control, NEW x \in Threads, Elsewhere(x), ControlOf(x)'
  PROVE  Control'
<1> SUFFICES ASSUME NEW y \in Threads, y # x PROVE ControlOf(y)'
  BY DEF Control
<1>1. ControlOf(y) BY DEF Control
<1>2. CASE pc'[y] = pc[y]
  BY <1>1, <1>2 DEF Elsewhere, ControlOf, Works, Registers
<1>3. CASE pc'[y] # pc[y]
  BY <1>1, <1>3 DEF Elsewhere, ControlOf, Works, Registers, Scanning, Activating
<1> QED
  BY <1>2, <1>3

-----------------------------------------------------------------------------
(* The steps, each with the thread that takes it *)

Step(x) ==
  \/ Work(x)
  \/ x \in Runners /\ (Run(x) \/ CloseSelf(x))
  \/ /\ x \in Runners \cup {Main}
     /\ \E t \in Tasks, n \in Names \cup {None}, b \in BOOLEAN : New(x, t, n, b)
  \/ /\ x \in Users
     /\ \/ \E t \in Tasks : Grab(x, t) \/ PostTo(x, t)
        \/ Emit(x) \/ CloseHeld(x) \/ LetGo(x)
  \/ x = Main /\ (Shutdown \/ Closing \/ TimedOut)

LEMMA OneSteps ==
  ASSUME Next
  PROVE  UNCHANGED vars \/ \E x \in Threads : Step(x)
<1>1. Runners \subseteq Threads /\ Users \subseteq Threads /\ Main \in Threads
  BY DEF Threads, Runners, Users
<1>2. CASE Over
  BY <1>2 DEF Over
<1>3. CASE Shutdown \/ Closing \/ TimedOut
  BY <1>1, <1>3 DEF Step
<1>4. CASE \E x \in Threads : Work(x)
  BY <1>4 DEF Step
<1>5. CASE \E x \in Runners : Run(x) \/ CloseSelf(x)
  BY <1>1, <1>5 DEF Step
<1>6. CASE \E x \in Runners \cup {Main}, t \in Tasks, n \in Names \cup {None}, b \in BOOLEAN :
             New(x, t, n, b)
  BY <1>1, <1>6 DEF Step
<1>7. CASE \E x \in Users : \/ \E t \in Tasks : Grab(x, t) \/ PostTo(x, t)
                            \/ Emit(x) \/ CloseHeld(x) \/ LetGo(x)
  BY <1>1, <1>7 DEF Step
<1> QED
  BY <1>2, <1>3, <1>4, <1>5, <1>6, <1>7 DEF Next

-----------------------------------------------------------------------------
(* The steps that may or may not post, in one form: what each variable becomes *)

Silent(t) == closing[t] \/ ~registered[t]

Closed(x, t, next) ==
  /\ closing' = [closing EXCEPT ![t] = TRUE]
  /\ pc' = [pc EXCEPT ![x] = IF Silent(t) THEN next ELSE "activate"]
  /\ cur' = [cur EXCEPT ![x] = IF Silent(t) THEN cur[x] ELSE t]
  /\ back' = [back EXCEPT ![x] = IF Silent(t) THEN back[x] ELSE next]
  /\ qumsg' = IF Silent(t) THEN qumsg ELSE [qumsg EXCEPT ![t] = Append(@, "closing")]
  /\ UNCHANGED <<global, runq>>

LEMMA CloseForm ==
  ASSUME TypeOK, NEW x \in Threads, NEW t, NEW next, Close(x, t, next)
  PROVE  Closed(x, t, next)
<1>1. cur = [cur EXCEPT ![x] = cur[x]] /\ back = [back EXCEPT ![x] = back[x]]
  BY DEF TypeOK
<1>2. CASE Silent(t)
  BY <1>1, <1>2 DEF Close, Closed, Silent, Goto, queueing
<1>3. CASE ~Silent(t)
  BY <1>3 DEF Close, Closed, Silent, Post, Goto
<1> QED
  BY <1>2, <1>3

Broadcasted(t) ==
  /\ closing' = [closing EXCEPT ![t] = TRUE]
  /\ pc' = [pc EXCEPT ![Main] = IF closing[t] THEN pc[Main] ELSE "activate"]
  /\ cur' = [cur EXCEPT ![Main] = IF closing[t] THEN cur[Main] ELSE t]
  /\ back' = [back EXCEPT ![Main] = IF closing[t] THEN back[Main] ELSE "scan"]
  /\ qumsg' = IF closing[t] THEN qumsg ELSE [qumsg EXCEPT ![t] = Append(@, "closing")]
  /\ UNCHANGED <<global, runq>>

LEMMA BroadcastForm ==
  ASSUME TypeOK, NEW t \in Tasks, Broadcast(t)
  PROVE  Broadcasted(t)
<1>0. Main \in Threads BY DEF Threads
<1>1. /\ cur = [cur EXCEPT ![Main] = cur[Main]] /\ back = [back EXCEPT ![Main] = back[Main]]
      /\ pc = [pc EXCEPT ![Main] = pc[Main]]
  BY <1>0 DEF TypeOK
<1>2. CASE closing[t]
  BY <1>1, <1>2 DEF Broadcast, Broadcasted, queueing
<1>3. CASE ~closing[t]
  BY <1>3 DEF Broadcast, Broadcasted, Post, Goto
<1> QED
  BY <1>2, <1>3

Rests(t) == ~lclosing \/ Silent(t)

Checked(x) ==
  /\ closing' = IF lclosing THEN [closing EXCEPT ![cur[x]] = TRUE] ELSE closing
  /\ pc' = [pc EXCEPT ![x] = IF Rests(cur[x]) THEN "registered" ELSE "activate"]
  /\ UNCHANGED cur
  /\ back' = [back EXCEPT ![x] = IF Rests(cur[x]) THEN back[x] ELSE "registered"]
  /\ qumsg' = IF Rests(cur[x]) THEN qumsg
                               ELSE [qumsg EXCEPT ![cur[x]] = Append(@, "closing")]
  /\ UNCHANGED <<global, runq>>

LEMMA CheckForm ==
  ASSUME TypeOK, NEW x \in Threads, RegisterCheck(x)
  PROVE  Checked(x)
<1>1. cur = [cur EXCEPT ![x] = cur[x]] /\ back = [back EXCEPT ![x] = back[x]]
  BY DEF TypeOK
<1>2. CASE lclosing
  <2>1. Closed(x, cur[x], "registered") BY <1>2, CloseForm DEF RegisterCheck
  <2> QED BY <1>1, <1>2, <2>1 DEF Closed, Checked, Rests
<1>3. CASE ~lclosing
  BY <1>1, <1>3 DEF RegisterCheck, Checked, Rests, Goto, queueing
<1> QED
  BY <1>2, <1>3

Gone(t) == t \in map /\ ref[t] = 0

Unmapped(x) ==
  /\ map' = IF Gone(cur[x]) THEN map \ {cur[x]} ELSE map
  /\ names' = IF Gone(cur[x]) THEN names \ {cur[x]} ELSE names
  /\ nfreeing' = IF Gone(cur[x]) THEN nfreeing + 1 ELSE nfreeing
  /\ deferred' = IF Gone(cur[x]) /\ x \in Nets
                 THEN [deferred EXCEPT ![x] = @ \cup {cur[x]}] ELSE deferred
  /\ pc' = [pc EXCEPT ![x] = IF Gone(cur[x]) /\ x \notin Nets THEN "free" ELSE Home(x)]

LEMMA UnmapForm ==
  ASSUME NEW x \in Threads, Unmap(x)
  PROVE  Unmapped(x)
<1>1. CASE Gone(cur[x])
  BY <1>1 DEF Unmap, Unmapped, Gone, Goto
<1>2. CASE ~Gone(cur[x])
  BY <1>2 DEF Unmap, Unmapped, Gone, Goto, table
<1> QED
  BY <1>1, <1>2

Told(x) ==
  /\ pc' \in [Threads -> PCs]
  /\ pc'[x] = Home(x)
  /\ \A y \in Threads : y # x =>
       pc'[y] = IF y = Main /\ lclosing /\ pc[y] = "asleep" THEN "prepare" ELSE pc[y]

LEMMA TellForm ==
  ASSUME TypeOK, NEW x \in Threads, Tell(x)
  PROVE  Told(x)
<1>0. Main \in Threads BY DEF Threads
<1>1. pc \in [Threads -> PCs] BY DEF TypeOK
<1>2. Home(x) \in PCs /\ Home(x) # "asleep" /\ "prepare" \in PCs BY DEF Home, PCs
<1>3. pc' = [pc EXCEPT ![x] = Home(x), ![Main] = IF lclosing /\ @ = "asleep" THEN "prepare" ELSE @]
  BY DEF Tell
<1>4. CASE x = Main
  BY <1>0, <1>1, <1>2, <1>3, <1>4 DEF Told
<1>5. CASE x # Main
  BY <1>0, <1>1, <1>2, <1>3, <1>5 DEF Told
<1> QED
  BY <1>4, <1>5

-----------------------------------------------------------------------------
\* What the steps that count down rest on.
LEMMA Bounds ==
  ASSUME IInv, NEW x \in Threads
  PROVE  /\ pc[x] = "enqueue" => runq[cur[x]] = 0
         /\ pc[x] = "ungrab" => ref[cur[x]] > 0
         /\ pc[x] = "uncount" => nfreeing > 0
<1> USE DEF IInv
<1>1. ASSUME pc[x] = "enqueue" PROVE runq[cur[x]] = 0
  <2>1. cur[x] \in Tasks
    BY <1>1 DEF Control, ControlOf, Works, Activating
  <2>2. Cardinality(Scheduling(cur[x])) > 0 /\ Cardinality(Scheduling(cur[x])) \in Nat
    BY <1>1, Counts DEF Scheduling
  <2>3. Cardinality(Running(cur[x])) \in Nat
    BY Counts DEF Running
  <2>4. global[cur[x]] = runq[cur[x]] + Cardinality(Running(cur[x]))
                                      + Cardinality(Scheduling(cur[x]))
    BY <2>1 DEF OnePlace
  <2>5. runq[cur[x]] \in {0, 1} /\ global[cur[x]] \in {0, 1}
    BY <2>1 DEF TypeOK
  <2> QED BY <2>2, <2>3, <2>4, <2>5
<1>2. ASSUME pc[x] = "ungrab" PROVE ref[cur[x]] > 0
  <2>1. cur[x] \in map /\ cur[x] \in Tasks
    BY <1>2 DEF Mapped, Works, Control, ControlOf
  <2>2. x \in Running(cur[x]) \/ x \in Holding(cur[x])
    BY <1>2 DEF Control, ControlOf, Running, Holding
  <2>3. /\ Cardinality(Running(cur[x])) \in Nat
        /\ x \in Running(cur[x]) => Cardinality(Running(cur[x])) > 0
    BY Counts DEF Running
  <2>4. /\ Cardinality(Holding(cur[x])) \in Nat
        /\ x \in Holding(cur[x]) => Cardinality(Holding(cur[x])) > 0
    BY Counts DEF Holding
  <2>5. Cardinality(Enqueuing(cur[x])) \in Nat
    BY Counts DEF Enqueuing
  <2>6. runq[cur[x]] \in {0, 1}
    BY <2>1 DEF TypeOK
  <2>7. ref[cur[x]] = Held(cur[x]) + runq[cur[x]] + (IF Created(cur[x]) THEN 1 ELSE 0)
    BY <2>1 DEF RefsCounted
  <2> QED BY <2>2, <2>3, <2>4, <2>5, <2>6, <2>7 DEF Held
<1>3. ASSUME pc[x] = "uncount" PROVE nfreeing > 0
  <2>1. Cardinality(Ending) \in Nat /\ Cardinality(Ending) > 0
    BY <1>3, Counts DEF Ending
  <2>2. Cardinality(Pending) \in Nat
    BY FS_CardinalityType DEF Counted
  <2> QED BY <2>1, <2>2 DEF Counted
<1> QED
  BY <1>1, <1>2, <1>3

-----------------------------------------------------------------------------
(* Types, and what a thread's place says of its task *)

LEMMA Own ==
  ASSUME IInv, NEW x \in Threads, Step(x)
  PROVE  Elsewhere(x) /\ Control' /\ TypeOK'
<1> SUFFICES ControlOf(x)' /\ Elsewhere(x) /\ TypeOK'
  BY ControlStep DEF IInv
<1>1. CASE Activate(x)
  <2>2. Elsewhere(x)
    BY <1>1 DEF Activate, Elsewhere, IInv, TypeOK, Goto, Home, Post, table, lock, object,
      queueing, shutdown, frames, PCs, Backs
  <2>3. ControlOf(x)'
    BY <1>1 DEF Activate, ControlOf, Works, Registers, Scanning, Activating, Control, Mapped,
      TypeOK, IInv, Goto, Home, Post, table, lock, object, queueing, shutdown, frames, PCs, Backs
  <2>4. TypeOK'
    BY <1>1 DEF Activate, TypeOK, Control, ControlOf, Works, Activating, IInv, Goto, Home, Post,
      table, lock, object, queueing, shutdown, frames, PCs, Backs
  <2> QED BY <2>2, <2>3, <2>4
<1>2. CASE Incref(x)
  <2>2. Elsewhere(x)
    BY <1>2 DEF Incref, Elsewhere, IInv, TypeOK, Goto, Home, Post, table, lock, object, queueing,
      shutdown, frames, PCs, Backs
  <2>3. ControlOf(x)'
    BY <1>2 DEF Incref, ControlOf, Works, Registers, Scanning, Activating, Control, Mapped,
      TypeOK, IInv, Goto, Home, Post, table, lock, object, queueing, shutdown, frames, PCs, Backs
  <2>4. TypeOK'
    BY <1>2 DEF Incref, TypeOK, Control, ControlOf, Works, Activating, IInv, Goto, Home, Post,
      table, lock, object, queueing, shutdown, frames, PCs, Backs
  <2> QED BY <2>2, <2>3, <2>4
<1>3. CASE Enqueue(x)
  <2>2. Elsewhere(x)
    BY <1>3 DEF Enqueue, Elsewhere, IInv, TypeOK, Goto, Home, Post, table, lock, object,
      queueing, shutdown, frames, PCs, Backs
  <2>3. ControlOf(x)'
    BY <1>3 DEF Enqueue, ControlOf, Works, Registers, Scanning, Activating, Control, Mapped,
      TypeOK, IInv, Goto, Home, Post, table, lock, object, queueing, shutdown, frames, PCs, Backs
  <2>4. TypeOK'
    BY <1>3, Bounds DEF Enqueue, TypeOK, Control, ControlOf, Works, Activating, IInv, Goto, Home,
      Post, table, lock, object, queueing, shutdown, frames, PCs, Backs
  <2> QED BY <2>2, <2>3, <2>4
<1>4. CASE Ungrab(x)
  <2>2. Elsewhere(x)
    BY <1>4 DEF Ungrab, Elsewhere, IInv, TypeOK, Goto, Home, Post, table, lock, object, queueing,
      shutdown, frames, PCs, Backs
  <2>3. ControlOf(x)'
    BY <1>4 DEF Ungrab, ControlOf, Works, Registers, Scanning, Activating, Control, Mapped,
      TypeOK, IInv, Goto, Home, Post, table, lock, object, queueing, shutdown, frames, PCs, Backs
  <2>4. TypeOK'
    BY <1>4, Bounds DEF Ungrab, TypeOK, Control, ControlOf, Works, Activating, IInv, Goto, Home,
      Post, table, lock, object, queueing, shutdown, frames, PCs, Backs
  <2> QED BY <2>2, <2>3, <2>4
<1>5. CASE Unmap(x)
  <2>1. Unmapped(x) BY <1>5, UnmapForm DEF IInv
  <2>2. Elsewhere(x)
    BY <1>5, <2>1 DEF Unmap, Unmapped, Elsewhere, IInv, TypeOK, Goto, Home, Post, table, lock,
      object, queueing, shutdown, frames, PCs, Backs
  <2>3. ControlOf(x)'
    BY <1>5, <2>1 DEF Unmap, Unmapped, ControlOf, Works, Registers, Scanning, Activating,
      Control, Mapped, TypeOK, IInv, Goto, Home, Post, table, lock, object, queueing, shutdown,
      frames, PCs, Backs
  <2>4. TypeOK'
    <3>0. nfreeing' \in Nat
      <4>1. nfreeing \in Nat BY DEF IInv, TypeOK
      <4> QED BY <2>1, <4>1 DEF Unmapped
    <3>1. map' \subseteq Tasks /\ names' \subseteq Tasks
      BY <1>5, <2>1 DEF Unmapped, IInv, TypeOK
    <3>2. deferred' \in [Nets -> SUBSET Tasks]
      <4>1. deferred \in [Nets -> SUBSET Tasks] /\ map \subseteq Tasks BY DEF IInv, TypeOK
      <4> QED BY <2>1, <4>1 DEF Unmapped, Gone
    <3>3. pc' \in [Threads -> PCs]
      BY <1>5, <2>1 DEF Unmapped, IInv, TypeOK, PCs, Home
    <3> QED
      BY <1>5, <3>0, <3>1, <3>2, <3>3
      DEF Unmap, TypeOK, IInv, lock, object, queueing, shutdown, frames
  <2> QED BY <2>2, <2>3, <2>4
<1>6. CASE DeferredFree(x)
  <2>2. Elsewhere(x)
    BY <1>6 DEF DeferredFree, Elsewhere, IInv, TypeOK, Goto, Home, Post, table, lock, object,
      queueing, shutdown, frames, PCs, Backs
  <2>3. ControlOf(x)'
    BY <1>6 DEF DeferredFree, ControlOf, Works, Registers, Scanning, Activating, Control, Mapped,
      TypeOK, IInv, Goto, Home, Post, table, lock, object, queueing, shutdown, frames, PCs, Backs
  <2>4. TypeOK'
    BY <1>6 DEF DeferredFree, TypeOK, Control, ControlOf, Works, Activating, IInv, Goto, Home,
      Post, table, lock, object, queueing, shutdown, frames, PCs, Backs
  <2> QED BY <2>2, <2>3, <2>4
<1>7. CASE Free(x)
  <2>2. Elsewhere(x)
    BY <1>7 DEF Free, Elsewhere, IInv, TypeOK, Goto, Home, Post, table, lock, object, queueing,
      shutdown, frames, PCs, Backs
  <2>3. ControlOf(x)'
    BY <1>7 DEF Free, ControlOf, Works, Registers, Scanning, Activating, Control, Mapped, TypeOK,
      IInv, Goto, Home, Post, table, lock, object, queueing, shutdown, frames, PCs, Backs
  <2>4. TypeOK'
    BY <1>7 DEF Free, TypeOK, Control, ControlOf, Works, Activating, IInv, Goto, Home, Post,
      table, lock, object, queueing, shutdown, frames, PCs, Backs
  <2> QED BY <2>2, <2>3, <2>4
<1>8. CASE Uncount(x)
  <2>2. Elsewhere(x)
    BY <1>8 DEF Uncount, Elsewhere, IInv, TypeOK, Goto, Home, Post, table, lock, object,
      queueing, shutdown, frames, PCs, Backs
  <2>3. ControlOf(x)'
    BY <1>8 DEF Uncount, ControlOf, Works, Registers, Scanning, Activating, Control, Mapped,
      TypeOK, IInv, Goto, Home, Post, table, lock, object, queueing, shutdown, frames, PCs, Backs
  <2>4. TypeOK'
    BY <1>8, Bounds DEF Uncount, TypeOK, Control, ControlOf, Works, Activating, IInv, Goto, Home,
      Post, table, lock, object, queueing, shutdown, frames, PCs, Backs
  <2> QED BY <2>2, <2>3, <2>4
<1>9. CASE Tell(x)
  <2>1. Told(x) BY <1>9, TellForm DEF IInv
  <2>2. Elsewhere(x)
    BY <1>9, <2>1 DEF Tell, Told, Elsewhere, IInv, TypeOK, Goto, Home, Post, table, lock, object,
      queueing, shutdown, frames, PCs, Backs
  <2>3. ControlOf(x)'
    BY <1>9, <2>1 DEF Tell, Told, ControlOf, Works, Registers, Scanning, Activating, Control,
      Mapped, TypeOK, IInv, Goto, Home, Post, table, lock, object, queueing, shutdown, frames,
      PCs, Backs
  <2>4. TypeOK'
    BY <1>9, <2>1 DEF Tell, Told, TypeOK, Control, ControlOf, Works, Activating, IInv, Goto,
      Home, Post, table, lock, object, queueing, shutdown, frames, PCs, Backs
  <2> QED BY <2>2, <2>3, <2>4
<1>10. ASSUME NEW t \in Tasks, x \in Runners, Take(x, t)
      PROVE  ControlOf(x)' /\ Elsewhere(x) /\ TypeOK'
  <2>2. Elsewhere(x)
    BY <1>10 DEF Take, Elsewhere, IInv, TypeOK, Goto, Home, Post, table, lock, object, queueing,
      shutdown, frames, PCs, Backs
  <2>3. ControlOf(x)'
    BY <1>10 DEF Take, ControlOf, Works, Registers, Scanning, Activating, Control, Mapped,
      TypeOK, IInv, Goto, Home, Post, table, lock, object, queueing, shutdown, frames, PCs, Backs
  <2>4. TypeOK'
    BY <1>10 DEF Take, TypeOK, Control, ControlOf, Works, Activating, IInv, Goto, Home, Post,
      table, lock, object, queueing, shutdown, frames, PCs, Backs
  <2> QED BY <2>2, <2>3, <2>4
<1>11. ASSUME x \in Runners, Handle(x) PROVE ControlOf(x)' /\ Elsewhere(x) /\ TypeOK'
  <2>2. Elsewhere(x)
    BY <1>11 DEF Handle, Elsewhere, IInv, TypeOK, Goto, Home, Post, table, lock, object,
      queueing, shutdown, frames, PCs, Backs
  <2>3. ControlOf(x)'
    BY <1>11 DEF Handle, ControlOf, Works, Registers, Scanning, Activating, Control, Mapped,
      TypeOK, IInv, Goto, Home, Post, table, lock, object, queueing, shutdown, frames, PCs, Backs
  <2>4. TypeOK'
    BY <1>11 DEF Handle, TypeOK, Control, ControlOf, Works, Activating, IInv, Goto, Home, Post,
      table, lock, object, queueing, shutdown, frames, PCs, Backs
  <2> QED BY <2>2, <2>3, <2>4
<1>12. ASSUME x \in Runners, Release(x) PROVE ControlOf(x)' /\ Elsewhere(x) /\ TypeOK'
  <2>2. Elsewhere(x)
    BY <1>12 DEF Release, Elsewhere, IInv, TypeOK, Goto, Home, Post, table, lock, object,
      queueing, shutdown, frames, PCs, Backs
  <2>3. ControlOf(x)'
    BY <1>12 DEF Release, ControlOf, Works, Registers, Scanning, Activating, Control, Mapped,
      TypeOK, IInv, Goto, Home, Post, table, lock, object, queueing, shutdown, frames, PCs, Backs
  <2>4. TypeOK'
    BY <1>12 DEF Release, TypeOK, Control, ControlOf, Works, Activating, IInv, Goto, Home, Post,
      table, lock, object, queueing, shutdown, frames, PCs, Backs
  <2> QED BY <2>2, <2>3, <2>4
<1>13. ASSUME x \in Runners, Recheck(x) PROVE ControlOf(x)' /\ Elsewhere(x) /\ TypeOK'
  <2>2. Elsewhere(x)
    BY <1>13 DEF Recheck, Elsewhere, IInv, TypeOK, Goto, Home, Post, table, lock, object,
      queueing, shutdown, frames, PCs, Backs
  <2>3. ControlOf(x)'
    BY <1>13 DEF Recheck, ControlOf, Works, Registers, Scanning, Activating, Control, Mapped,
      TypeOK, IInv, Goto, Home, Post, table, lock, object, queueing, shutdown, frames, PCs, Backs
  <2>4. TypeOK'
    BY <1>13 DEF Recheck, TypeOK, Control, ControlOf, Works, Activating, IInv, Goto, Home, Post,
      table, lock, object, queueing, shutdown, frames, PCs, Backs
  <2> QED BY <2>2, <2>3, <2>4
<1>14. ASSUME x \in Runners, CloseSelf(x) PROVE ControlOf(x)' /\ Elsewhere(x) /\ TypeOK'
  <2>1. Closed(x, inh[x], "run") BY <1>14, CloseForm DEF CloseSelf, IInv
  <2>2. Elsewhere(x)
    BY <1>14, <2>1 DEF CloseSelf, Closed, Elsewhere, IInv, TypeOK, Goto, Home, Post, table, lock,
      object, queueing, shutdown, frames, PCs, Backs
  <2>3. ControlOf(x)'
    BY <1>14, <2>1 DEF CloseSelf, Closed, ControlOf, Works, Registers, Scanning, Activating,
      Control, Mapped, TypeOK, IInv, Goto, Home, Post, table, lock, object, queueing, shutdown,
      frames, PCs, Backs
  <2>4. TypeOK'
    BY <1>14, <2>1 DEF CloseSelf, Closed, TypeOK, Control, ControlOf, Works, Activating, IInv,
      Goto, Home, Post, table, lock, object, queueing, shutdown, frames, PCs, Backs
  <2> QED BY <2>2, <2>3, <2>4
<1>15. ASSUME NEW t \in Tasks, NEW n \in Names \cup {None}, NEW b \in BOOLEAN,
             x \in Runners \cup {Main}, New(x, t, n, b)
      PROVE  ControlOf(x)' /\ Elsewhere(x) /\ TypeOK'
  <2>2. Elsewhere(x)
    BY <1>15 DEF New, Elsewhere, IInv, TypeOK, Goto, Home, Post, table, lock, object, queueing,
      shutdown, frames, PCs, Backs
  <2>3. ControlOf(x)'
    BY <1>15 DEF New, ControlOf, Works, Registers, Scanning, Activating, Control, Mapped, TypeOK,
      IInv, Goto, Home, Post, table, lock, object, queueing, shutdown, frames, PCs, Backs
  <2>4. TypeOK'
    BY <1>15 DEF New, TypeOK, Control, ControlOf, Works, Activating, IInv, Goto, Home, Post,
      table, lock, object, queueing, shutdown, frames, PCs, Backs
  <2> QED BY <2>2, <2>3, <2>4
<1>16. CASE RegisterFails(x)
  <2>2. Elsewhere(x)
    BY <1>16 DEF RegisterFails, Elsewhere, IInv, TypeOK, Goto, Home, Post, table, lock, object,
      queueing, shutdown, frames, PCs, Backs
  <2>3. ControlOf(x)'
    BY <1>16 DEF RegisterFails, ControlOf, Works, Registers, Scanning, Activating, Control,
      Mapped, TypeOK, IInv, Goto, Home, Post, table, lock, object, queueing, shutdown, frames,
      PCs, Backs
  <2>4. TypeOK'
    BY <1>16 DEF RegisterFails, TypeOK, Control, ControlOf, Works, Activating, IInv, Goto, Home,
      Post, table, lock, object, queueing, shutdown, frames, PCs, Backs
  <2> QED BY <2>2, <2>3, <2>4
<1>17. CASE Register(x)
  <2>2. Elsewhere(x)
    BY <1>17 DEF Register, Elsewhere, IInv, TypeOK, Goto, Home, Post, table, lock, object,
      queueing, shutdown, frames, PCs, Backs
  <2>3. ControlOf(x)'
    BY <1>17 DEF Register, ControlOf, Works, Registers, Scanning, Activating, Control, Mapped,
      TypeOK, IInv, Goto, Home, Post, table, lock, object, queueing, shutdown, frames, PCs, Backs
  <2>4. TypeOK'
    BY <1>17 DEF Register, TypeOK, Control, ControlOf, Works, Activating, IInv, Goto, Home, Post,
      table, lock, object, queueing, shutdown, frames, PCs, Backs
  <2> QED BY <2>2, <2>3, <2>4
<1>18. CASE PostStartup(x)
  <2>2. Elsewhere(x)
    BY <1>18 DEF PostStartup, Elsewhere, IInv, TypeOK, Goto, Home, Post, table, lock, object,
      queueing, shutdown, frames, PCs, Backs
  <2>3. ControlOf(x)'
    BY <1>18 DEF PostStartup, ControlOf, Works, Registers, Scanning, Activating, Control, Mapped,
      TypeOK, IInv, Goto, Home, Post, table, lock, object, queueing, shutdown, frames, PCs, Backs
  <2>4. TypeOK'
    BY <1>18 DEF PostStartup, TypeOK, Control, ControlOf, Works, Activating, IInv, Goto, Home,
      Post, table, lock, object, queueing, shutdown, frames, PCs, Backs
  <2> QED BY <2>2, <2>3, <2>4
<1>19. CASE LateClose(x)
  <2>2. Elsewhere(x)
    BY <1>19 DEF LateClose, Elsewhere, IInv, TypeOK, Goto, Home, Post, table, lock, object,
      queueing, shutdown, frames, PCs, Backs
  <2>3. ControlOf(x)'
    BY <1>19 DEF LateClose, ControlOf, Works, Registers, Scanning, Activating, Control, Mapped,
      TypeOK, IInv, Goto, Home, Post, table, lock, object, queueing, shutdown, frames, PCs, Backs
  <2>4. TypeOK'
    BY <1>19 DEF LateClose, TypeOK, Control, ControlOf, Works, Activating, IInv, Goto, Home,
      Post, table, lock, object, queueing, shutdown, frames, PCs, Backs
  <2> QED BY <2>2, <2>3, <2>4
<1>20. CASE RegisterCheck(x)
  <2>1. Checked(x) BY <1>20, CheckForm DEF IInv
  <2>2. Elsewhere(x)
    BY <1>20, <2>1 DEF RegisterCheck, Checked, Elsewhere, IInv, TypeOK, Goto, Home, Post, table,
      lock, object, queueing, shutdown, frames, PCs, Backs
  <2>3. ControlOf(x)'
    BY <1>20, <2>1 DEF RegisterCheck, Checked, ControlOf, Works, Registers, Scanning, Activating,
      Control, Mapped, TypeOK, IInv, Goto, Home, Post, table, lock, object, queueing, shutdown,
      frames, PCs, Backs
  <2>4. TypeOK'
    <3>1. cur[x] \in Tasks BY <1>20 DEF RegisterCheck, IInv, Control, ControlOf, Works
    <3>2. pc' \in [Threads -> PCs] /\ back' \in [Threads -> Backs]
      BY <1>20, <2>1 DEF Checked, IInv, TypeOK, PCs, Backs
    <3>3. /\ closing' \in [Tasks -> BOOLEAN]
          /\ qumsg' \in [Tasks -> Seq({"startup", "closing", "user"})]
      BY <1>20, <3>1, <2>1 DEF Checked, IInv, TypeOK
    <3>4. UNCHANGED <<cur, global, runq>>
      BY <1>20, <2>1 DEF Checked, IInv
    <3> QED
      BY <1>20, <3>2, <3>3, <3>4 DEF RegisterCheck, TypeOK, IInv, table, lock, object, shutdown
  <2> QED BY <2>2, <2>3, <2>4
<1>21. CASE RegisterEnd(x)
  <2>2. Elsewhere(x)
    BY <1>21 DEF RegisterEnd, Elsewhere, IInv, TypeOK, Goto, Home, Post, table, lock, object,
      queueing, shutdown, frames, PCs, Backs
  <2>3. ControlOf(x)'
    BY <1>21 DEF RegisterEnd, ControlOf, Works, Registers, Scanning, Activating, Control, Mapped,
      TypeOK, IInv, Goto, Home, Post, table, lock, object, queueing, shutdown, frames, PCs, Backs
  <2>4. TypeOK'
    BY <1>21 DEF RegisterEnd, TypeOK, Control, ControlOf, Works, Activating, IInv, Goto, Home,
      Post, table, lock, object, queueing, shutdown, frames, PCs, Backs
  <2> QED BY <2>2, <2>3, <2>4
<1>22. ASSUME NEW t \in Tasks, x \in Users, Grab(x, t)
      PROVE  ControlOf(x)' /\ Elsewhere(x) /\ TypeOK'
  <2>2. Elsewhere(x)
    BY <1>22 DEF Grab, Elsewhere, IInv, TypeOK, Goto, Home, Post, table, lock, object, queueing,
      shutdown, frames, PCs, Backs
  <2>3. ControlOf(x)'
    BY <1>22 DEF Grab, ControlOf, Works, Registers, Scanning, Activating, Control, Mapped,
      TypeOK, IInv, Goto, Home, Post, table, lock, object, queueing, shutdown, frames, PCs, Backs
  <2>4. TypeOK'
    BY <1>22 DEF Grab, TypeOK, Control, ControlOf, Works, Activating, IInv, Goto, Home, Post,
      table, lock, object, queueing, shutdown, frames, PCs, Backs
  <2> QED BY <2>2, <2>3, <2>4
<1>23. ASSUME x \in Users, Emit(x) PROVE ControlOf(x)' /\ Elsewhere(x) /\ TypeOK'
  <2>2. Elsewhere(x)
    BY <1>23 DEF Emit, Elsewhere, IInv, TypeOK, Goto, Home, Post, table, lock, object, queueing,
      shutdown, frames, PCs, Backs
  <2>3. ControlOf(x)'
    BY <1>23 DEF Emit, ControlOf, Works, Registers, Scanning, Activating, Control, Mapped,
      TypeOK, IInv, Goto, Home, Post, table, lock, object, queueing, shutdown, frames, PCs, Backs
  <2>4. TypeOK'
    BY <1>23 DEF Emit, TypeOK, Control, ControlOf, Works, Activating, IInv, Goto, Home, Post,
      table, lock, object, queueing, shutdown, frames, PCs, Backs
  <2> QED BY <2>2, <2>3, <2>4
<1>24. ASSUME x \in Users, CloseHeld(x) PROVE ControlOf(x)' /\ Elsewhere(x) /\ TypeOK'
  <2>1. Closed(x, cur[x], "ungrab") BY <1>24, CloseForm DEF CloseHeld, IInv
  <2>2. Elsewhere(x)
    BY <1>24, <2>1 DEF CloseHeld, Closed, Elsewhere, IInv, TypeOK, Goto, Home, Post, table, lock,
      object, queueing, shutdown, frames, PCs, Backs
  <2>3. ControlOf(x)'
    BY <1>24, <2>1 DEF CloseHeld, Closed, ControlOf, Works, Registers, Scanning, Activating,
      Control, Mapped, TypeOK, IInv, Goto, Home, Post, table, lock, object, queueing, shutdown,
      frames, PCs, Backs
  <2>4. TypeOK'
    BY <1>24, <2>1 DEF CloseHeld, Closed, TypeOK, Control, ControlOf, Works, Activating, IInv,
      Goto, Home, Post, table, lock, object, queueing, shutdown, frames, PCs, Backs
  <2> QED BY <2>2, <2>3, <2>4
<1>25. ASSUME x \in Users, LetGo(x) PROVE ControlOf(x)' /\ Elsewhere(x) /\ TypeOK'
  <2>2. Elsewhere(x)
    BY <1>25 DEF LetGo, Elsewhere, IInv, TypeOK, Goto, Home, Post, table, lock, object, queueing,
      shutdown, frames, PCs, Backs
  <2>3. ControlOf(x)'
    BY <1>25 DEF LetGo, ControlOf, Works, Registers, Scanning, Activating, Control, Mapped,
      TypeOK, IInv, Goto, Home, Post, table, lock, object, queueing, shutdown, frames, PCs, Backs
  <2>4. TypeOK'
    BY <1>25 DEF LetGo, TypeOK, Control, ControlOf, Works, Activating, IInv, Goto, Home, Post,
      table, lock, object, queueing, shutdown, frames, PCs, Backs
  <2> QED BY <2>2, <2>3, <2>4
<1>26. ASSUME NEW t \in Tasks, x \in Users, PostTo(x, t)
      PROVE  ControlOf(x)' /\ Elsewhere(x) /\ TypeOK'
  <2>2. Elsewhere(x)
    BY <1>26 DEF PostTo, Elsewhere, IInv, TypeOK, Goto, Home, Post, table, lock, object,
      queueing, shutdown, frames, PCs, Backs
  <2>3. ControlOf(x)'
    BY <1>26 DEF PostTo, ControlOf, Works, Registers, Scanning, Activating, Control, Mapped,
      TypeOK, IInv, Goto, Home, Post, table, lock, object, queueing, shutdown, frames, PCs, Backs
  <2>4. TypeOK'
    BY <1>26 DEF PostTo, TypeOK, Control, ControlOf, Works, Activating, IInv, Goto, Home, Post,
      table, lock, object, queueing, shutdown, frames, PCs, Backs
  <2> QED BY <2>2, <2>3, <2>4
<1>27. CASE PostEnd(x)
  <2>2. Elsewhere(x)
    BY <1>27 DEF PostEnd, Elsewhere, IInv, TypeOK, Goto, Home, Post, table, lock, object,
      queueing, shutdown, frames, PCs, Backs
  <2>3. ControlOf(x)'
    BY <1>27 DEF PostEnd, ControlOf, Works, Registers, Scanning, Activating, Control, Mapped,
      TypeOK, IInv, Goto, Home, Post, table, lock, object, queueing, shutdown, frames, PCs, Backs
  <2>4. TypeOK'
    BY <1>27 DEF PostEnd, TypeOK, Control, ControlOf, Works, Activating, IInv, Goto, Home, Post,
      table, lock, object, queueing, shutdown, frames, PCs, Backs
  <2> QED BY <2>2, <2>3, <2>4
<1>28. ASSUME x = Main, Shutdown PROVE ControlOf(x)' /\ Elsewhere(x) /\ TypeOK'
  <2>2. Elsewhere(x)
    BY <1>28 DEF Shutdown, Elsewhere, IInv, TypeOK, Goto, Home, Post, table, lock, object,
      queueing, shutdown, frames, PCs, Backs
  <2>3. ControlOf(x)'
    BY <1>28 DEF Shutdown, ControlOf, Works, Registers, Scanning, Activating, Control, Mapped,
      TypeOK, IInv, Goto, Home, Post, table, lock, object, queueing, shutdown, frames, PCs, Backs
  <2>4. TypeOK'
    BY <1>28 DEF Shutdown, TypeOK, Control, ControlOf, Works, Activating, IInv, Goto, Home, Post,
      table, lock, object, queueing, shutdown, frames, PCs, Backs
  <2> QED BY <2>2, <2>3, <2>4
<1>29. ASSUME NEW t \in Tasks, x = Main, Broadcast(t)
      PROVE  ControlOf(x)' /\ Elsewhere(x) /\ TypeOK'
  <2>1. Broadcasted(t) BY <1>29, BroadcastForm DEF IInv
  <2>2. Elsewhere(x)
    BY <1>29, <2>1 DEF Broadcast, Broadcasted, Elsewhere, IInv, TypeOK, Goto, Home, Post, table,
      lock, object, queueing, shutdown, frames, PCs, Backs
  <2>3. ControlOf(x)'
    BY <1>29, <2>1 DEF Broadcast, Broadcasted, ControlOf, Works, Registers, Scanning, Activating,
      Control, Mapped, TypeOK, IInv, Goto, Home, Post, table, lock, object, queueing, shutdown,
      frames, PCs, Backs
  <2>4. TypeOK'
    <3>1. /\ pc' \in [Threads -> PCs] /\ cur' \in [Threads -> Tasks \cup {None}]
          /\ back' \in [Threads -> Backs]
      BY <1>29, <2>1 DEF Broadcasted, IInv, TypeOK, PCs, Backs
    <3>2. /\ closing' \in [Tasks -> BOOLEAN]
          /\ qumsg' \in [Tasks -> Seq({"startup", "closing", "user"})]
      BY <1>29, <2>1 DEF Broadcasted, IInv, TypeOK
    <3>3. UNCHANGED <<global, runq>>
      BY <1>29, <2>1 DEF Broadcasted, IInv
    <3> QED
      BY <1>29, <3>1, <3>2, <3>3 DEF Broadcast, TypeOK, IInv, table, lock, object
  <2> QED BY <2>2, <2>3, <2>4
<1>30. ASSUME x = Main, BroadcastEnd PROVE ControlOf(x)' /\ Elsewhere(x) /\ TypeOK'
  <2>2. Elsewhere(x)
    BY <1>30 DEF BroadcastEnd, Elsewhere, IInv, TypeOK, Goto, Home, Post, table, lock, object,
      queueing, shutdown, frames, PCs, Backs
  <2>3. ControlOf(x)'
    BY <1>30 DEF BroadcastEnd, ControlOf, Works, Registers, Scanning, Activating, Control,
      Mapped, TypeOK, IInv, Goto, Home, Post, table, lock, object, queueing, shutdown, frames,
      PCs, Backs
  <2>4. TypeOK'
    BY <1>30 DEF BroadcastEnd, TypeOK, Control, ControlOf, Works, Activating, IInv, Goto, Home,
      Post, table, lock, object, queueing, shutdown, frames, PCs, Backs
  <2> QED BY <2>2, <2>3, <2>4
<1>31. ASSUME x = Main, Prepare PROVE ControlOf(x)' /\ Elsewhere(x) /\ TypeOK'
  <2>2. Elsewhere(x)
    BY <1>31 DEF Prepare, Elsewhere, IInv, TypeOK, Goto, Home, Post, table, lock, object,
      queueing, shutdown, frames, PCs, Backs
  <2>3. ControlOf(x)'
    BY <1>31 DEF Prepare, ControlOf, Works, Registers, Scanning, Activating, Control, Mapped,
      TypeOK, IInv, Goto, Home, Post, table, lock, object, queueing, shutdown, frames, PCs, Backs
  <2>4. TypeOK'
    BY <1>31 DEF Prepare, TypeOK, Control, ControlOf, Works, Activating, IInv, Goto, Home, Post,
      table, lock, object, queueing, shutdown, frames, PCs, Backs
  <2> QED BY <2>2, <2>3, <2>4
<1>32. ASSUME x = Main, LookTable PROVE ControlOf(x)' /\ Elsewhere(x) /\ TypeOK'
  <2>2. Elsewhere(x)
    BY <1>32 DEF LookTable, Elsewhere, IInv, TypeOK, Goto, Home, Post, table, lock, object,
      queueing, shutdown, frames, PCs, Backs
  <2>3. ControlOf(x)'
    BY <1>32 DEF LookTable, ControlOf, Works, Registers, Scanning, Activating, Control, Mapped,
      TypeOK, IInv, Goto, Home, Post, table, lock, object, queueing, shutdown, frames, PCs, Backs
  <2>4. TypeOK'
    BY <1>32 DEF LookTable, TypeOK, Control, ControlOf, Works, Activating, IInv, Goto, Home,
      Post, table, lock, object, queueing, shutdown, frames, PCs, Backs
  <2> QED BY <2>2, <2>3, <2>4
<1>33. ASSUME x = Main, LookCount PROVE ControlOf(x)' /\ Elsewhere(x) /\ TypeOK'
  <2>2. Elsewhere(x)
    BY <1>33 DEF LookCount, Elsewhere, IInv, TypeOK, Goto, Home, Post, table, lock, object,
      queueing, shutdown, frames, PCs, Backs
  <2>3. ControlOf(x)'
    BY <1>33 DEF LookCount, ControlOf, Works, Registers, Scanning, Activating, Control, Mapped,
      TypeOK, IInv, Goto, Home, Post, table, lock, object, queueing, shutdown, frames, PCs, Backs
  <2>4. TypeOK'
    BY <1>33 DEF LookCount, TypeOK, Control, ControlOf, Works, Activating, IInv, Goto, Home,
      Post, table, lock, object, queueing, shutdown, frames, PCs, Backs
  <2> QED BY <2>2, <2>3, <2>4
<1>34. ASSUME x = Main, Commit PROVE ControlOf(x)' /\ Elsewhere(x) /\ TypeOK'
  <2>2. Elsewhere(x)
    BY <1>34 DEF Commit, Elsewhere, IInv, TypeOK, Goto, Home, Post, table, lock, object,
      queueing, shutdown, frames, PCs, Backs
  <2>3. ControlOf(x)'
    BY <1>34 DEF Commit, ControlOf, Works, Registers, Scanning, Activating, Control, Mapped,
      TypeOK, IInv, Goto, Home, Post, table, lock, object, queueing, shutdown, frames, PCs, Backs
  <2>4. TypeOK'
    BY <1>34 DEF Commit, TypeOK, Control, ControlOf, Works, Activating, IInv, Goto, Home, Post,
      table, lock, object, queueing, shutdown, frames, PCs, Backs
  <2> QED BY <2>2, <2>3, <2>4
<1>35. ASSUME x = Main, TimedOut PROVE ControlOf(x)' /\ Elsewhere(x) /\ TypeOK'
  <2>2. Elsewhere(x)
    BY <1>35 DEF TimedOut, Elsewhere, IInv, TypeOK, Goto, Home, Post, table, lock, object,
      queueing, shutdown, frames, PCs, Backs
  <2>3. ControlOf(x)'
    BY <1>35 DEF TimedOut, ControlOf, Works, Registers, Scanning, Activating, Control, Mapped,
      TypeOK, IInv, Goto, Home, Post, table, lock, object, queueing, shutdown, frames, PCs, Backs
  <2>4. TypeOK'
    BY <1>35 DEF TimedOut, TypeOK, Control, ControlOf, Works, Activating, IInv, Goto, Home, Post,
      table, lock, object, queueing, shutdown, frames, PCs, Backs
  <2> QED BY <2>2, <2>3, <2>4
<1> QED
  BY <1>1, <1>2, <1>3, <1>4, <1>5, <1>6, <1>7, <1>8, <1>9, <1>10, <1>11, <1>12, <1>13, <1>14,
     <1>15, <1>16, <1>17, <1>18, <1>19, <1>20, <1>21, <1>22, <1>23, <1>24, <1>25, <1>26,
     <1>27, <1>28, <1>29, <1>30, <1>31, <1>32, <1>33, <1>34, <1>35
  DEF Step, Work, Schedule, Drop, Run, Registering, Closing

-----------------------------------------------------------------------------
(* The same steps, in the forms above: what the rest of the proof splits on *)

Move(x) ==
  \/ Activate(x) \/ Incref(x) \/ Enqueue(x)
  \/ Ungrab(x) \/ (Unmap(x) /\ Unmapped(x)) \/ DeferredFree(x) \/ Free(x) \/ Uncount(x)
  \/ Tell(x) /\ Told(x)
  \/ x \in Runners /\ \E t \in Tasks : Take(x, t)
  \/ x \in Runners /\ (Handle(x) \/ Release(x) \/ Recheck(x))
  \/ CloseSelf(x) /\ Closed(x, inh[x], "run")
  \/ \E t \in Tasks, n \in Names \cup {None}, b \in BOOLEAN :
       x \in Runners \cup {Main} /\ New(x, t, n, b)
  \/ RegisterFails(x) \/ Register(x) \/ PostStartup(x) \/ LateClose(x)
  \/ RegisterCheck(x) /\ Checked(x)
  \/ RegisterEnd(x)
  \/ \E t \in Tasks : Grab(x, t)
  \/ Emit(x) \/ (CloseHeld(x) /\ Closed(x, cur[x], "ungrab")) \/ LetGo(x)
  \/ \E t \in Tasks : PostTo(x, t)
  \/ PostEnd(x)
  \/ x = Main /\ (Shutdown \/ \E t \in Tasks : Broadcast(t) /\ Broadcasted(t))
  \/ x = Main /\ (BroadcastEnd \/ Prepare \/ LookTable \/ LookCount \/ Commit \/ TimedOut)

LEMMA Moves ==
  ASSUME TypeOK, NEW x \in Threads, Step(x)
  PROVE  Move(x)
<1>1. CASE CloseSelf(x)
  BY <1>1, CloseForm DEF CloseSelf, Move
<1>2. CASE CloseHeld(x)
  BY <1>2, CloseForm DEF CloseHeld, Move
<1>3. CASE Unmap(x) \/ Tell(x) \/ RegisterCheck(x)
  BY <1>3, UnmapForm, TellForm, CheckForm DEF Move
<1>4. CASE x = Main /\ \E t \in Tasks : Broadcast(t)
  BY <1>4, BroadcastForm DEF Move
<1> QED
  BY <1>1, <1>2, <1>3, <1>4 DEF Step, Move, Work, Schedule, Drop, Run, Registering, Closing

-----------------------------------------------------------------------------
(* The locks, and a task that no reference is held of *)

LEMMA Alone ==
  ASSUME IInv, NEW t \in map, Held(t) = 0,
         NEW x \in Threads, ~Registers(x), ~Reads(x)
  PROVE  inh[x] # t /\ (cur[x] = t => ~Works(x))
<1>1. /\ Cardinality(Running(t)) \in Nat /\ Cardinality(Holding(t)) \in Nat
      /\ Cardinality(Enqueuing(t)) \in Nat
      /\ Cardinality(Running(t)) = 0 => Running(t) = {}
      /\ Cardinality(Holding(t)) = 0 => Holding(t) = {}
  <2>1. /\ Running(t) \in SUBSET Threads /\ Holding(t) \in SUBSET Threads
        /\ Enqueuing(t) \in SUBSET Threads
    BY DEF Running, Holding, Enqueuing
  <2> QED BY <2>1, Counts
<1>2. Running(t) = {} /\ Holding(t) = {}
  BY <1>1 DEF Held
<1>3. inh[x] # t
  BY <1>2 DEF Running
<1>4. ASSUME cur[x] = t, Works(x) PROVE FALSE
  <2>1. ControlOf(x) /\ back[x] \in Backs BY DEF IInv, Control, TypeOK
  <2>2. x \notin Holding(t) BY <1>2
  <2> QED
    BY <1>3, <1>4, <2>1, <2>2 DEF ControlOf, Works, Holding, Registers, Reads, Activating, Backs
<1> QED
  BY <1>3, <1>4

\* What its count says of a task.
LEMMA CountOf ==
  ASSUME IInv, NEW t \in map
  PROVE  /\ Held(t) \in Nat /\ runq[t] \in {0, 1}
         /\ ref[t] = Held(t) + runq[t] + (IF Created(t) THEN 1 ELSE 0)
         /\ ref[t] = 0 => Held(t) = 0 /\ runq[t] = 0
         /\ ref[t] = 1 /\ Created(t) => Held(t) = 0 /\ runq[t] = 0
<1>1. t \in Tasks /\ runq[t] \in {0, 1}
  BY DEF IInv, TypeOK
<1>2. /\ Cardinality(Running(t)) \in Nat /\ Cardinality(Holding(t)) \in Nat
      /\ Cardinality(Enqueuing(t)) \in Nat
  <2>1. /\ Running(t) \in SUBSET Threads /\ Holding(t) \in SUBSET Threads
        /\ Enqueuing(t) \in SUBSET Threads
    BY DEF Running, Holding, Enqueuing
  <2> QED BY <2>1, Counts
<1>3. Held(t) \in Nat
  BY <1>2 DEF Held
<1>4. ref[t] = Held(t) + runq[t] + (IF Created(t) THEN 1 ELSE 0)
  BY DEF IInv, RefsCounted
<1> QED
  BY <1>1, <1>3, <1>4

\* A task that was just made has no other user.
LEMMA FreshAlone ==
  ASSUME IInv, NEW x \in Threads, pc[x] \in {"register", "start"},
         NEW y \in Threads, y # x
  PROVE  inh[y] # cur[x] /\ (cur[y] = cur[x] => ~Works(y))
<1>1. CASE pc[x] = "register"
  <2>1. cur[x] \notin map /\ cur[x] \in Tasks
    BY <1>1 DEF IInv, Fresh, Memory, Control, ControlOf
  <2> QED BY <2>1 DEF IInv, Mapped, TypeOK
<1>2. CASE pc[x] = "start"
  <2>1. cur[x] \in map BY <1>2 DEF IInv, Mapped, Works
  <2>2. ref[cur[x]] = 1 BY <1>2 DEF IInv, Fresh
  <2>3. Created(cur[x]) BY <1>2 DEF Created
  <2>4. Held(cur[x]) = 0 BY <2>1, <2>2, <2>3, CountOf
  <2>5. wr = x /\ rd = {}
    <3>1. wr = x BY <1>2 DEF IInv, Locks, Registers
    <3>2. x # None BY TaskLifeAssumption
    <3> QED BY <3>1, <3>2 DEF IInv, Locks
  <2>6. ~Registers(y) /\ ~Reads(y)
    BY <2>5 DEF IInv, Locks
  <2> QED BY <2>1, <2>4, <2>6, Alone
<1> QED
  BY <1>1, <1>2

LEMMA LocksStep ==
  ASSUME IInv, NEW x \in Threads, Move(x), Elsewhere(x), Control', TypeOK'
  PROVE  Locks'
<1> USE DEF IInv, Elsewhere, Registers, Reads, Activating, Control, ControlOf, Works, TypeOK,
          Scanning, Locks, Goto, Home, Post, table, lock, object, queueing, shutdown, frames
<1>1. CASE Activate(x)
  <2>1. back[x] \in Backs /\ x # None BY DEF Backs
  <2> QED BY <1>1, <2>1 DEF Backs, Activate
<1>2. CASE Incref(x)
  BY <1>2 DEF Incref
<1>3. CASE Enqueue(x)
  <2>1. back[x] \in Backs /\ x # None BY DEF Backs
  <2> QED BY <1>3, <2>1 DEF Backs, Enqueue
<1>4. CASE Ungrab(x)
  BY <1>4 DEF Ungrab
<1>5. CASE Unmap(x) /\ Unmapped(x)
  BY <1>5 DEF Unmap, Unmapped
<1>6. CASE DeferredFree(x)
  BY <1>6 DEF DeferredFree
<1>7. CASE Free(x)
  BY <1>7 DEF Free
<1>8. CASE Uncount(x)
  BY <1>8 DEF Uncount
<1>9. CASE Tell(x) /\ Told(x)
  BY <1>9 DEF Tell, Told
<1>10. ASSUME NEW t \in Tasks, Take(x, t) PROVE Locks'
  BY <1>10 DEF Take
<1>11. CASE Handle(x)
  BY <1>11 DEF Handle
<1>12. CASE Release(x)
  BY <1>12 DEF Release
<1>13. CASE Recheck(x)
  BY <1>13 DEF Recheck
<1>14. CASE CloseSelf(x) /\ Closed(x, inh[x], "run")
  BY <1>14 DEF CloseSelf, Closed, Silent
<1>15. ASSUME NEW t \in Tasks, NEW n \in Names \cup {None}, NEW b \in BOOLEAN,
             x \in Runners \cup {Main}, New(x, t, n, b)
      PROVE  Locks'
  BY <1>15 DEF New
<1>16. CASE RegisterFails(x)
  BY <1>16 DEF RegisterFails
<1>17. CASE Register(x)
  BY <1>17 DEF Register
<1>18. CASE PostStartup(x)
  BY <1>18 DEF PostStartup
<1>19. CASE LateClose(x)
  BY <1>19 DEF LateClose
<1>20. CASE RegisterCheck(x) /\ Checked(x)
  BY <1>20 DEF RegisterCheck, Checked, Rests, Silent
<1>21. CASE RegisterEnd(x)
  BY <1>21 DEF RegisterEnd
<1>22. ASSUME NEW t \in Tasks, Grab(x, t) PROVE Locks'
  BY <1>22 DEF Grab
<1>23. CASE Emit(x)
  BY <1>23 DEF Emit
<1>24. CASE CloseHeld(x) /\ Closed(x, cur[x], "ungrab")
  BY <1>24 DEF CloseHeld, Closed, Silent
<1>25. CASE LetGo(x)
  BY <1>25 DEF LetGo
<1>26. ASSUME NEW t \in Tasks, PostTo(x, t) PROVE Locks'
  BY <1>26 DEF PostTo
<1>27. CASE PostEnd(x)
  BY <1>27 DEF PostEnd
<1>28. CASE x = Main /\ Shutdown
  BY <1>28 DEF Shutdown
<1>29. ASSUME x = Main, NEW t \in Tasks, Broadcast(t), Broadcasted(t) PROVE Locks'
  BY <1>29 DEF Broadcast, Broadcasted
<1>30. CASE x = Main /\ (BroadcastEnd \/ Prepare \/ LookTable \/ LookCount \/ Commit \/ TimedOut)
  BY <1>30 DEF BroadcastEnd, Prepare, LookTable, LookCount, Commit, TimedOut
<1> HIDE DEF Locks
<1> QED
  BY <1>1, <1>2, <1>3, <1>4, <1>5, <1>6, <1>7, <1>8, <1>9, <1>10, <1>11, <1>12, <1>13, <1>14,
     <1>15, <1>16, <1>17, <1>18, <1>19, <1>20, <1>21, <1>22, <1>23, <1>24, <1>25, <1>26, <1>27,
     <1>28, <1>29, <1>30
  DEF Move

LEMMA MappedStep ==
  ASSUME IInv, NEW x \in Threads, Move(x), Elsewhere(x), Control', TypeOK'
  PROVE  Mapped'
<1>a. ASSUME Gone(cur[x]), rd = {}, wr = None, NEW y \in Threads
      PROVE  inh[y] # cur[x] /\ runq[cur[x]] = 0 /\ (cur[y] = cur[x] => ~Works(y))
  <2>1. ~Registers(y) /\ ~Reads(y)
    BY <1>a, TaskLifeAssumption DEF IInv, Locks
  <2>2. Held(cur[x]) = 0 /\ runq[cur[x]] = 0
    BY <1>a, CountOf DEF Gone
  <2> QED BY <1>a, <2>1, <2>2, Alone DEF Gone
<1> USE DEF IInv, Elsewhere, Registers, Reads, Activating, Control, ControlOf, Works, TypeOK,
          Scanning, Locks, Mapped, Goto, Home, Post, table, lock, object, queueing, shutdown,
          frames
<1>1. CASE Activate(x)
  BY <1>1 DEF Activate
<1>2. CASE Incref(x)
  BY <1>2 DEF Incref
<1>3. CASE Enqueue(x)
  BY <1>3 DEF Enqueue
<1>4. CASE Ungrab(x)
  BY <1>4 DEF Ungrab
<1>5. CASE Unmap(x) /\ Unmapped(x)
  <2>1. ASSUME Gone(cur[x]) PROVE Mapped'
    <3>1. map' = map \ {cur[x]} BY <1>5, <2>1 DEF Unmapped
    <3>2. ASSUME NEW y \in Threads, inh'[y] # None PROVE inh'[y] \in map'
      BY <1>5, <1>a, <2>1, <3>1, <3>2 DEF Unmap
    <3>3. ASSUME NEW y \in Threads, Works(y)' PROVE cur'[y] \in map'
      <4>1. Works(y) /\ cur'[y] = cur[y]
        BY <1>5, <3>3 DEF Unmap, Unmapped
      <4> QED BY <1>5, <1>a, <2>1, <3>1, <4>1 DEF Unmap
    <3>4. ASSUME NEW y \in Threads, Reads(y)' PROVE FALSE
      BY <1>5, <3>4 DEF Unmap, Unmapped
    <3>5. ASSUME NEW u \in Tasks, runq'[u] > 0 PROVE u \in map'
      BY <1>5, <1>a, <2>1, <3>1, <3>5 DEF Unmap
    <3> QED BY <3>2, <3>3, <3>4, <3>5
  <2>2. ASSUME ~Gone(cur[x]) PROVE Mapped'
    BY <1>5, <2>2 DEF Unmap, Unmapped
  <2> QED BY <2>1, <2>2
<1>6. CASE DeferredFree(x)
  BY <1>6 DEF DeferredFree
<1>7. CASE Free(x)
  BY <1>7 DEF Free
<1>8. CASE Uncount(x)
  BY <1>8 DEF Uncount
<1>9. CASE Tell(x) /\ Told(x)
  BY <1>9 DEF Tell, Told
<1>10. ASSUME NEW t \in Tasks, Take(x, t) PROVE Mapped'
  BY <1>10 DEF Take
<1>11. CASE Handle(x)
  BY <1>11 DEF Handle
<1>12. CASE Release(x)
  BY <1>12 DEF Release
<1>13. CASE Recheck(x)
  BY <1>13 DEF Recheck
<1>14. CASE CloseSelf(x) /\ Closed(x, inh[x], "run")
  BY <1>14 DEF CloseSelf, Closed, Silent
<1>15. ASSUME NEW t \in Tasks, NEW n \in Names \cup {None}, NEW b \in BOOLEAN,
             x \in Runners \cup {Main}, New(x, t, n, b)
      PROVE  Mapped'
  BY <1>15 DEF New
<1>16. CASE RegisterFails(x)
  BY <1>16 DEF RegisterFails
<1>17. CASE Register(x)
  BY <1>17 DEF Register
<1>18. CASE PostStartup(x)
  BY <1>18 DEF PostStartup
<1>19. CASE LateClose(x)
  BY <1>19 DEF LateClose
<1>20. CASE RegisterCheck(x) /\ Checked(x)
  BY <1>20 DEF RegisterCheck, Checked, Rests, Silent
<1>21. CASE RegisterEnd(x)
  BY <1>21 DEF RegisterEnd
<1>22. ASSUME NEW t \in Tasks, Grab(x, t) PROVE Mapped'
  BY <1>22 DEF Grab
<1>23. CASE Emit(x)
  BY <1>23 DEF Emit
<1>24. CASE CloseHeld(x) /\ Closed(x, cur[x], "ungrab")
  BY <1>24 DEF CloseHeld, Closed, Silent
<1>25. CASE LetGo(x)
  BY <1>25 DEF LetGo
<1>26. ASSUME NEW t \in Tasks, PostTo(x, t) PROVE Mapped'
  <2>1. x # Main BY <1>26 DEF PostTo, Users, Runners
  <2> QED BY <1>26, <2>1 DEF PostTo
<1>27. CASE PostEnd(x)
  BY <1>27 DEF PostEnd
<1>28. CASE x = Main /\ Shutdown
  BY <1>28 DEF Shutdown
<1>29. ASSUME x = Main, NEW t \in Tasks, Broadcast(t), Broadcasted(t) PROVE Mapped'
  BY <1>29 DEF Broadcast, Broadcasted
<1>30. CASE x = Main /\ (BroadcastEnd \/ Prepare \/ LookTable \/ LookCount \/ Commit \/ TimedOut)
  BY <1>30 DEF BroadcastEnd, Prepare, LookTable, LookCount, Commit, TimedOut
<1> HIDE DEF Mapped
<1> QED
  BY <1>1, <1>2, <1>3, <1>4, <1>5, <1>6, <1>7, <1>8, <1>9, <1>10, <1>11, <1>12, <1>13, <1>14,
     <1>15, <1>16, <1>17, <1>18, <1>19, <1>20, <1>21, <1>22, <1>23, <1>24, <1>25, <1>26, <1>27,
     <1>28, <1>29, <1>30
  DEF Move

-----------------------------------------------------------------------------
(* Memory: what a step makes, registers, unmaps or frees *)

\* The six steps that make, register, unmap or free a task, and all the others.
Makes(x) ==
  \/ Unmap(x) \/ DeferredFree(x) \/ Free(x) \/ RegisterFails(x) \/ Register(x)
  \/ \E t \in Tasks, n \in Names \cup {None}, b \in BOOLEAN : New(x, t, n, b)

LEMMA OrdinaryStep ==
  ASSUME IInv, NEW x \in Threads, Move(x), Elsewhere(x), Control', TypeOK', ~Makes(x)
  PROVE  /\ UNCHANGED <<map, mem, registered, deferred>>
         /\ pc[x] # "free" /\ pc'[x] # "free"
         /\ \A t \in Tasks : mem[t] = "none" => global'[t] = global[t] /\ qumsg'[t] = qumsg[t]
         /\ ~Uncount(x) => UNCHANGED nfreeing /\ pc[x] # "uncount" /\ pc'[x] # "uncount"
<1> DEFINE Plain ==
      /\ UNCHANGED <<map, mem, registered, deferred>>
      /\ pc[x] # "free" /\ pc'[x] # "free"
      /\ \A t \in Tasks : mem[t] = "none" => global'[t] = global[t] /\ qumsg'[t] = qumsg[t]
      /\ ~Uncount(x) => UNCHANGED nfreeing /\ pc[x] # "uncount" /\ pc'[x] # "uncount"
<1> SUFFICES Plain OBVIOUS
<1> USE DEF IInv, Control, ControlOf, Works, TypeOK, Mapped, Memory, Activating, Goto, Home, Post,
          table, lock, object, queueing, shutdown, frames
<1>1. CASE Activate(x)
  <2>1. back[x] \in Backs /\ x # None BY DEF Backs
  <2> QED BY <1>1, <2>1 DEF Backs, Activate
<1>2. CASE Incref(x)
  BY <1>2 DEF Incref
<1>3. CASE Enqueue(x)
  <2>1. back[x] \in Backs /\ x # None BY DEF Backs
  <2> QED BY <1>3, <2>1 DEF Backs, Enqueue
<1>4. CASE Ungrab(x)
  BY <1>4 DEF Ungrab
<1>5. CASE Uncount(x)
  BY <1>5 DEF Uncount
<1>6. CASE Tell(x) /\ Told(x)
  BY <1>6 DEF Tell, Told
<1>7. ASSUME NEW t \in Tasks, Take(x, t) PROVE Plain
  BY <1>7 DEF Take
<1>8. CASE Handle(x)
  BY <1>8 DEF Handle
<1>9. CASE Release(x)
  BY <1>9 DEF Release
<1>10. CASE Recheck(x)
  BY <1>10 DEF Recheck
<1>11. CASE CloseSelf(x) /\ Closed(x, inh[x], "run")
  BY <1>11 DEF CloseSelf, Closed, Silent
<1>12. CASE PostStartup(x)
  BY <1>12 DEF PostStartup
<1>13. CASE LateClose(x)
  BY <1>13 DEF LateClose
<1>14. CASE RegisterCheck(x) /\ Checked(x)
  BY <1>14 DEF RegisterCheck, Checked, Rests, Silent
<1>15. CASE RegisterEnd(x)
  BY <1>15 DEF RegisterEnd
<1>16. ASSUME NEW t \in Tasks, Grab(x, t) PROVE Plain
  BY <1>16 DEF Grab
<1>17. CASE Emit(x)
  BY <1>17 DEF Emit
<1>18. CASE CloseHeld(x) /\ Closed(x, cur[x], "ungrab")
  BY <1>18 DEF CloseHeld, Closed, Silent
<1>19. CASE LetGo(x)
  BY <1>19 DEF LetGo
<1>20. ASSUME NEW t \in Tasks, PostTo(x, t) PROVE Plain
  BY <1>20 DEF PostTo
<1>21. CASE PostEnd(x)
  BY <1>21 DEF PostEnd
<1>22. CASE x = Main /\ Shutdown
  BY <1>22 DEF Shutdown
<1>23. ASSUME x = Main, NEW t \in Tasks, Broadcast(t), Broadcasted(t) PROVE Plain
  <2>1. t \in map BY <1>23 DEF Broadcast, Reads
  <2> QED BY <1>23, <2>1 DEF Broadcast, Broadcasted
<1>24. CASE x = Main /\ (BroadcastEnd \/ Prepare \/ LookTable \/ LookCount \/ Commit \/ TimedOut)
  BY <1>24 DEF BroadcastEnd, Prepare, LookTable, LookCount, Commit, TimedOut
<1> HIDE DEF Plain
<1> QED
  BY <1>1, <1>2, <1>3, <1>4, <1>5, <1>6, <1>7, <1>8, <1>9, <1>10, <1>11, <1>12, <1>13, <1>14,
     <1>15, <1>16, <1>17, <1>18, <1>19, <1>20, <1>21, <1>22, <1>23, <1>24
  DEF Move, Makes

\* A step that neither unmaps nor frees leaves the dying tasks alone.
LEMMA DyingKept ==
  ASSUME NEW x \in Threads, Elsewhere(x), UNCHANGED deferred,
         pc[x] # "free", pc'[x] # "free"
  PROVE  /\ Pending' = Pending
         /\ \A y \in Threads, t \in Tasks : Frees(y, t)' <=> Frees(y, t)
         /\ \A t \in Tasks : Dying(t)' <=> Dying(t)
<1>1. \A y \in Threads, t \in Tasks : Frees(y, t)' <=> Frees(y, t)
  BY DEF Elsewhere, Frees
<1>2. Pending' = Pending
  BY DEF Pending
<1> QED
  BY <1>1, <1>2 DEF Dying

LEMMA MemoryStep ==
  ASSUME IInv, NEW x \in Threads, Move(x), Elsewhere(x), Control', TypeOK'
  PROVE  Memory'
<1>1. CASE ~Makes(x)
  <2>1. /\ UNCHANGED <<map, mem, registered, deferred>>
        /\ pc[x] # "free" /\ pc'[x] # "free"
        /\ \A t \in Tasks : mem[t] = "none" => global'[t] = global[t] /\ qumsg'[t] = qumsg[t]
    BY <1>1, OrdinaryStep
  <2>2. /\ Pending' = Pending
        /\ \A y \in Threads, t \in Tasks : Frees(y, t)' <=> Frees(y, t)
        /\ \A t \in Tasks : Dying(t)' <=> Dying(t)
    BY <2>1, DyingKept
  <2>3. Memory BY DEF IInv
  <2> QED BY <2>1, <2>2, <2>3 DEF Memory
<1>2. ASSUME NEW t \in Tasks, NEW n \in Names \cup {None}, NEW b \in BOOLEAN, New(x, t, n, b)
      PROVE  Memory'
  <2>1. /\ UNCHANGED <<map, registered, global, qumsg, deferred>>
        /\ pc[x] # "free" /\ pc'[x] # "free"
        /\ mem[t] = "none" /\ mem' = [mem EXCEPT ![t] = "live"]
    BY <1>2 DEF New, Goto, table, queueing, IInv, TypeOK
  <2>2. /\ Pending' = Pending
        /\ \A y \in Threads, u \in Tasks : Frees(y, u)' <=> Frees(y, u)
        /\ \A u \in Tasks : Dying(u)' <=> Dying(u)
    BY <2>1, DyingKept
  <2>3. Memory /\ mem \in [Tasks -> {"none", "live", "freed"}] BY DEF IInv, TypeOK
  <2> QED BY <2>1, <2>2, <2>3 DEF Memory
<1>3. CASE RegisterFails(x)
  <2>1. /\ UNCHANGED <<map, registered, global, qumsg, deferred>>
        /\ pc[x] # "free" /\ pc'[x] # "free"
        /\ mem' = [mem EXCEPT ![cur[x]] = "freed"]
    BY <1>3 DEF RegisterFails, Goto, Home, table, queueing, IInv, TypeOK
  <2>2. /\ Pending' = Pending
        /\ \A y \in Threads, u \in Tasks : Frees(y, u)' <=> Frees(y, u)
        /\ \A u \in Tasks : Dying(u)' <=> Dying(u)
    BY <2>1, DyingKept
  <2>3. Memory /\ mem \in [Tasks -> {"none", "live", "freed"}] BY DEF IInv, TypeOK
  <2>4. cur[x] \in Tasks /\ ~registered[cur[x]]
    BY <1>3 DEF RegisterFails, IInv, Fresh, Control, ControlOf
  <2> QED BY <2>1, <2>2, <2>3, <2>4 DEF Memory
<1>4. CASE Register(x)
  <2>1. /\ UNCHANGED <<mem, global, qumsg, deferred>>
        /\ pc[x] # "free" /\ pc'[x] # "free"
        /\ map' = map \cup {cur[x]} /\ registered' = [registered EXCEPT ![cur[x]] = TRUE]
    BY <1>4 DEF Register, Goto, object, queueing, IInv, TypeOK
  <2>2. /\ Pending' = Pending
        /\ \A y \in Threads, u \in Tasks : Frees(y, u)' <=> Frees(y, u)
        /\ \A u \in Tasks : Dying(u)' <=> Dying(u)
    BY <2>1, DyingKept
  <2>3. Memory /\ registered \in [Tasks -> BOOLEAN] /\ map \subseteq Tasks BY DEF IInv, TypeOK
  <2>4. cur[x] \in Tasks /\ mem[cur[x]] = "live" /\ ~registered[cur[x]]
    BY <1>4 DEF Register, IInv, Fresh, Control, ControlOf
  <2>5. ~Dying(cur[x]) BY <2>3, <2>4 DEF Memory
  <2> QED BY <2>1, <2>2, <2>3, <2>4, <2>5 DEF Memory
<1>5. CASE Unmap(x) /\ Unmapped(x)
  <2>0. Memory /\ map \subseteq Tasks /\ deferred \in [Nets -> SUBSET Tasks] BY DEF IInv, TypeOK
  <2>1. UNCHANGED <<mem, registered, global, qumsg, cur>>
    BY <1>5 DEF Unmap, object, queueing, frames
  <2>2. CASE ~Gone(cur[x])
    <3>1. UNCHANGED <<map, deferred>> /\ pc[x] # "free" /\ pc'[x] # "free"
      BY <1>5, <2>2 DEF Unmap, Unmapped, Home, IInv, TypeOK
    <3>2. /\ Pending' = Pending
          /\ \A y \in Threads, u \in Tasks : Frees(y, u)' <=> Frees(y, u)
          /\ \A u \in Tasks : Dying(u)' <=> Dying(u)
      BY <3>1, DyingKept
    <3> QED BY <2>0, <2>1, <3>1, <3>2 DEF Memory
  <2>3. CASE Gone(cur[x])
    <3>1. cur[x] \in Tasks /\ cur[x] \in map /\ map' = map \ {cur[x]}
      BY <1>5, <2>0, <2>3 DEF Unmapped, Gone
    <3>2. ~Dying(cur[x]) /\ mem[cur[x]] = "live" /\ registered[cur[x]]
      BY <2>0, <3>1 DEF Memory
    <3>3. CASE x \in Nets
      <4>1. /\ deferred' = [deferred EXCEPT ![x] = @ \cup {cur[x]}]
            /\ pc[x] # "free" /\ pc'[x] # "free"
        BY <1>5, <2>3, <3>3 DEF Unmap, Unmapped, Home, IInv, TypeOK
      <4>2. \A y \in Threads, u \in Tasks : Frees(y, u)' <=> Frees(y, u)
        BY <4>1 DEF Elsewhere, Frees
      <4>3. Pending' = Pending \cup {cur[x]}
        BY <2>0, <3>1, <3>3, <4>1 DEF Pending
      <4>4. \A u \in Tasks : Dying(u)' <=> Dying(u) \/ u = cur[x]
        BY <4>2, <4>3 DEF Dying
      <4>5. \A m \in Nets : cur[x] \notin deferred[m]
        BY <3>1, <3>2 DEF Dying, Pending
      <4>6. \A n, o \in Nets : deferred'[n] \cap deferred'[o] # {} => n = o
        BY <2>0, <4>1, <4>5 DEF Memory
      <4>7. \A y \in Threads : ~Frees(y, cur[x]) BY <3>2 DEF Dying
      <4> QED BY <2>0, <2>1, <3>1, <3>2, <4>2, <4>3, <4>4, <4>6, <4>7 DEF Memory
    <3>4. CASE x \notin Nets
      <4>1. UNCHANGED deferred /\ pc[x] # "free" /\ pc'[x] = "free"
        BY <1>5, <2>3, <3>4 DEF Unmap, Unmapped, IInv, TypeOK
      <4>2. Pending' = Pending
        BY <4>1 DEF Pending
      <4>3. \A y \in Threads, u \in Tasks : Frees(y, u)' <=> Frees(y, u) \/ (y = x /\ u = cur[x])
        BY <2>1, <4>1 DEF Elsewhere, Frees
      <4>4. \A u \in Tasks : Dying(u)' <=> Dying(u) \/ u = cur[x]
        BY <3>1, <4>2, <4>3 DEF Dying
      <4>5. cur[x] \notin Pending /\ \A y \in Threads : ~Frees(y, cur[x]) BY <3>2 DEF Dying
      <4> QED BY <2>0, <2>1, <3>1, <3>2, <4>1, <4>2, <4>3, <4>4, <4>5 DEF Memory
    <3> QED BY <3>3, <3>4
  <2> QED BY <2>2, <2>3
<1>6. CASE DeferredFree(x)
  <2>0. Memory /\ deferred \in [Nets -> SUBSET Tasks] BY DEF IInv, TypeOK
  <2>1. UNCHANGED <<map, mem, registered, global, qumsg>>
    BY <1>6 DEF DeferredFree, table, object, queueing
  <2>2. PICK t \in deferred[x] : /\ deferred' = [deferred EXCEPT ![x] = @ \ {t}]
                                 /\ cur' = [cur EXCEPT ![x] = t]
    BY <1>6 DEF DeferredFree
  <2>3. x \in Nets /\ t \in Tasks /\ pc[x] # "free" /\ pc'[x] = "free" /\ cur'[x] = t
    BY <1>6, <2>0, <2>2 DEF DeferredFree, Goto, IInv, TypeOK
  <2>4. Pending' = Pending \ {t} /\ t \in Pending
    BY <2>0, <2>2, <2>3 DEF Pending, Memory
  <2>5. \A y \in Threads, u \in Tasks : Frees(y, u)' <=> Frees(y, u) \/ (y = x /\ u = t)
    BY <2>3 DEF Elsewhere, Frees
  <2>6. \A u \in Tasks : Dying(u)' <=> Dying(u)
    BY <2>4, <2>5 DEF Dying
  <2>7. \A n, o \in Nets : deferred'[n] \cap deferred'[o] # {} => n = o
    BY <2>0, <2>2 DEF Memory
  <2> QED BY <2>0, <2>1, <2>3, <2>4, <2>5, <2>6, <2>7 DEF Memory
<1>7. CASE Free(x)
  <2>0. /\ Memory /\ mem \in [Tasks -> {"none", "live", "freed"}]
        /\ qumsg \in [Tasks -> Seq({"startup", "closing", "user"})]
    BY DEF IInv, TypeOK
  <2>1. /\ UNCHANGED <<map, registered, global, deferred, cur>>
        /\ mem' = [mem EXCEPT ![cur[x]] = "freed"]
        /\ qumsg' = [qumsg EXCEPT ![cur[x]] = <<>>]
        /\ pc[x] = "free" /\ pc'[x] # "free"
    BY <1>7 DEF Free, table, frames, Goto, IInv, TypeOK
  <2>2. cur[x] \in Tasks /\ Frees(x, cur[x]) /\ Dying(cur[x])
    BY <2>1 DEF Frees, Dying, IInv, Control, ControlOf
  <2>3. Pending' = Pending
    BY <2>1 DEF Pending
  <2>4. \A y \in Threads, u \in Tasks : Frees(y, u)' <=> Frees(y, u) /\ y # x
    BY <2>1 DEF Elsewhere, Frees
  <2>5. cur[x] \notin Pending /\ \A y \in Threads : Frees(y, cur[x]) => y = x
    BY <2>0, <2>2 DEF Memory
  <2>6. \A u \in Tasks : Frees(x, u) => u = cur[x]
    BY DEF Frees
  <2>7. \A u \in Tasks : Dying(u)' <=> Dying(u) /\ u # cur[x]
    BY <2>3, <2>4, <2>5, <2>6 DEF Dying
  <2> QED BY <2>0, <2>1, <2>2, <2>3, <2>4, <2>7 DEF Memory
<1> QED
  BY <1>1, <1>2, <1>3, <1>4, <1>5, <1>6, <1>7, UnmapForm DEF Makes

LEMMA FreshStep ==
  ASSUME IInv, NEW x \in Threads, Move(x), Elsewhere(x), Control', TypeOK'
  PROVE  Fresh'
<1>a. ASSUME NEW y \in Threads, pc[y] \in {"register", "start"}, y # x
      PROVE  inh[x] # cur[y] /\ (Works(x) => cur[x] # cur[y])
  BY <1>a, FreshAlone
<1> USE DEF IInv, Elsewhere, Registers, Reads, Activating, Control, ControlOf, Works, TypeOK,
          Scanning, Locks, Mapped, Memory, Fresh, Goto, Home, Post, table, lock, object, queueing,
          shutdown, frames
<1>1. CASE Activate(x)
  <2>0. back[x] \in Backs /\ pc[x] \in PCs BY DEF PCs
  <2>1. Works(x) /\ pc'[x] \notin {"register", "start"} BY <1>1, <2>0 DEF Activate, Backs
  <2> QED BY <1>1, <1>a, <2>1 DEF Activate
<1>2. CASE Incref(x)
  <2>1. Works(x) /\ pc'[x] \notin {"register", "start"} BY <1>2 DEF Incref, Backs
  <2> QED BY <1>2, <1>a, <2>1 DEF Incref
<1>3. CASE Enqueue(x)
  <2>0. back[x] \in Backs /\ pc[x] \in PCs BY DEF PCs
  <2>1. Works(x) /\ pc'[x] \notin {"register", "start"} BY <1>3, <2>0 DEF Enqueue, Backs
  <2> QED BY <1>3, <1>a, <2>1 DEF Enqueue
<1>4. CASE Ungrab(x)
  <2>1. Works(x) /\ pc'[x] \notin {"register", "start"} BY <1>4 DEF Ungrab, Backs
  <2> QED BY <1>4, <1>a, <2>1 DEF Ungrab, Home
<1>5. CASE Unmap(x) /\ Unmapped(x)
  BY <1>5 DEF Unmap, Unmapped
<1>6. CASE DeferredFree(x)
  BY <1>6 DEF DeferredFree
<1>7. CASE Free(x)
  <2>1. cur[x] \in Tasks /\ cur[x] \notin map /\ registered[cur[x]]
    BY <1>7 DEF Free, Dying, Frees
  <2>2. pc'[x] \notin {"register", "start"} BY <1>7 DEF Free
  <2> QED BY <1>7, <2>1, <2>2 DEF Free
<1>8. CASE Uncount(x)
  BY <1>8 DEF Uncount
<1>9. CASE Tell(x) /\ Told(x)
  BY <1>9 DEF Tell, Told
<1>10. ASSUME NEW t \in Tasks, Take(x, t) PROVE Fresh'
  BY <1>10 DEF Take
<1>11. CASE Handle(x)
  BY <1>11 DEF Handle
<1>12. CASE Release(x)
  BY <1>12 DEF Release
<1>13. CASE Recheck(x)
  BY <1>13 DEF Recheck
<1>14. CASE CloseSelf(x) /\ Closed(x, inh[x], "run")
  <2>1. pc'[x] \notin {"register", "start"} BY <1>14 DEF Closed
  <2> QED BY <1>14, <1>a, <2>1, SMTT(40) DEF CloseSelf, Closed, Silent
<1>15. ASSUME NEW t \in Tasks, NEW n \in Names \cup {None}, NEW b \in BOOLEAN,
             x \in Runners \cup {Main}, New(x, t, n, b)
      PROVE  Fresh'
  BY <1>15 DEF New
<1>16. CASE RegisterFails(x)
  BY <1>16 DEF RegisterFails
<1>17. CASE Register(x)
  BY <1>17 DEF Register
<1>18. CASE PostStartup(x)
  BY <1>18 DEF PostStartup
<1>19. CASE LateClose(x)
  BY <1>19 DEF LateClose
<1>20. CASE RegisterCheck(x) /\ Checked(x)
  BY <1>20 DEF RegisterCheck, Checked, Rests, Silent
<1>21. CASE RegisterEnd(x)
  BY <1>21 DEF RegisterEnd
<1>22. ASSUME NEW t \in Tasks, Grab(x, t) PROVE Fresh'
  BY <1>22 DEF Grab
<1>23. CASE Emit(x)
  <2>1. Works(x) /\ pc'[x] \notin {"register", "start"} BY <1>23 DEF Emit, Backs
  <2> QED BY <1>23, <1>a, <2>1 DEF Emit
<1>24. CASE CloseHeld(x) /\ Closed(x, cur[x], "ungrab")
  <2>1. Works(x) BY <1>24 DEF CloseHeld
  <2>2. pc'[x] \notin {"register", "start"} BY <1>24 DEF Closed
  <2> QED BY <1>24, <1>a, <2>1, <2>2 DEF CloseHeld, Closed, Silent
<1>25. CASE LetGo(x)
  BY <1>25 DEF LetGo
<1>26. ASSUME NEW t \in Tasks, PostTo(x, t) PROVE Fresh'
  BY <1>26 DEF PostTo
<1>27. CASE PostEnd(x)
  BY <1>27 DEF PostEnd
<1>28. CASE x = Main /\ Shutdown
  BY <1>28 DEF Shutdown
<1>29. ASSUME x = Main, NEW t \in Tasks, Broadcast(t), Broadcasted(t) PROVE Fresh'
  BY <1>29 DEF Broadcast, Broadcasted
<1>30. CASE x = Main /\ (BroadcastEnd \/ Prepare \/ LookTable \/ LookCount \/ Commit \/ TimedOut)
  BY <1>30 DEF BroadcastEnd, Prepare, LookTable, LookCount, Commit, TimedOut
<1> HIDE DEF Fresh
<1> QED
  BY <1>1, <1>2, <1>3, <1>4, <1>5, <1>6, <1>7, <1>8, <1>9, <1>10, <1>11, <1>12, <1>13, <1>14,
     <1>15, <1>16, <1>17, <1>18, <1>19, <1>20, <1>21, <1>22, <1>23, <1>24, <1>25, <1>26, <1>27,
     <1>28, <1>29, <1>30
  DEF Move

-----------------------------------------------------------------------------
(* A task is in one place, and CLOSING is on its way once *)

LEMMA OnePlaceStep ==
  ASSUME IInv, NEW x \in Threads, Move(x), Elsewhere(x), Control', TypeOK'
  PROVE  OnePlace'
<1> DEFINE At(u) == global[u] = runq[u] + RunCount(u) + ScheduleCount(u)
<1> SUFFICES ASSUME NEW u \in Tasks PROVE At(u)'
  BY DEF OnePlace, RunCount, ScheduleCount
<1>a. At(u)
  BY DEF IInv, OnePlace, RunCount, ScheduleCount
<1>b. /\ RunCount(u) \in Nat /\ ScheduleCount(u) \in Nat
      /\ Runs(x, u) => RunCount(u) > 0
      /\ Schedules(x, u) => ScheduleCount(u) > 0
      /\ RunCount(u)' = RunCount(u) + One(Runs(x, u)') - One(Runs(x, u))
      /\ ScheduleCount(u)' = ScheduleCount(u) + One(Schedules(x, u)') - One(Schedules(x, u))
  BY CountsType, CountsStep
<1> USE <1>a, <1>b
<1> USE DEF IInv, Control, ControlOf, Works, TypeOK, Activating, One, Runs, Schedules, Goto, Home,
          Post, table, lock, object, queueing, shutdown, frames
<1>1. CASE Activate(x)
  <2>0. /\ back[x] \in Backs /\ cur[x] \in Tasks /\ global[u] \in {0, 1}
        /\ runq[u] \in {0, 1} /\ pc[x] = "activate" /\ inh'[x] = inh[x] /\ cur'[x] = cur[x] /\ runq' = runq
    BY <1>1 DEF Activate, Backs
  <2>1. CASE u = cur[x] /\ global[u] = 0
    <3>1. pc'[x] = "incref" /\ global'[u] = 1 BY <1>1, <2>0, <2>1 DEF Activate
    <3>2. ScheduleCount(u)' = ScheduleCount(u) + 1 /\ RunCount(u)' = RunCount(u)
      BY <2>0, <2>1, <3>1
    <3> HIDE DEF IInv, Control, ControlOf, Works, TypeOK, Runs, Schedules
    <3> QED BY <2>0, <2>1, <3>1, <3>2
  <2>2. CASE u = cur[x] /\ global[u] = 1
    <3>1. pc'[x] = back[x] /\ global'[u] = 1 BY <1>1, <2>0, <2>2 DEF Activate
    <3> QED BY <2>0, <2>2, <3>1 DEF Backs
  <2>3. CASE u # cur[x]
    <3>1. global'[u] = global[u] BY <1>1, <2>0, <2>3 DEF Activate
    <3> QED BY <2>0, <2>3, <3>1
  <2> QED BY <2>0, <2>1, <2>2, <2>3
<1>2. CASE Incref(x)
  BY <1>2 DEF Incref
<1>3. CASE Enqueue(x)
  <2>0. back[x] \in Backs /\ cur[x] \in Tasks BY <1>3 DEF Enqueue, Backs
  <2>1. CASE u = cur[x]
    BY <1>3, <2>0, <2>1 DEF Enqueue, Backs
  <2>2. CASE u # cur[x]
    BY <1>3, <2>0, <2>2 DEF Enqueue
  <2> QED BY <2>1, <2>2
<1>4. CASE Ungrab(x)
  BY <1>4 DEF Ungrab
<1>5. CASE Unmap(x) /\ Unmapped(x)
  BY <1>5 DEF Unmap, Unmapped
<1>6. CASE DeferredFree(x)
  BY <1>6 DEF DeferredFree
<1>7. CASE Free(x)
  BY <1>7 DEF Free
<1>8. CASE Uncount(x)
  BY <1>8 DEF Uncount
<1>9. CASE Tell(x) /\ Told(x)
  BY <1>9 DEF Tell, Told
<1>10. ASSUME NEW t \in Tasks, Take(x, t) PROVE At(u)'
  BY <1>10 DEF Take
<1>11. CASE Handle(x)
  BY <1>11 DEF Handle
<1>12. CASE Release(x)
  <2>1. inh[x] \in Tasks /\ global[u] \in {0, 1} /\ runq[u] \in {0, 1} BY <1>12 DEF Release
  <2>2. CASE u = inh[x]
    <3>1. RunCount(u)' = RunCount(u) - 1 /\ ScheduleCount(u)' = ScheduleCount(u)
      BY <1>12, <2>2 DEF Release
    <3>2. global'[u] = 0 /\ runq'[u] = runq[u] BY <1>12, <2>2 DEF Release
    <3>3. RunCount(u) = 1 /\ ScheduleCount(u) = 0 /\ runq[u] = 0
      <4>1. RunCount(u) > 0 BY <2>2
      <4> HIDE DEF IInv, Control, ControlOf, Works, TypeOK, Runs, Schedules
      <4> QED BY <2>1, <4>1
    <3> QED BY <3>1, <3>2, <3>3
  <2>3. CASE u # inh[x]
    <3>1. ~Runs(x, u) /\ ~Runs(x, u)' /\ ~Schedules(x, u) /\ ~Schedules(x, u)'
      BY <1>12, <2>3 DEF Release
    <3>2. global'[u] = global[u] /\ runq'[u] = runq[u] BY <1>12, <2>3 DEF Release
    <3> HIDE DEF Runs, Schedules
    <3> QED BY <3>1, <3>2
  <2> QED BY <2>2, <2>3
<1>13. CASE Recheck(x)
  BY <1>13 DEF Recheck
<1>14. CASE CloseSelf(x) /\ Closed(x, inh[x], "run")
  BY <1>14 DEF CloseSelf, Closed, Silent
<1>15. ASSUME NEW t \in Tasks, NEW n \in Names \cup {None}, NEW b \in BOOLEAN,
             x \in Runners \cup {Main}, New(x, t, n, b)
      PROVE  At(u)'
  BY <1>15 DEF New
<1>16. CASE RegisterFails(x)
  BY <1>16 DEF RegisterFails
<1>17. CASE Register(x)
  BY <1>17 DEF Register
<1>18. CASE PostStartup(x)
  BY <1>18 DEF PostStartup
<1>19. CASE LateClose(x)
  BY <1>19 DEF LateClose
<1>20. CASE RegisterCheck(x) /\ Checked(x)
  BY <1>20 DEF RegisterCheck, Checked, Rests, Silent
<1>21. CASE RegisterEnd(x)
  BY <1>21 DEF RegisterEnd
<1>22. ASSUME NEW t \in Tasks, Grab(x, t) PROVE At(u)'
  BY <1>22 DEF Grab
<1>23. CASE Emit(x)
  BY <1>23 DEF Emit
<1>24. CASE CloseHeld(x) /\ Closed(x, cur[x], "ungrab")
  BY <1>24 DEF CloseHeld, Closed, Silent
<1>25. CASE LetGo(x)
  BY <1>25 DEF LetGo
<1>26. ASSUME NEW t \in Tasks, PostTo(x, t) PROVE At(u)'
  BY <1>26 DEF PostTo
<1>27. CASE PostEnd(x)
  BY <1>27 DEF PostEnd
<1>28. CASE x = Main /\ Shutdown
  BY <1>28 DEF Shutdown
<1>29. ASSUME x = Main, NEW t \in Tasks, Broadcast(t), Broadcasted(t) PROVE At(u)'
  BY <1>29 DEF Broadcast, Broadcasted
<1>30. CASE x = Main /\ (BroadcastEnd \/ Prepare \/ LookTable \/ LookCount \/ Commit \/ TimedOut)
  BY <1>30 DEF BroadcastEnd, Prepare, LookTable, LookCount, Commit, TimedOut
<1> QED
  BY <1>1, <1>2, <1>3, <1>4, <1>5, <1>6, <1>7, <1>8, <1>9, <1>10, <1>11, <1>12, <1>13, <1>14,
     <1>15, <1>16, <1>17, <1>18, <1>19, <1>20, <1>21, <1>22, <1>23, <1>24, <1>25, <1>26, <1>27,
     <1>28, <1>29, <1>30
  DEF Move

LEMMA OneClosingStep ==
  ASSUME IInv, NEW x \in Threads, Move(x), Elsewhere(x), Control', TypeOK'
  PROVE  OneClosing'
<1>a. ASSUME NEW y \in Threads, pc[y] \in {"register", "start"}, y # x
      PROVE  inh[x] # cur[y] /\ (Works(x) => cur[x] # cur[y])
  BY <1>a, FreshAlone
<1> USE DEF IInv, Elsewhere, Registers, Reads, Activating, Control, ControlOf, Works, TypeOK,
          Scanning, Locks, Mapped, Memory, Fresh, OneClosing, Closes, Gives, LateFor, Goto, Home,
          Post, table, lock, object, queueing, shutdown, frames
<1>1. CASE Activate(x)
  <2>0. back[x] \in Backs BY DEF Backs
  <2>1. ASSUME NEW y \in Threads, NEW t \in Tasks
        PROVE  (Gives(y, t)' => Gives(y, t)) /\ (LateFor(y, t)' => LateFor(y, t))
    BY <1>1, <2>0, <2>1 DEF Activate, Backs
  <2>2. UNCHANGED <<qumsg, closing>> BY <1>1 DEF Activate
  <2> HIDE DEF Gives, LateFor, Locks, Mapped, Memory, Fresh, Control, ControlOf, Elsewhere
  <2> QED BY <2>1, <2>2
<1>2. CASE Incref(x)
  BY <1>2 DEF Incref
<1>3. CASE Enqueue(x)
  <2>0. back[x] \in Backs BY DEF Backs
  <2>1. ASSUME NEW y \in Threads, NEW t \in Tasks
        PROVE  (Gives(y, t)' => Gives(y, t)) /\ (LateFor(y, t)' => LateFor(y, t))
    BY <1>3, <2>0, <2>1 DEF Enqueue, Backs
  <2>2. UNCHANGED <<qumsg, closing>> BY <1>3 DEF Enqueue
  <2> HIDE DEF Gives, LateFor, Locks, Mapped, Memory, Fresh, Control, ControlOf, Elsewhere
  <2> QED BY <2>1, <2>2
<1>4. CASE Ungrab(x)
  BY <1>4 DEF Ungrab
<1>5. CASE Unmap(x) /\ Unmapped(x)
  BY <1>5 DEF Unmap, Unmapped
<1>6. CASE DeferredFree(x)
  BY <1>6 DEF DeferredFree
<1>7. CASE Free(x)
  BY <1>7 DEF Free
<1>8. CASE Uncount(x)
  BY <1>8 DEF Uncount
<1>9. CASE Tell(x) /\ Told(x)
  <2>1. ASSUME NEW y \in Threads, NEW t \in Tasks
        PROVE  (Gives(y, t)' => Gives(y, t)) /\ (LateFor(y, t)' => LateFor(y, t))
    BY <1>9, <2>1 DEF Tell, Told
  <2>2. UNCHANGED <<qumsg, closing>>
    BY <1>9 DEF Tell, queueing
  <2> HIDE DEF Gives, LateFor, Locks, Mapped, Memory, Fresh, Control, ControlOf, Elsewhere
  <2> QED BY <2>1, <2>2
<1>10. ASSUME NEW t \in Tasks, Take(x, t) PROVE OneClosing'
  BY <1>10 DEF Take
<1>11. CASE Handle(x)
  <2>1. ASSUME NEW y \in Threads, NEW t \in Tasks
        PROVE  /\ LateFor(y, t)' => LateFor(y, t)
               /\ Gives(y, t)' => Gives(y, t) \/ (t = inh[x] /\ Head(qumsg[t]) = "closing")
    BY <1>11, <2>1 DEF Handle
  <2>2. /\ qumsg' = [qumsg EXCEPT ![inh[x]] = Tail(@)] /\ UNCHANGED closing
        /\ inh[x] \in Tasks /\ qumsg[inh[x]] # <<>>
    BY <1>11 DEF Handle
  <2> HIDE DEF Gives, LateFor, Locks, Mapped, Memory, Fresh, Control, ControlOf, Elsewhere
  <2>3. /\ Head(qumsg[inh[x]]) = qumsg[inh[x]][1] /\ 1 \in DOMAIN qumsg[inh[x]]
        /\ \A i \in DOMAIN Tail(qumsg[inh[x]]) :
             /\ i \in Nat /\ i # 0 /\ i + 1 \in DOMAIN qumsg[inh[x]]
             /\ Tail(qumsg[inh[x]])[i] = qumsg[inh[x]][i + 1]
    <3>1. qumsg[inh[x]] \in Seq({"startup", "closing", "user"}) BY <2>2
    <3> HIDE DEF IInv, OneClosing, TypeOK
    <3> QED BY <2>2, <3>1
  <2>4. /\ OneClosing
        /\ \A i, j \in DOMAIN qumsg[inh[x]] : Closes(inh[x], i) /\ Closes(inh[x], j) => i = j
        /\ \A i \in DOMAIN qumsg[inh[x]] : Closes(inh[x], i) => closing[inh[x]]
        /\ \A y \in Threads : Gives(y, inh[x]) \/ LateFor(y, inh[x]) =>
             closing[inh[x]] /\ \A i \in DOMAIN qumsg[inh[x]] : ~Closes(inh[x], i)
        /\ \A y, z \in Threads : ~(LateFor(y, inh[x]) /\ Gives(z, inh[x]))
    BY <2>2
  <2>5. \A u \in Tasks : u # inh[x] => qumsg'[u] = qumsg[u]
    BY <2>2
  <2>6. qumsg'[inh[x]] = Tail(qumsg[inh[x]])
    BY <2>2
  <2> HIDE DEF TypeOK, IInv
  <2> SUFFICES ASSUME NEW u \in Tasks
               PROVE  /\ \A i, j \in DOMAIN qumsg'[u] : Closes(u, i)' /\ Closes(u, j)' => i = j
                      /\ \A i \in DOMAIN qumsg'[u] : Closes(u, i)' => closing'[u]
                      /\ \A y \in Threads : Gives(y, u)' \/ LateFor(y, u)' =>
                           closing'[u] /\ \A i \in DOMAIN qumsg'[u] : ~Closes(u, i)'
                      /\ \A y, z \in Threads : ~(LateFor(y, u)' /\ Gives(z, u)')
    OBVIOUS
  <2>7. CASE u # inh[x]
    BY <2>1, <2>2, <2>4, <2>5, <2>7
  <2>8. CASE u = inh[x]
    <3> HIDE DEF OneClosing
    <3>1. /\ \A i \in DOMAIN qumsg'[u] : Closes(u, i)' => Closes(u, i + 1) /\ i \in Nat /\ i # 0
          /\ \A i \in DOMAIN qumsg'[u] : i + 1 \in DOMAIN qumsg[u]
          /\ Head(qumsg[u]) = "closing" => Closes(u, 1)
      BY <2>3, <2>6, <2>8
    <3> HIDE DEF Closes
    <3>2. \A i, j \in DOMAIN qumsg'[u] : Closes(u, i)' /\ Closes(u, j)' => i = j
      BY <2>4, <2>8, <3>1
    <3>3. \A i \in DOMAIN qumsg'[u] : Closes(u, i)' => closing'[u]
      BY <2>2, <2>4, <2>8, <3>1
    <3>4. Head(qumsg[u]) = "closing" =>
             closing'[u] /\ \A i \in DOMAIN qumsg'[u] : ~Closes(u, i)'
      BY <2>2, <2>3, <2>4, <2>8, <3>1
    <3>5. \A y \in Threads : Gives(y, u)' \/ LateFor(y, u)' =>
             closing'[u] /\ \A i \in DOMAIN qumsg'[u] : ~Closes(u, i)'
      BY <2>1, <2>2, <2>4, <2>8, <3>1, <3>4
    <3>6. \A y, z \in Threads : ~(LateFor(y, u)' /\ Gives(z, u)')
      BY <2>1, <2>3, <2>4, <2>8, <3>1
    <3> QED BY <3>2, <3>3, <3>5, <3>6
  <2> QED BY <2>7, <2>8
<1>12. CASE Release(x)
  BY <1>12 DEF Release
<1>13. CASE Recheck(x)
  BY <1>13 DEF Recheck
<1>14. CASE CloseSelf(x) /\ Closed(x, inh[x], "run")
  <2>0. pc'[x] \notin {"start", "late"} /\ back[x] \in Backs
    BY <1>14 DEF Closed, Backs
  <2>1. ASSUME NEW y \in Threads, NEW t \in Tasks
        PROVE  (Gives(y, t)' => Gives(y, t)) /\ (LateFor(y, t)' => LateFor(y, t))
    <3>1. CASE y # x
      BY <1>14, <1>a, <2>1, <3>1 DEF CloseSelf, Closed
    <3>2. CASE y = x
      BY <1>14, <2>0, <2>1, <3>2 DEF CloseSelf, Closed
    <3> QED BY <3>1, <3>2
  <2>2. inh[x] \in Tasks BY <1>14 DEF CloseSelf
  <2> HIDE DEF Gives, LateFor, Locks, Mapped, Memory, Fresh, Control, ControlOf, Elsewhere
  <2>3. CASE Silent(inh[x])
    BY <1>14, <2>1, <2>2, <2>3 DEF Closed, Silent
  <2>4. CASE ~Silent(inh[x])
    BY <1>14, <2>1, <2>2, <2>4 DEF Closed, Silent
  <2> QED BY <2>3, <2>4
<1>15. ASSUME NEW t \in Tasks, NEW n \in Names \cup {None}, NEW b \in BOOLEAN,
             x \in Runners \cup {Main}, New(x, t, n, b)
      PROVE  OneClosing'
  BY <1>15 DEF New
<1>16. CASE RegisterFails(x)
  BY <1>16 DEF RegisterFails
<1>17. CASE Register(x)
  BY <1>17 DEF Register
<1>18. CASE PostStartup(x)
  <2>1. ASSUME NEW y \in Threads, NEW t \in Tasks
        PROVE  (Gives(y, t)' => Gives(y, t)) /\ (LateFor(y, t)' => LateFor(y, t))
    BY <1>18, <2>1 DEF PostStartup
  <2>2. /\ qumsg' = [qumsg EXCEPT ![cur[x]] = Append(@, "startup")]
        /\ UNCHANGED closing /\ cur[x] \in Tasks
    BY <1>18 DEF PostStartup
  <2> HIDE DEF Gives, LateFor, Locks, Mapped, Memory, Fresh, Control, ControlOf, Elsewhere
  <2> QED BY <2>1, <2>2
<1>19. CASE LateClose(x)
  <2>1. ASSUME NEW y \in Threads, NEW t \in Tasks
        PROVE  ~LateFor(y, t)' /\ (Gives(y, t)' => Gives(y, t))
    BY <1>19, <2>1 DEF LateClose
  <2>2. LateFor(x, cur[x]) /\ cur[x] \in Tasks
    BY <1>19 DEF LateClose
  <2>3. qumsg' = [qumsg EXCEPT ![cur[x]] = Append(@, "closing")] /\ UNCHANGED closing
    BY <1>19 DEF LateClose
  <2> HIDE DEF Gives, LateFor, Locks, Mapped, Memory, Fresh, Control, ControlOf, Elsewhere
  <2> QED BY <2>1, <2>2, <2>3
<1>20. CASE RegisterCheck(x) /\ Checked(x)
  <2>0. cur[x] \in Tasks BY <1>20 DEF RegisterCheck
  <2>1. ASSUME NEW y \in Threads, NEW t \in Tasks
        PROVE  (Gives(y, t)' => Gives(y, t)) /\ (LateFor(y, t)' => LateFor(y, t))
    BY <1>20, <1>a, <2>0, <2>1 DEF RegisterCheck, Checked
  <2> HIDE DEF Gives, LateFor, Locks, Mapped, Memory, Fresh, Control, ControlOf, Elsewhere
  <2>2. CASE Rests(cur[x])
    BY <1>20, <2>0, <2>1, <2>2 DEF Checked, Rests, Silent
  <2>3. CASE ~Rests(cur[x])
    BY <1>20, <2>0, <2>1, <2>3 DEF Checked, Rests, Silent
  <2> QED BY <2>2, <2>3
<1>21. CASE RegisterEnd(x)
  BY <1>21 DEF RegisterEnd
<1>22. ASSUME NEW t \in Tasks, Grab(x, t) PROVE OneClosing'
  BY <1>22 DEF Grab
<1>23. CASE Emit(x)
  <2>1. ASSUME NEW y \in Threads, NEW t \in Tasks
        PROVE  (Gives(y, t)' => Gives(y, t)) /\ (LateFor(y, t)' => LateFor(y, t))
    BY <1>23, <2>1 DEF Emit
  <2>2. /\ qumsg' = [qumsg EXCEPT ![cur[x]] = Append(@, "user")]
        /\ UNCHANGED closing /\ cur[x] \in Tasks
    BY <1>23 DEF Emit
  <2> HIDE DEF Gives, LateFor, Locks, Mapped, Memory, Fresh, Control, ControlOf, Elsewhere
  <2> QED BY <2>1, <2>2
<1>24. CASE CloseHeld(x) /\ Closed(x, cur[x], "ungrab")
  <2>0. pc'[x] \notin {"start", "late"} /\ back[x] \in Backs
    BY <1>24 DEF Closed, Backs
  <2>1. ASSUME NEW y \in Threads, NEW t \in Tasks
        PROVE  (Gives(y, t)' => Gives(y, t)) /\ (LateFor(y, t)' => LateFor(y, t))
    <3>1. CASE y # x
      BY <1>24, <1>a, <2>1, <3>1 DEF CloseHeld, Closed
    <3>2. CASE y = x
      BY <1>24, <2>0, <2>1, <3>2 DEF CloseHeld, Closed
    <3> QED BY <3>1, <3>2
  <2>2. cur[x] \in Tasks BY <1>24 DEF CloseHeld
  <2> HIDE DEF Gives, LateFor, Locks, Mapped, Memory, Fresh, Control, ControlOf, Elsewhere
  <2>3. CASE Silent(cur[x])
    BY <1>24, <2>1, <2>2, <2>3 DEF Closed, Silent
  <2>4. CASE ~Silent(cur[x])
    BY <1>24, <2>1, <2>2, <2>4 DEF Closed, Silent
  <2> QED BY <2>3, <2>4
<1>25. CASE LetGo(x)
  BY <1>25 DEF LetGo
<1>26. ASSUME NEW t \in Tasks, PostTo(x, t) PROVE OneClosing'
  BY <1>26 DEF PostTo
<1>27. CASE PostEnd(x)
  BY <1>27 DEF PostEnd
<1>28. CASE x = Main /\ Shutdown
  BY <1>28 DEF Shutdown
<1>29. ASSUME x = Main, NEW t \in Tasks, Broadcast(t), Broadcasted(t) PROVE OneClosing'
  <2>1. ASSUME NEW y \in Threads, NEW v \in Tasks
        PROVE  (Gives(y, v)' => Gives(y, v)) /\ (LateFor(y, v)' => LateFor(y, v))
    BY <1>29, <2>1 DEF Broadcast, Broadcasted, Scanning
  <2> HIDE DEF Gives, LateFor, Locks, Mapped, Memory, Fresh, Control, ControlOf, Elsewhere
  <2>2. CASE closing[t]
    BY <1>29, <2>1, <2>2 DEF Broadcasted
  <2>3. CASE ~closing[t]
    BY <1>29, <2>1, <2>3 DEF Broadcasted
  <2> QED BY <2>2, <2>3
<1>30. CASE x = Main /\ (BroadcastEnd \/ Prepare \/ LookTable \/ LookCount \/ Commit \/ TimedOut)
  <2>1. ASSUME NEW y \in Threads, NEW t \in Tasks
        PROVE  (Gives(y, t)' => Gives(y, t)) /\ (LateFor(y, t)' => LateFor(y, t))
    BY <1>30, <2>1 DEF BroadcastEnd, Prepare, LookTable, LookCount, Commit, TimedOut
  <2>2. UNCHANGED <<qumsg, closing>>
    BY <1>30 DEF BroadcastEnd, Prepare, LookTable, LookCount, Commit, TimedOut
  <2> HIDE DEF Gives, LateFor, Locks, Mapped, Memory, Fresh, Control, ControlOf, Elsewhere
  <2> QED BY <2>1, <2>2
<1> HIDE DEF OneClosing
<1> QED
  BY <1>1, <1>2, <1>3, <1>4, <1>5, <1>6, <1>7, <1>8, <1>9, <1>10, <1>11, <1>12, <1>13, <1>14,
     <1>15, <1>16, <1>17, <1>18, <1>19, <1>20, <1>21, <1>22, <1>23, <1>24, <1>25, <1>26, <1>27,
     <1>28, <1>29, <1>30
  DEF Move

-----------------------------------------------------------------------------
(* The frees under way, and the end of the shutdown *)

\* The shutdown finds the table empty, and then nothing left to free: neither changes any more.
Emptied == /\ pc[Main] \in {"count", "done"} => map = {}
           /\ pc[Main] = "done" => nfreeing = 0

LEMMA EmptiedStep ==
  ASSUME IInv, NEW x \in Threads, Move(x), Elsewhere(x), Control', TypeOK'
  PROVE  Emptied'
<1>a. Emptied /\ (pc[x] = "uncount" => nfreeing > 0) /\ Main \in Threads
  BY Bounds DEF IInv, Counted, Emptied, Threads
<1> USE <1>a
<1> USE DEF IInv, Elsewhere, Control, ControlOf, Works, TypeOK, Activating, Mapped, Gone, Emptied,
          Scanning, Goto, Home, Post, table, lock, object, queueing, shutdown, frames
<1>1. CASE Activate(x)
  <2>1. back[x] \in Backs /\ x # None BY DEF Backs
  <2> QED BY <1>1, <2>1 DEF Backs, Activate
<1>2. CASE Incref(x)
  BY <1>2 DEF Incref
<1>3. CASE Enqueue(x)
  <2>1. back[x] \in Backs /\ x # None BY DEF Backs
  <2> QED BY <1>3, <2>1 DEF Backs, Enqueue
<1>4. CASE Ungrab(x)
  BY <1>4 DEF Ungrab
<1>5. CASE Unmap(x) /\ Unmapped(x)
  BY <1>5 DEF Unmap, Unmapped
<1>6. CASE DeferredFree(x)
  BY <1>6 DEF DeferredFree
<1>7. CASE Free(x)
  BY <1>7 DEF Free
<1>8. CASE Uncount(x)
  BY <1>8 DEF Uncount
<1>9. CASE Tell(x) /\ Told(x)
  BY <1>9 DEF Tell, Told
<1>10. ASSUME NEW t \in Tasks, Take(x, t) PROVE Emptied'
  BY <1>10 DEF Take
<1>11. CASE Handle(x)
  BY <1>11 DEF Handle
<1>12. CASE Release(x)
  BY <1>12 DEF Release
<1>13. CASE Recheck(x)
  BY <1>13 DEF Recheck
<1>14. CASE CloseSelf(x) /\ Closed(x, inh[x], "run")
  BY <1>14 DEF CloseSelf, Closed, Silent
<1>15. ASSUME NEW t \in Tasks, NEW n \in Names \cup {None}, NEW b \in BOOLEAN,
             x \in Runners \cup {Main}, New(x, t, n, b)
      PROVE  Emptied'
  BY <1>15 DEF New
<1>16. CASE RegisterFails(x)
  BY <1>16 DEF RegisterFails
<1>17. CASE Register(x)
  BY <1>17 DEF Register
<1>18. CASE PostStartup(x)
  BY <1>18 DEF PostStartup
<1>19. CASE LateClose(x)
  BY <1>19 DEF LateClose
<1>20. CASE RegisterCheck(x) /\ Checked(x)
  BY <1>20 DEF RegisterCheck, Checked, Rests, Silent
<1>21. CASE RegisterEnd(x)
  BY <1>21 DEF RegisterEnd
<1>22. ASSUME NEW t \in Tasks, Grab(x, t) PROVE Emptied'
  BY <1>22 DEF Grab
<1>23. CASE Emit(x)
  BY <1>23 DEF Emit
<1>24. CASE CloseHeld(x) /\ Closed(x, cur[x], "ungrab")
  BY <1>24 DEF CloseHeld, Closed, Silent
<1>25. CASE LetGo(x)
  BY <1>25 DEF LetGo
<1>26. ASSUME NEW t \in Tasks, PostTo(x, t) PROVE Emptied'
  BY <1>26 DEF PostTo
<1>27. CASE PostEnd(x)
  BY <1>27 DEF PostEnd
<1>28. CASE x = Main /\ Shutdown
  BY <1>28 DEF Shutdown
<1>29. ASSUME x = Main, NEW t \in Tasks, Broadcast(t), Broadcasted(t) PROVE Emptied'
  BY <1>29 DEF Broadcast, Broadcasted
<1>30. CASE x = Main /\ (BroadcastEnd \/ Prepare \/ LookTable \/ LookCount \/ Commit \/ TimedOut)
  BY <1>30 DEF BroadcastEnd, Prepare, LookTable, LookCount, Commit, TimedOut
<1> HIDE DEF Emptied
<1> QED
  BY <1>1, <1>2, <1>3, <1>4, <1>5, <1>6, <1>7, <1>8, <1>9, <1>10, <1>11, <1>12, <1>13, <1>14,
     <1>15, <1>16, <1>17, <1>18, <1>19, <1>20, <1>21, <1>22, <1>23, <1>24, <1>25, <1>26, <1>27,
     <1>28, <1>29, <1>30
  DEF Move

LEMMA CountedStep ==
  ASSUME IInv, NEW x \in Threads, Move(x), Elsewhere(x), Control', TypeOK'
  PROVE  Counted'
<1> DEFINE P == Cardinality(Pending)  E == Cardinality(Ending)
           Sum == IsFiniteSet(Pending) /\ nfreeing = P + E
<1> SUFFICES Sum'
  BY EmptiedStep DEF Counted, Emptied
<1>a. Sum /\ P \in Nat /\ E \in Nat /\ nfreeing \in Nat /\ IsFiniteSet(Ending)
  <2>1. Ending \in SUBSET Threads BY DEF Ending
  <2> QED BY <2>1, Counts, FS_CardinalityType DEF IInv, Counted, TypeOK
<1>b. E' = E + One(pc'[x] \in {"free", "uncount"}) - One(pc[x] \in {"free", "uncount"})
  <2>1. Ending \ {x} = Ending' \ {x} BY DEF Ending, Elsewhere
  <2>2. E' = E + One(x \in Ending') - One(x \in Ending)
    BY <1>a, <2>1, OneChange DEF One
  <2>3. (x \in Ending') = (pc'[x] \in {"free", "uncount"}) BY DEF Ending
  <2>4. (x \in Ending) = (pc[x] \in {"free", "uncount"}) BY DEF Ending
  <2> QED BY <2>2, <2>3, <2>4
<1> HIDE DEF E
<1>1. CASE /\ UNCHANGED <<nfreeing, deferred>>
           /\ (pc'[x] \in {"free", "uncount"}) = (pc[x] \in {"free", "uncount"})
  <2>1. Pending' = Pending BY <1>1 DEF Pending
  <2>2. E' = E BY <1>1, <1>a, <1>b DEF One
  <2> QED BY <1>1, <1>a, <2>1, <2>2
<1>2. CASE Uncount(x)
  <2>1. /\ pc[x] = "uncount" /\ pc'[x] \notin {"free", "uncount"} /\ nfreeing' = nfreeing - 1
        /\ UNCHANGED deferred
    BY <1>2 DEF Uncount, Goto, Home, IInv, TypeOK
  <2>2. Pending' = Pending BY <2>1 DEF Pending
  <2>3. E' = E - 1 BY <1>a, <1>b, <2>1 DEF One
  <2> QED BY <1>a, <2>1, <2>2, <2>3
<1>3. CASE ~Makes(x) /\ ~Uncount(x)
  BY <1>1, <1>3, OrdinaryStep
<1>4. CASE Free(x) \/ RegisterFails(x) \/ Register(x)
           \/ \E t \in Tasks, n \in Names \cup {None}, b \in BOOLEAN : New(x, t, n, b)
  BY <1>1, <1>4 DEF Free, RegisterFails, Register, New, Goto, Home, IInv, TypeOK
<1>5. CASE DeferredFree(x)
  <2>1. PICK t \in deferred[x] : deferred' = [deferred EXCEPT ![x] = @ \ {t}]
    BY <1>5 DEF DeferredFree
  <2>2. Pending' = Pending \ {t} /\ t \in Pending
    BY <1>5, <2>1 DEF DeferredFree, Pending, IInv, TypeOK, Memory
  <2>3. IsFiniteSet(Pending') /\ P' = P - 1
    BY <1>a, <2>2, FS_RemoveElement
  <2>4. E' = E + 1 /\ nfreeing' = nfreeing
    BY <1>5, <1>a, <1>b DEF One, DeferredFree, Goto, IInv, TypeOK
  <2> QED BY <1>a, <2>3, <2>4
<1>6. CASE Unmap(x)
  <2>0. Unmapped(x) BY <1>6, UnmapForm
  <2>1. CASE ~Gone(cur[x])
    BY <1>1, <1>6, <2>0, <2>1 DEF Unmap, Unmapped, Home, IInv, TypeOK
  <2>2. CASE Gone(cur[x]) /\ x \notin Nets
    <3>1. UNCHANGED deferred /\ nfreeing' = nfreeing + 1
          /\ pc'[x] = "free" /\ pc[x] \notin {"free", "uncount"}
      BY <1>6, <2>0, <2>2 DEF Unmap, Unmapped, IInv, TypeOK
    <3>2. Pending' = Pending BY <3>1 DEF Pending
    <3>3. E' = E + 1 BY <1>a, <1>b, <3>1 DEF One
    <3> QED BY <1>a, <3>1, <3>2, <3>3
  <2>3. CASE Gone(cur[x]) /\ x \in Nets
    <3>1. deferred' = [deferred EXCEPT ![x] = @ \cup {cur[x]}] /\ nfreeing' = nfreeing + 1
          /\ pc'[x] \notin {"free", "uncount"} /\ pc[x] \notin {"free", "uncount"}
      BY <1>6, <2>0, <2>3 DEF Unmap, Unmapped, Home, IInv, TypeOK
    <3>2. cur[x] \in Tasks /\ cur[x] \notin Pending
      BY <2>3 DEF Gone, IInv, TypeOK, Memory, Dying
    <3>3. Pending' = Pending \cup {cur[x]}
      BY <2>3, <3>1, <3>2 DEF Pending, IInv, TypeOK
    <3>4. IsFiniteSet(Pending') /\ P' = P + 1
      BY <1>a, <3>2, <3>3, FS_AddElement
    <3>5. E' = E BY <1>a, <1>b, <3>1 DEF One
    <3> QED BY <1>a, <3>1, <3>4, <3>5
  <2> QED BY <2>1, <2>2, <2>3
<1> QED
  BY <1>2, <1>3, <1>4, <1>5, <1>6 DEF Makes

-----------------------------------------------------------------------------
(* References *)

\* The first reference of t is with y, which handles CLOSING or is about to post it.
Pays(y, t) ==
  /\ cur[y] = t
  /\ \/ pc[y] = "ungrab" /\ inh[y] = t
     \/ pc[y] \in {"start", "late"}
     \/ pc[y] \in Activating /\ back[y] = "late"

HasClosing(q) == \E i \in DOMAIN q : q[i] = "closing"
Messages == {"startup", "closing", "user"}

LEMMA ClosingQueued ==
  ASSUME NEW q \in Seq(Messages)
  PROVE  /\ \A m \in Messages : HasClosing(Append(q, m)) <=> m = "closing" \/ HasClosing(q)
         /\ q # <<>> => (HasClosing(q) <=> Head(q) = "closing" \/ HasClosing(Tail(q)))
<1>1. ASSUME NEW m \in Messages
      PROVE  HasClosing(Append(q, m)) <=> m = "closing" \/ HasClosing(q)
  <2>1. DOMAIN Append(q, m) = 1 .. Len(q) + 1 /\ DOMAIN q = 1 .. Len(q) /\ Len(q) \in Nat
    OBVIOUS
  <2>2. Append(q, m)[Len(q) + 1] = m /\ \A i \in 1 .. Len(q) : Append(q, m)[i] = q[i]
    OBVIOUS
  <2> QED BY <2>1, <2>2 DEF HasClosing
<1>2. ASSUME q # <<>>
      PROVE  HasClosing(q) <=> Head(q) = "closing" \/ HasClosing(Tail(q))
  <2>1. /\ Len(q) \in Nat \ {0} /\ DOMAIN q = 1 .. Len(q) /\ Head(q) = q[1]
        /\ DOMAIN Tail(q) = 1 .. Len(q) - 1
        /\ \A i \in 1 .. Len(q) - 1 : Tail(q)[i] = q[i + 1]
    BY <1>2
  <2>2. \A i \in DOMAIN q : i = 1 \/ (i - 1 \in DOMAIN Tail(q) /\ q[i] = Tail(q)[i - 1])
    BY <2>1
  <2>3. \A i \in DOMAIN Tail(q) : i + 1 \in DOMAIN q /\ Tail(q)[i] = q[i + 1]
    BY <2>1
  <2> QED BY <2>1, <2>2, <2>3 DEF HasClosing
<1> QED
  BY <1>1, <1>2

\* The first reference stays while the task is in the table, until CLOSING is handled.
LEMMA CreatedStep ==
  ASSUME IInv, NEW x \in Threads, Move(x), Elsewhere(x), Control', TypeOK',
         NEW u \in map, u \in map', ~(Ungrab(x) /\ inh[x] = u)
  PROVE  Created(u)' <=> Created(u)
<1> DEFINE Local == Pays(x, u) \/ ~closing[u] \/ HasClosing(qumsg[u])
<1>c. /\ \A m \in Messages : HasClosing(Append(qumsg[u], m)) <=> m = "closing" \/ HasClosing(qumsg[u])
      /\ qumsg[u] # <<>> =>
           (HasClosing(qumsg[u]) <=> Head(qumsg[u]) = "closing" \/ HasClosing(Tail(qumsg[u])))
  <2>1. qumsg[u] \in Seq(Messages) BY DEF IInv, TypeOK, Messages
  <2> QED BY <2>1, ClosingQueued
<1>a. u \in Tasks /\ registered[u] /\ qumsg[u] \in Seq({"startup", "closing", "user"})
  BY DEF IInv, TypeOK, Memory
<1>b. registered'[u] = registered[u]
  <2>1. CASE ~Makes(x)
    BY <2>1, OrdinaryStep
  <2>2. CASE Makes(x)
    BY <1>a, <2>2 DEF Makes, Unmap, DeferredFree, Free, RegisterFails, Register, New, IInv, TypeOK
  <2> QED BY <2>1, <2>2
<1> SUFFICES Local' <=> Local
  <2>1. \A y \in Threads : y # x => (Pays(y, u)' <=> Pays(y, u))
    BY DEF Elsewhere, Pays, Activating
  <2>2. Created(u) <=> (\E y \in Threads : Pays(y, u)) \/ ~closing[u] \/ HasClosing(qumsg[u])
    BY <1>a DEF Created, Pays, HasClosing
  <2>3. Created(u)' <=> (\E y \in Threads : Pays(y, u)') \/ ~closing'[u] \/ HasClosing(qumsg'[u])
    BY <1>a, <1>b DEF Created, Pays, HasClosing
  <2> HIDE DEF Pays, HasClosing
  <2> QED BY <2>1, <2>2, <2>3
<1> DEFINE Goal == Local' <=> Local
<1> SUFFICES Goal OBVIOUS
<1> USE <1>a, <1>c
<1> USE DEF IInv, Control, ControlOf, Works, TypeOK, Activating, Mapped, Memory, Pays, Messages,
          Goto, Home, Post, table, lock, object, queueing, shutdown, frames
<1>1. CASE Activate(x)
  <2>1. back[x] \in Backs /\ x # None BY DEF Backs
  <2> QED BY <1>1, <2>1 DEF Backs, Activate
<1>2. CASE Incref(x)
  BY <1>2 DEF Incref
<1>3. CASE Enqueue(x)
  <2>1. back[x] \in Backs /\ x # None BY DEF Backs
  <2> QED BY <1>3, <2>1 DEF Backs, Enqueue
<1>4. CASE Ungrab(x)
  BY <1>4 DEF Ungrab
<1>5. CASE Unmap(x) /\ Unmapped(x)
  BY <1>5 DEF Unmap, Unmapped
<1>6. CASE DeferredFree(x)
  BY <1>6 DEF DeferredFree
<1>7. CASE Free(x)
  <2>1. cur[x] # u BY <1>7 DEF Free, Dying, Frees
  <2> QED BY <1>7, <2>1 DEF Free
<1>8. CASE Uncount(x)
  BY <1>8 DEF Uncount
<1>9. CASE Tell(x) /\ Told(x)
  BY <1>9 DEF Tell, Told
<1>10. ASSUME NEW t \in Tasks, Take(x, t) PROVE Goal
  BY <1>10 DEF Take
<1>11. CASE Handle(x)
  BY <1>11 DEF Handle
<1>12. CASE Release(x)
  BY <1>12 DEF Release
<1>13. CASE Recheck(x)
  BY <1>13 DEF Recheck
<1>14. CASE CloseSelf(x) /\ Closed(x, inh[x], "run")
  BY <1>14 DEF CloseSelf, Closed, Silent
<1>15. ASSUME NEW t \in Tasks, NEW n \in Names \cup {None}, NEW b \in BOOLEAN,
             x \in Runners \cup {Main}, New(x, t, n, b)
      PROVE  Goal
  BY <1>15 DEF New
<1>16. CASE RegisterFails(x)
  BY <1>16 DEF RegisterFails
<1>17. CASE Register(x)
  <2>1. cur[x] # u BY <1>17 DEF Register, Fresh
  <2> QED BY <1>17, <2>1 DEF Register
<1>18. CASE PostStartup(x)
  BY <1>18 DEF PostStartup
<1>19. CASE LateClose(x)
  BY <1>19 DEF LateClose
<1>20. CASE RegisterCheck(x) /\ Checked(x)
  BY <1>20 DEF RegisterCheck, Checked, Rests, Silent
<1>21. CASE RegisterEnd(x)
  BY <1>21 DEF RegisterEnd
<1>22. ASSUME NEW t \in Tasks, Grab(x, t) PROVE Goal
  BY <1>22 DEF Grab
<1>23. CASE Emit(x)
  BY <1>23 DEF Emit
<1>24. CASE CloseHeld(x) /\ Closed(x, cur[x], "ungrab")
  BY <1>24 DEF CloseHeld, Closed, Silent
<1>25. CASE LetGo(x)
  BY <1>25 DEF LetGo
<1>26. ASSUME NEW t \in Tasks, PostTo(x, t) PROVE Goal
  BY <1>26 DEF PostTo
<1>27. CASE PostEnd(x)
  BY <1>27 DEF PostEnd
<1>28. CASE x = Main /\ Shutdown
  BY <1>28 DEF Shutdown
<1>29. ASSUME x = Main, NEW t \in Tasks, Broadcast(t), Broadcasted(t) PROVE Goal
  BY <1>29 DEF Broadcast, Broadcasted
<1>30. CASE x = Main /\ (BroadcastEnd \/ Prepare \/ LookTable \/ LookCount \/ Commit \/ TimedOut)
  BY <1>30 DEF BroadcastEnd, Prepare, LookTable, LookCount, Commit, TimedOut
<1> HIDE DEF Goal
<1> QED
  BY <1>1, <1>2, <1>3, <1>4, <1>5, <1>6, <1>7, <1>8, <1>9, <1>10, <1>11, <1>12, <1>13, <1>14,
     <1>15, <1>16, <1>17, <1>18, <1>19, <1>20, <1>21, <1>22, <1>23, <1>24, <1>25, <1>26, <1>27,
     <1>28, <1>29, <1>30
  DEF Move

\* What a step of x does to the references of u that it holds or moves.
Balance(x, u) == One(Runs(x, u)) + One(Holds(x, u)) + One(Queues(x, u))

LEMMA BalancedStep ==
  ASSUME IInv, NEW x \in Threads, Move(x), Elsewhere(x), Control', TypeOK',
         NEW u \in map, ~(Ungrab(x) /\ inh[x] = u)
  PROVE  ref'[u] = ref[u] + (runq'[u] - runq[u]) + Balance(x, u)' - Balance(x, u)
<1> DEFINE Balanced == ref'[u] = ref[u] + (runq'[u] - runq[u]) + Balance(x, u)' - Balance(x, u)
<1> SUFFICES Balanced OBVIOUS
<1>a. u \in Tasks /\ ref[u] \in Nat /\ runq[u] \in {0, 1} /\ mem[u] = "live"
  BY DEF IInv, TypeOK, Memory
<1> USE <1>a
<1> USE DEF IInv, Control, ControlOf, Works, TypeOK, Activating, Mapped, Memory, Balance, Runs,
          Holds, Queues, One, Goto, Home, Post, table, lock, object, queueing, shutdown, frames
<1>1. CASE Activate(x)
  <2>0. back[x] \in Backs /\ cur[x] \in Tasks BY <1>1 DEF Activate, Backs
  <2>1. CASE u = cur[x]
    BY <1>1, <2>0, <2>1 DEF Activate, Backs
  <2>2. CASE u # cur[x]
    BY <1>1, <2>0, <2>2 DEF Activate
  <2> QED BY <2>1, <2>2
<1>2. CASE Incref(x)
  BY <1>2 DEF Incref
<1>3. CASE Enqueue(x)
  <2>0. back[x] \in Backs /\ cur[x] \in Tasks BY <1>3 DEF Enqueue, Backs
  <2>1. CASE u = cur[x]
    BY <1>3, <2>0, <2>1 DEF Enqueue, Backs
  <2>2. CASE u # cur[x]
    BY <1>3, <2>0, <2>2 DEF Enqueue
  <2> QED BY <2>1, <2>2
<1>4. CASE Ungrab(x)
  BY <1>4 DEF Ungrab
<1>5. CASE Unmap(x) /\ Unmapped(x)
  BY <1>5 DEF Unmap, Unmapped
<1>6. CASE DeferredFree(x)
  BY <1>6 DEF DeferredFree
<1>7. CASE Free(x)
  BY <1>7 DEF Free
<1>8. CASE Uncount(x)
  BY <1>8 DEF Uncount
<1>9. CASE Tell(x) /\ Told(x)
  BY <1>9 DEF Tell, Told
<1>10. ASSUME NEW t \in Tasks, Take(x, t) PROVE Balanced
  BY <1>10 DEF Take
<1>11. CASE Handle(x)
  BY <1>11 DEF Handle
<1>12. CASE Release(x)
  BY <1>12 DEF Release
<1>13. CASE Recheck(x)
  BY <1>13 DEF Recheck
<1>14. CASE CloseSelf(x) /\ Closed(x, inh[x], "run")
  BY <1>14 DEF CloseSelf, Closed, Silent
<1>15. ASSUME NEW t \in Tasks, NEW n \in Names \cup {None}, NEW b \in BOOLEAN,
             x \in Runners \cup {Main}, New(x, t, n, b)
      PROVE  Balanced
  BY <1>15 DEF New
<1>16. CASE RegisterFails(x)
  BY <1>16 DEF RegisterFails
<1>17. CASE Register(x)
  BY <1>17 DEF Register
<1>18. CASE PostStartup(x)
  BY <1>18 DEF PostStartup
<1>19. CASE LateClose(x)
  BY <1>19 DEF LateClose
<1>20. CASE RegisterCheck(x) /\ Checked(x)
  BY <1>20 DEF RegisterCheck, Checked, Rests, Silent
<1>21. CASE RegisterEnd(x)
  BY <1>21 DEF RegisterEnd
<1>22. ASSUME NEW t \in Tasks, Grab(x, t) PROVE Balanced
  BY <1>22 DEF Grab
<1>23. CASE Emit(x)
  BY <1>23 DEF Emit
<1>24. CASE CloseHeld(x) /\ Closed(x, cur[x], "ungrab")
  BY <1>24 DEF CloseHeld, Closed, Silent
<1>25. CASE LetGo(x)
  BY <1>25 DEF LetGo
<1>26. ASSUME NEW t \in Tasks, PostTo(x, t) PROVE Balanced
  BY <1>26 DEF PostTo
<1>27. CASE PostEnd(x)
  BY <1>27 DEF PostEnd
<1>28. CASE x = Main /\ Shutdown
  BY <1>28 DEF Shutdown
<1>29. ASSUME x = Main, NEW t \in Tasks, Broadcast(t), Broadcasted(t) PROVE Balanced
  BY <1>29 DEF Broadcast, Broadcasted
<1>30. CASE x = Main /\ (BroadcastEnd \/ Prepare \/ LookTable \/ LookCount \/ Commit \/ TimedOut)
  BY <1>30 DEF BroadcastEnd, Prepare, LookTable, LookCount, Commit, TimedOut
<1> HIDE DEF Balanced
<1> QED
  BY <1>1, <1>2, <1>3, <1>4, <1>5, <1>6, <1>7, <1>8, <1>9, <1>10, <1>11, <1>12, <1>13, <1>14,
     <1>15, <1>16, <1>17, <1>18, <1>19, <1>20, <1>21, <1>22, <1>23, <1>24, <1>25, <1>26, <1>27,
     <1>28, <1>29, <1>30
  DEF Move

LEMMA RefsCountedStep ==
  ASSUME IInv, NEW x \in Threads, Move(x), Elsewhere(x), Control', TypeOK', OnePlace'
  PROVE  RefsCounted'
<1> DEFINE At(u) == ref[u] = RunCount(u) + HoldCount(u) + QueueCount(u) + runq[u] + One(Created(u))
<1> SUFFICES ASSUME NEW u \in map' PROVE At(u)'
  BY DEF RefsCounted, One, Held, RunCount, HoldCount, QueueCount
<1>a. /\ u \in Tasks
      /\ RunCount(u)' = RunCount(u) + One(Runs(x, u)') - One(Runs(x, u))
      /\ HoldCount(u)' = HoldCount(u) + One(Holds(x, u)') - One(Holds(x, u))
      /\ QueueCount(u)' = QueueCount(u) + One(Queues(x, u)') - One(Queues(x, u))
  <2>1. u \in Tasks BY DEF TypeOK
  <2> QED BY <2>1, CountsStep
<1>b. ASSUME u \in map
      PROVE  /\ At(u) /\ ref[u] \in Nat /\ runq[u] \in {0, 1} /\ One(Created(u)) \in {0, 1}
             /\ RunCount(u) \in Nat /\ HoldCount(u) \in Nat /\ QueueCount(u) \in Nat
  BY <1>a, <1>b, CountOf, CountsType DEF One, IInv, TypeOK
<1>c. /\ runq'[u] \in {0, 1} /\ One(Runs(x, u)) \in {0, 1} /\ One(Runs(x, u)') \in {0, 1}
      /\ One(Holds(x, u)) \in {0, 1} /\ One(Holds(x, u)') \in {0, 1}
      /\ One(Queues(x, u)) \in {0, 1} /\ One(Queues(x, u)') \in {0, 1}
  BY <1>a DEF TypeOK, One
<1>1. CASE u \in map /\ ~(Ungrab(x) /\ inh[x] = u)
  <2>1. One(Created(u))' = One(Created(u))
    BY <1>1, CreatedStep DEF One
  <2>2. ref'[u] = ref[u] + (runq'[u] - runq[u]) + Balance(x, u)' - Balance(x, u)
    BY <1>1, BalancedStep
  <2> HIDE DEF One
  <2> QED BY <1>1, <1>a, <1>b, <1>c, <2>1, <2>2 DEF Balance
\* The reference the task was created with is given back: CLOSING was its last sign.
<1>2. CASE u \in map /\ Ungrab(x) /\ inh[x] = u
  <2>1. /\ pc[x] = "ungrab" /\ cur[x] = u /\ inh[x] = u /\ Gives(x, u)
        /\ registered[u] /\ registered'[u]
        /\ ref' = [ref EXCEPT ![u] = @ - 1] /\ pc'[x] \in {"unmap", "run"}
        /\ UNCHANGED <<inh, cur, back, runq, qumsg, closing>>
    <3>1. pc[x] = "ungrab" /\ cur[x] = u /\ inh[x] = u /\ inh[x] # None
      BY <1>2, <1>a DEF Ungrab, IInv, Control, ControlOf
    <3>2. registered[u] /\ registered'[u]
      BY <1>2, <1>a DEF Ungrab, IInv, Memory
    <3>3. pc'[x] \in {"unmap", "run"}
      BY <1>2, <3>1 DEF Ungrab, Goto, Home, IInv, TypeOK
    <3> QED BY <1>2, <3>1, <3>2, <3>3 DEF Ungrab, Gives, queueing, frames
  <2>2. One(Created(u)) = 1
    BY <2>1 DEF Created, One, Gives
  <2>3. \A y \in Threads : Runs(y, u) => y = x
    <3>1. RunCount(u) < 2
      <4>1. /\ global[u] = runq[u] + RunCount(u) + ScheduleCount(u) /\ global[u] \in {0, 1}
            /\ runq[u] \in {0, 1} /\ RunCount(u) \in Nat /\ ScheduleCount(u) \in Nat
        BY <1>a, CountsType DEF IInv, OnePlace, TypeOK, RunCount, ScheduleCount
      <4> QED BY <4>1
    <3>2. Running(u) \in SUBSET Threads /\ x \in Running(u)
      BY <1>2 DEF Running
    <3> QED BY <3>1, <3>2, Counts DEF RunCount, Running, Runs
  <2>4. ~Created(u)'
    <3>1. closing[u] /\ ~HasClosing(qumsg[u]) /\ \A y \in Threads : ~LateFor(y, u)
      BY <1>a, <2>1 DEF IInv, OneClosing, Closes, HasClosing
    <3>2. \A y \in Threads : ~Pays(y, u)'
      BY <2>1, <2>3, <3>1 DEF Elsewhere, Pays, LateFor, Runs, Activating
    <3> QED BY <2>1, <3>1, <3>2 DEF Created, Pays, HasClosing
  <2>5. One(Created(u)') = 0 BY <2>4 DEF One
  <2>6. ref'[u] = ref[u] - 1 /\ runq'[u] = runq[u]
    BY <1>a, <2>1 DEF IInv, TypeOK
  <2>7. Balance(x, u)' = Balance(x, u)
    <3>1. Runs(x, u) /\ Runs(x, u)' BY <2>1 DEF Runs
    <3>2. ~Holds(x, u) /\ ~Holds(x, u)' /\ ~Queues(x, u) /\ ~Queues(x, u)'
      BY <1>a, <2>1 DEF Holds, Queues
    <3> QED BY <3>1, <3>2 DEF Balance, One
  <2> HIDE DEF One
  <2> QED BY <1>2, <1>a, <1>b, <1>c, <2>2, <2>5, <2>6, <2>7 DEF Balance
\* A task that is put into the table has its first reference and no other.
<1>3. CASE u \notin map
  <2>1. Register(x) /\ u = cur[x]
    <3>1. Makes(x)
      BY <1>3, OrdinaryStep
    <3> QED
      BY <1>3, <3>1, UnmapForm
      DEF Makes, Unmapped, DeferredFree, Free, RegisterFails, Register, New, table
  <2>2. ref'[u] = 1 /\ runq'[u] = runq[u] /\ runq[u] = 0
    BY <1>3, <1>a, <2>1 DEF Register, IInv, Fresh, Mapped, queueing, TypeOK
  <2>3. \A y \in Threads : ~Runs(y, u)' /\ ~Holds(y, u)' /\ ~Queues(y, u)'
    BY <1>3, <1>a, <2>1
    DEF Register, Goto, frames, Elsewhere, Runs, Holds, Queues, IInv, Mapped, Works, Activating,
        TypeOK
  <2>4. RunCount(u)' = 0 /\ HoldCount(u)' = 0 /\ QueueCount(u)' = 0
    <3>1. Running(u)' = {} /\ Holding(u)' = {} /\ Enqueuing(u)' = {}
      BY <2>3 DEF Running, Holding, Enqueuing, Runs, Holds, Queues
    <3> QED BY <3>1, FS_EmptySet DEF RunCount, HoldCount, QueueCount
  <2>5. One(Created(u)') = 1
    BY <2>1 DEF Created, One, Register, Goto, frames, IInv, TypeOK
  <2> QED BY <2>2, <2>4, <2>5
<1> QED
  BY <1>1, <1>2, <1>3

-----------------------------------------------------------------------------
(* Names and STARTUP *)

LEMMA NamesAgreeStep ==
  ASSUME IInv, NEW x \in Threads, Move(x), Elsewhere(x), Control', TypeOK'
  PROVE  NamesAgree'
<1> USE DEF IInv, Control, ControlOf, Works, Activating, TypeOK, Memory, Mapped, NamesAgree,
          Repeated, Gone, Goto, Home, Post, table, lock, object, queueing, shutdown, frames
<1>1. CASE Activate(x)
  BY <1>1 DEF Activate
<1>2. CASE Incref(x)
  BY <1>2 DEF Incref
<1>3. CASE Enqueue(x)
  BY <1>3 DEF Enqueue
<1>4. CASE Ungrab(x)
  BY <1>4 DEF Ungrab
<1>5. CASE Unmap(x) /\ Unmapped(x)
  BY <1>5 DEF Unmap, Unmapped
<1>6. CASE DeferredFree(x)
  BY <1>6 DEF DeferredFree
<1>7. CASE Free(x)
  BY <1>7 DEF Free
<1>8. CASE Uncount(x)
  BY <1>8 DEF Uncount
<1>9. CASE Tell(x) /\ Told(x)
  BY <1>9 DEF Tell, Told
<1>10. ASSUME NEW t \in Tasks, Take(x, t) PROVE NamesAgree'
  BY <1>10 DEF Take
<1>11. CASE Handle(x)
  BY <1>11 DEF Handle
<1>12. CASE Release(x)
  BY <1>12 DEF Release
<1>13. CASE Recheck(x)
  BY <1>13 DEF Recheck
<1>14. CASE CloseSelf(x) /\ Closed(x, inh[x], "run")
  BY <1>14 DEF CloseSelf, Closed, Silent
<1>15. ASSUME NEW t \in Tasks, NEW n \in Names \cup {None}, NEW b \in BOOLEAN,
             x \in Runners \cup {Main}, New(x, t, n, b)
      PROVE  NamesAgree'
  BY <1>15 DEF New
<1>16. CASE RegisterFails(x)
  BY <1>16 DEF RegisterFails
<1>17. CASE Register(x)
  BY <1>17 DEF Register
<1>18. CASE PostStartup(x)
  BY <1>18 DEF PostStartup
<1>19. CASE LateClose(x)
  BY <1>19 DEF LateClose
<1>20. CASE RegisterCheck(x) /\ Checked(x)
  BY <1>20 DEF RegisterCheck, Checked, Rests, Silent
<1>21. CASE RegisterEnd(x)
  BY <1>21 DEF RegisterEnd
<1>22. ASSUME NEW t \in Tasks, Grab(x, t) PROVE NamesAgree'
  BY <1>22 DEF Grab
<1>23. CASE Emit(x)
  BY <1>23 DEF Emit
<1>24. CASE CloseHeld(x) /\ Closed(x, cur[x], "ungrab")
  BY <1>24 DEF CloseHeld, Closed, Silent
<1>25. CASE LetGo(x)
  BY <1>25 DEF LetGo
<1>26. ASSUME NEW t \in Tasks, PostTo(x, t) PROVE NamesAgree'
  BY <1>26 DEF PostTo
<1>27. CASE PostEnd(x)
  BY <1>27 DEF PostEnd
<1>28. CASE x = Main /\ Shutdown
  BY <1>28 DEF Shutdown
<1>29. ASSUME x = Main, NEW t \in Tasks, Broadcast(t), Broadcasted(t) PROVE NamesAgree'
  BY <1>29 DEF Broadcast, Broadcasted
<1>30. CASE x = Main /\ (BroadcastEnd \/ Prepare \/ LookTable \/ LookCount \/ Commit \/ TimedOut)
  BY <1>30 DEF BroadcastEnd, Prepare, LookTable, LookCount, Commit, TimedOut
<1> HIDE DEF NamesAgree
<1> QED
  BY <1>1, <1>2, <1>3, <1>4, <1>5, <1>6, <1>7, <1>8, <1>9, <1>10, <1>11, <1>12, <1>13, <1>14,
     <1>15, <1>16, <1>17, <1>18, <1>19, <1>20, <1>21, <1>22, <1>23, <1>24, <1>25, <1>26, <1>27,
     <1>28, <1>29, <1>30
  DEF Move

LEMMA StartupFirstStep ==
  ASSUME IInv, NEW x \in Threads, Move(x), Elsewhere(x), Control', TypeOK'
  PROVE  StartupFirst'
<1> USE DEF IInv, Control, ControlOf, Works, Activating, TypeOK, Fresh, StartupFirst, Goto, Home,
          Post, table, lock, object, queueing, shutdown, frames
<1>1. CASE Activate(x)
  BY <1>1 DEF Activate
<1>2. CASE Incref(x)
  BY <1>2 DEF Incref
<1>3. CASE Enqueue(x)
  BY <1>3 DEF Enqueue
<1>4. CASE Ungrab(x)
  BY <1>4 DEF Ungrab
<1>5. CASE Unmap(x) /\ Unmapped(x)
  BY <1>5 DEF Unmap, Unmapped
<1>6. CASE DeferredFree(x)
  BY <1>6 DEF DeferredFree
<1>7. CASE Free(x)
  BY <1>7 DEF Free
<1>8. CASE Uncount(x)
  BY <1>8 DEF Uncount
<1>9. CASE Tell(x) /\ Told(x)
  BY <1>9 DEF Tell, Told
<1>10. ASSUME NEW t \in Tasks, Take(x, t) PROVE StartupFirst'
  BY <1>10 DEF Take
<1>11. CASE Handle(x)
  BY <1>11 DEF Handle
<1>12. CASE Release(x)
  BY <1>12 DEF Release
<1>13. CASE Recheck(x)
  BY <1>13 DEF Recheck
<1>14. CASE CloseSelf(x) /\ Closed(x, inh[x], "run")
  BY <1>14 DEF CloseSelf, Closed, Silent
<1>15. ASSUME NEW t \in Tasks, NEW n \in Names \cup {None}, NEW b \in BOOLEAN,
             x \in Runners \cup {Main}, New(x, t, n, b)
      PROVE  StartupFirst'
  BY <1>15 DEF New
<1>16. CASE RegisterFails(x)
  BY <1>16 DEF RegisterFails
<1>17. CASE Register(x)
  BY <1>17 DEF Register
<1>18. CASE PostStartup(x)
  BY <1>18 DEF PostStartup
<1>19. CASE LateClose(x)
  BY <1>19 DEF LateClose
<1>20. CASE RegisterCheck(x) /\ Checked(x)
  BY <1>20 DEF RegisterCheck, Checked, Rests, Silent
<1>21. CASE RegisterEnd(x)
  BY <1>21 DEF RegisterEnd
<1>22. ASSUME NEW t \in Tasks, Grab(x, t) PROVE StartupFirst'
  BY <1>22 DEF Grab
<1>23. CASE Emit(x)
  BY <1>23 DEF Emit
<1>24. CASE CloseHeld(x) /\ Closed(x, cur[x], "ungrab")
  BY <1>24 DEF CloseHeld, Closed, Silent
<1>25. CASE LetGo(x)
  BY <1>25 DEF LetGo
<1>26. ASSUME NEW t \in Tasks, PostTo(x, t) PROVE StartupFirst'
  BY <1>26 DEF PostTo
<1>27. CASE PostEnd(x)
  BY <1>27 DEF PostEnd
<1>28. CASE x = Main /\ Shutdown
  BY <1>28 DEF Shutdown
<1>29. ASSUME x = Main, NEW t \in Tasks, Broadcast(t), Broadcasted(t) PROVE StartupFirst'
  BY <1>29 DEF Broadcast, Broadcasted
<1>30. CASE x = Main /\ (BroadcastEnd \/ Prepare \/ LookTable \/ LookCount \/ Commit \/ TimedOut)
  BY <1>30 DEF BroadcastEnd, Prepare, LookTable, LookCount, Commit, TimedOut
<1> HIDE DEF StartupFirst
<1> QED
  BY <1>1, <1>2, <1>3, <1>4, <1>5, <1>6, <1>7, <1>8, <1>9, <1>10, <1>11, <1>12, <1>13, <1>14,
     <1>15, <1>16, <1>17, <1>18, <1>19, <1>20, <1>21, <1>22, <1>23, <1>24, <1>25, <1>26, <1>27,
     <1>28, <1>29, <1>30
  DEF Move

-----------------------------------------------------------------------------
(* The invariant, and what follows from it *)

LEMMA InitIInv == Init => IInv
<1> SUFFICES ASSUME Init PROVE IInv
  OBVIOUS
<1> USE DEF Init
<1>1. TypeOK
  <2>1. <<>> \in Seq({"startup", "closing", "user"}) OBVIOUS
  <2>2. qumsg \in [Tasks -> Seq({"startup", "closing", "user"})] BY <2>1
  <2>3. 0 \in 0 .. MaxUse OBVIOUS
  <2> QED BY <2>2, <2>3 DEF TypeOK, PCs, Backs
<1>2. Control
  BY DEF Control, ControlOf, Works, Registers, Scanning, Activating
<1>3. Locks
  BY DEF Locks, Registers, Reads, Activating
<1>4. Mapped
  BY DEF Mapped, Works, Reads, Activating
<1>5. \A t \in Tasks : ~Dying(t)
  BY DEF Dying, Pending, Frees
<1>6. Memory /\ Fresh
  BY <1>5 DEF Memory, Fresh, Frees
<1>7. OnePlace
  <2>1. \A t \in Tasks : Running(t) = {} /\ Scheduling(t) = {}
    BY DEF Running, Scheduling
  <2>2. Cardinality({}) = 0 BY FS_EmptySet
  <2>3. \A t \in Tasks : Cardinality(Running(t)) = 0 /\ Cardinality(Scheduling(t)) = 0
    BY <2>1, <2>2
  <2> QED BY <2>3 DEF OnePlace
<1>8. OneClosing
  BY DEF OneClosing, Closes, Gives, LateFor, Activating
<1>9. Counted
  <2>1. Main \in Threads BY DEF Threads
  <2>2. Pending = {} /\ Ending = {}
    BY DEF Pending, Ending
  <2> QED BY <2>1, <2>2, FS_EmptySet DEF Counted
<1>10. RefsCounted /\ NamesAgree /\ StartupFirst
  BY DEF RefsCounted, NamesAgree, StartupFirst
<1> QED
  BY <1>1, <1>2, <1>3, <1>4, <1>6, <1>7, <1>8, <1>9, <1>10 DEF IInv

LEMMA NextIInv == IInv /\ [Next]_vars => IInv'
<1> SUFFICES ASSUME IInv, [Next]_vars PROVE IInv'
  OBVIOUS
<1>1. CASE UNCHANGED vars
  <2> USE <1>1 DEF vars
  <2>1. TypeOK' BY DEF IInv, TypeOK
  <2>2. Control' BY DEF IInv, Control, ControlOf, Works, Registers
  <2>3. Locks' /\ Mapped' BY DEF IInv, Locks, Mapped, Works, Registers, Reads
  <2>4. Memory' BY DEF IInv, Memory, Dying, Pending, Frees
  <2>5. Fresh' /\ OneClosing' BY DEF IInv, Fresh, OneClosing, Closes, Gives, LateFor
  <2>6. OnePlace' BY DEF IInv, OnePlace, Running, Scheduling
  <2>7. Counted' BY DEF IInv, Counted, Pending, Ending
  <2>8. RefsCounted' BY DEF IInv, RefsCounted, Held, Running, Holding, Enqueuing, Created
  <2>9. NamesAgree' /\ StartupFirst' BY DEF IInv, NamesAgree, StartupFirst
  <2> QED BY <2>1, <2>2, <2>3, <2>4, <2>5, <2>6, <2>7, <2>8, <2>9 DEF IInv
<1>2. ASSUME NEW x \in Threads, Step(x) PROVE IInv'
  <2>1. Move(x) BY <1>2, Moves DEF IInv
  <2>2. Elsewhere(x) /\ Control' /\ TypeOK' BY <1>2, Own
  <2>3. Locks' /\ Mapped' BY <2>1, <2>2, LocksStep, MappedStep
  <2>4. Memory' /\ Fresh' BY <2>1, <2>2, MemoryStep, FreshStep
  <2>5. OnePlace' BY <2>1, <2>2, OnePlaceStep
  <2>6. OneClosing' /\ Counted' BY <2>1, <2>2, OneClosingStep, CountedStep
  <2>7. RefsCounted' BY <2>1, <2>2, <2>5, RefsCountedStep
  <2>8. NamesAgree' /\ StartupFirst' BY <2>1, <2>2, NamesAgreeStep, StartupFirstStep
  <2> QED BY <2>2, <2>3, <2>4, <2>5, <2>6, <2>7, <2>8 DEF IInv
<1> QED
  BY <1>1, <1>2, OneSteps

LEMMA InvariantHolds == Spec => []IInv
  BY InitIInv, NextIInv, PTL DEF Spec

\* Every variable keeps its type: no count goes below zero, and a task is never
\* twice in a run queue (task.c:26-44).
THEOREM TypeCorrect == Spec => []TypeOK
<1>1. IInv => TypeOK BY DEF IInv
<1> QED BY <1>1, InvariantHolds, PTL

\* The count of a task in the table is exactly the references held (task.c:170-246).
THEOREM RefsCountedCorrect == Spec => []RefsCounted
<1>1. IInv => RefsCounted BY DEF IInv
<1> QED BY <1>1, InvariantHolds, PTL

\* No thread touches a task that has been freed, or frees it twice: whoever works on
\* a task finds it in the table, has just made it, or is the one that frees it.
THEOREM NoUseAfterFreeCorrect == Spec => []NoUseAfterFree
<1>1. IInv => NoUseAfterFree
  <2> SUFFICES ASSUME IInv, NEW x \in Threads
               PROVE  /\ pc[x] \in Touching => mem[cur[x]] = "live"
                      /\ inh[x] # None => mem[inh[x]] = "live"
    BY DEF NoUseAfterFree
  <2>1. ASSUME inh[x] # None PROVE mem[inh[x]] = "live"
    BY <2>1 DEF IInv, Mapped, Memory, TypeOK
  <2>2. ASSUME Works(x) PROVE mem[cur[x]] = "live"
    BY <2>2 DEF IInv, Mapped, Memory, TypeOK
  <2>3. CASE pc[x] = "register"
    BY <2>1, <2>3 DEF IInv, Fresh
  <2>4. CASE pc[x] = "free"
    <3>1. cur[x] \in Tasks /\ Dying(cur[x])
      BY <2>4 DEF IInv, Control, ControlOf, Dying, Frees
    <3> QED BY <2>1, <3>1 DEF IInv, Memory
  <2> QED BY <2>1, <2>2, <2>3, <2>4 DEF Touching, Works, Activating
<1> QED BY <1>1, InvariantHolds, PTL

\* The two tables agree, and a name stands for one task (task.c:62-80, 212-232).
THEOREM NamesAgreeCorrect == Spec => []NamesAgree
<1>1. IInv => NamesAgree BY DEF IInv
<1> QED BY <1>1, InvariantHolds, PTL

\* STARTUP is the first message a task handles, whoever closes it and when.
THEOREM StartupFirstCorrect == Spec => []StartupFirst
<1>1. IInv => StartupFirst BY DEF IInv
<1> QED BY <1>1, InvariantHolds, PTL

\* The shutdown goes on only when every registered task has been freed: the table
\* is empty, and nothing that left it is still to be freed.
THEOREM GoneBeforeStopCorrect == Spec => []GoneBeforeStop
<1>1. IInv => GoneBeforeStop
  <2> SUFFICES ASSUME IInv, pc[Main] = "done", NEW t \in Tasks, registered[t]
               PROVE  mem[t] = "freed"
    BY DEF GoneBeforeStop
  <2>1. map = {} /\ nfreeing = 0
    BY DEF IInv, Counted
  <2>2. Cardinality(Pending) = 0 /\ Cardinality(Ending) = 0
    <3>1. Ending \in SUBSET Threads BY DEF Ending
    <3>2. Cardinality(Pending) \in Nat /\ Cardinality(Ending) \in Nat
      BY <3>1, Counts, FS_CardinalityType DEF IInv, Counted
    <3>3. nfreeing = Cardinality(Pending) + Cardinality(Ending)
      BY DEF IInv, Counted
    <3> QED BY <2>1, <3>2, <3>3
  <2>3. Pending = {} /\ Ending = {}
    <3>1. Ending \in SUBSET Threads BY DEF Ending
    <3> QED BY <2>2, <3>1, Counts, FS_EmptySet DEF IInv, Counted
  <2>4. ~Dying(t)
    BY <2>3 DEF Dying, Frees, Ending
  <2> QED BY <2>1, <2>4 DEF IInv, Memory
<1> QED BY <1>1, InvariantHolds, PTL
=============================================================================
