------------------------------- MODULE SockProofs -------------------------------
(***************************************************************************)
(* Proofs about the sockets (Sock): a listener, for any number of event    *)
(* threads, listeners, callers and connections, and one connection, for    *)
(* any length of its queue and of a batch, any number of lives of its      *)
(* object and of commands.                                                 *)
(*                                                                         *)
(* The listener: its count is the number of those who hold it (Counted),   *)
(* the sockets go before the references (Held), what leads to it finds it  *)
(* (Reached), and its quarantine waits for all who may still read it       *)
(* (Grace).  Each has a lemma that every step keeps it.                    *)
(*                                                                         *)
(* The connection: what is under way has one of a few forms (Stacks); Fits *)
(* ties them to its flags, Sound says what each place of the object means. *)
(* Each operator of the model that leaves the connection in one of several *)
(* states has a lemma that says what it keeps.                             *)
(***************************************************************************)
EXTENDS Sock, FiniteSetTheorems, SequenceTheorems, TLAPS

-----------------------------------------------------------------------------
(* The listener: who holds it, and the invariant *)

\* The commands that hold a reference.
Counting == {"UNLSN", "LSN_UNREF", "ADDACP"}
Owes(q, l) == {i \in DOMAIN q : q[i].cmd \in Counting /\ q[i].lsn = l}
InQueues(l) == UNION {{<<w, i>> : i \in Owes(queue[w], l)} : w \in Watchers}

\* The connections being added, the sockets that nobody was told to remove, the call of
\* ev_unlisten.
Adding(l) == {w \in Watchers : accept[w] = [lsn |-> l, at |-> "added"]}
Asks(a, l) == call[a].op = "unlisten" /\ call[a].lsn = l
Unsent(l) ==
  {w \in Watchers :
     IF remove[l] THEN \E a \in L!Actors : Asks(a, l) /\ w \in call[a].todo ELSE w \in on[l]}
Asked(l) == IF \E a \in L!Actors : Asks(a, l) THEN 1 ELSE 0

Refs(l) == Cardinality(InQueues(l)) + Cardinality(Adding(l)) + Cardinality(Unsent(l)) + Asked(l)

\* A watcher has exited outside of any function,
Outside == \A w \in exited : accept[w] = L!NoAccept /\ call[w] = L!NoCall /\ lsn_batch[w] = {}

\* and after ev_free told it to; by then the tasks call nothing.
Stopping ==
  /\ \A w \in Watchers :
       stop[w] \/ w \in exited \/ (\E i \in DOMAIN queue[w] : queue[w][i].cmd = "STOP")
         => stage # "no"
  /\ stage # "no" => \A u \in Users : call[u] = L!NoCall

\* Nothing is sent to a queue that ev_free has emptied.
Emptied == \A w \in flushed : exited = Watchers /\ queue[w] = <<>>

\* In the accept loop nothing is called.
Alone == \A w \in Watchers : accept[w].at \in {"loop", "got"} => call[w] = L!NoCall

\* One call at a time holds a listener, and no id finds it then.
OneCaller ==
  \A l \in Listeners :
    /\ \A a, b \in L!Actors : call[a].lsn = l /\ call[b].lsn = l => a = b
    /\ l \in arrlsn => \A a \in L!Actors : call[a].lsn # l

\* What remove says of a listener.
Marked ==
  \A l \in Listeners :
    /\ remove[l] => mem[l] # "new" /\ l \notin arrlsn
    /\ \A a \in L!Actors : call[a].lsn = l => (remove[l] <=> call[a].op = "unlisten")
    /\ mem[l] = "live" /\ ~remove[l] =>
         on[l] # {} /\ (l \in arrlsn \/ \E a \in L!Actors : call[a].lsn = l)

Counted == \A l \in Listeners : mem[l] = "live" => ref[l] = Refs(l)

\* A watcher's socket, and its place in the poller, are there only as long as the
\* watcher holds a reference.
Told(w, l) == \E i \in DOMAIN queue[w] : queue[w][i] = L!Cmd("UNLSN", l)
Held ==
  \A l \in Listeners, w \in Watchers \ exited : mem[l] = "live" =>
    /\ accept[w].lsn = l /\ accept[w].at = "got" => w \in Unsent(l) \/ Told(w, l)
    /\ w \in fd[l] \cup reg[l] \cup backoff[l] => w \in Unsent(l) \/ Told(w, l)
    /\ l \in lsn_batch[w] \/ (accept[w].lsn = l /\ accept[w].at # "added") => w \in on[l]
    /\ w \in fd[l] \cup reg[l] \cup backoff[l] => w \in on[l]

Leads(l) ==
  l \in arrlsn \/ (\E a \in L!Actors : call[a].lsn = l) \/ (\E w \in Watchers : L!ReadBy(w, l))
Reached == \A l \in Listeners : Leads(l) => mem[l] = "live"

Quarantined ==
  \A l \in Listeners :
    /\ \A w \in Watchers : l \in qtn[w] => ref[l] = 0
    /\ mem[l] = "live" /\ ref[l] = 0 => \E w \in Watchers : l \in qtn[w]
    /\ \A v, w \in Watchers : l \in qtn[v] /\ l \in qtn[w] => v = w

\* What may still read a listener in quarantine is what it waits for.
Grace ==
  \A l \in Listeners : \A w \in Watchers : l \in qtn[w] =>
    \A v \in Watchers :
      /\ l \in lsn_batch[v] \/ accept[v].lsn = l => v \in busy[l]
      /\ v \notin exited =>
           \A i \in DOMAIN queue[v] : queue[v][i].lsn = l => i <= ahead[l][v]

LisInv ==
  /\ L!TypeOK /\ Outside /\ Stopping /\ Emptied /\ Alone /\ OneCaller /\ Marked
  /\ Counted /\ Held /\ Reached /\ Quarantined /\ Grace

-----------------------------------------------------------------------------
(* The constants and the library *)

\* The instance has its own names for the library's operators.
LEMMA LisNames ==
  \A X : L!IsFiniteSet(X) = IsFiniteSet(X) /\ L!Cardinality(X) = Cardinality(X)
BY DEF L!IsFiniteSet, IsFiniteSet, L!Cardinality, Cardinality

\* What the assumption on the constants gives.
LEMMA LisSetting ==
  /\ IsFiniteSet(Watchers) /\ Zero \in Watchers /\ Watchers \cap Users = {}
  /\ Nil \notin Listeners /\ MaxConns \in Nat
BY SockAssumption, LisNames DEF L!ListenerAssumption

-----------------------------------------------------------------------------
(* Queues of commands, and the references in them *)

Cmds == L!Commands

\* What a command says.
LEMMA CmdNames ==
  /\ \A k, l : L!Cmd(k, l).cmd = k /\ L!Cmd(k, l).lsn = l
  /\ \A c \in Cmds : c.cmd \in Counting => c.lsn \in Listeners
  /\ \A c \in Cmds : c.cmd # "STOP" => c.lsn \in Listeners
  /\ \A l \in Listeners, k \in {"LSN", "UNLSN", "LSN_UNREF", "ADDACP"} : L!Cmd(k, l) \in Cmds
  /\ L!Cmd("STOP", Nil) \in Cmds
BY DEF Cmds, L!Commands, L!Cmd, Counting

\* A queue with one more command,
LEMMA Sent ==
  ASSUME NEW q \in Seq(Cmds), NEW c \in Cmds
  PROVE  /\ Append(q, c) \in Seq(Cmds) /\ Len(Append(q, c)) = Len(q) + 1 /\ Len(q) \in Nat
         /\ DOMAIN q = 1 .. Len(q) /\ DOMAIN Append(q, c) = DOMAIN q \cup {Len(q) + 1}
         /\ Len(q) + 1 \notin DOMAIN q
         /\ \A i \in DOMAIN q : Append(q, c)[i] = q[i]
         /\ Append(q, c)[Len(q) + 1] = c
<1>1. /\ Append(q, c) \in Seq(Cmds) /\ Len(Append(q, c)) = Len(q) + 1 /\ Len(q) \in Nat
      /\ DOMAIN q = 1 .. Len(q) /\ DOMAIN Append(q, c) = 1 .. Len(q) + 1
      /\ \A i \in DOMAIN q : Append(q, c)[i] = q[i]
      /\ Append(q, c)[Len(q) + 1] = c
  OBVIOUS
<1>2. 1 .. Len(q) + 1 = (1 .. Len(q)) \cup {Len(q) + 1} /\ Len(q) + 1 \notin 1 .. Len(q) BY <1>1
<1> QED BY <1>1, <1>2

\* and one without its first.
LEMMA Taken ==
  ASSUME NEW q \in Seq(Cmds), q # <<>>
  PROVE  /\ Tail(q) \in Seq(Cmds) /\ Head(q) \in Cmds /\ Head(q) = q[1] /\ 1 \in DOMAIN q
         /\ Len(Tail(q)) = Len(q) - 1 /\ Len(q) \in Nat /\ DOMAIN q \subseteq Nat \ {0}
         /\ DOMAIN q = 1 .. Len(q) /\ DOMAIN Tail(q) = 1 .. Len(q) - 1
         /\ \A i \in DOMAIN Tail(q) : i + 1 \in DOMAIN q /\ Tail(q)[i] = q[i + 1]
         /\ \A i \in DOMAIN q : i # 1 => i - 1 \in DOMAIN Tail(q) /\ Tail(q)[i - 1] = q[i]
OBVIOUS

LEMMA InQueue ==
  ASSUME NEW l, NEW p
  PROVE  p \in InQueues(l) <=> \E w \in Watchers : \E i \in Owes(queue[w], l) : p = <<w, i>>
BY DEF InQueues

\* The commands that count can be counted.
LEMMA QueuesFinite ==
  ASSUME L!TypeOK, NEW l
  PROVE  IsFiniteSet(InQueues(l)) /\ Cardinality(InQueues(l)) \in Nat
<1> DEFINE Of(w) == {<<w, i>> : i \in Owes(queue[w], l)}
           All == {Of(w) : w \in Watchers}
<1>1. ASSUME NEW w \in Watchers PROVE IsFiniteSet(Of(w))
  <2>1. queue[w] \in Seq(Cmds) BY DEF L!TypeOK, Cmds
  <2>2. IsFiniteSet(DOMAIN queue[w]) BY <2>1, FS_Interval
  <2>3. IsFiniteSet(Owes(queue[w], l)) BY <2>2, FS_Subset DEF Owes
  <2> DEFINE g == [i \in Owes(queue[w], l) |-> <<w, i>>]
  <2>4. g \in Surjection(Owes(queue[w], l), Of(w)) BY DEF Surjection
  <2> QED BY <2>3, <2>4, FS_Surjection
<1>2. IsFiniteSet(All)
  <2> DEFINE g == [w \in Watchers |-> Of(w)]
  <2> HIDE DEF Of
  <2>1. g \in Surjection(Watchers, All) BY DEF Surjection
  <2> QED BY <2>1, LisSetting, FS_Surjection
<1>3. IsFiniteSet(UNION All) BY <1>1, <1>2, FS_UNION
<1> QED BY <1>3, FS_CardinalityType DEF InQueues

\* What a step does to the queues: nothing, one command more, or one less.
QueuesSame == queue' = queue
QueueSent(w, c) == queue' = [queue EXCEPT ![w] = Append(@, c)]
QueueTaken(w) == queue[w] # <<>> /\ queue' = [queue EXCEPT ![w] = Tail(@)]

Mentions(c, l) == c.cmd \in Counting /\ c.lsn = l

\* A command that is sent adds a reference if it counts,
LEMMA CountSent ==
  ASSUME L!TypeOK, NEW w \in Watchers, NEW c \in Cmds, QueueSent(w, c), NEW l
  PROVE  Cardinality(InQueues(l)') = Cardinality(InQueues(l)) + (IF Mentions(c, l) THEN 1 ELSE 0)
<1> DEFINE n == Len(queue[w]) + 1
           q == queue[w]
<1>1. q \in Seq(Cmds) BY DEF L!TypeOK, Cmds
<1>2. queue'[w] = Append(q, c) /\ \A v \in Watchers : v # w => queue'[v] = queue[v]
  BY DEF QueueSent, L!TypeOK
<1>3. Owes(queue'[w], l) = Owes(q, l) \cup (IF Mentions(c, l) THEN {n} ELSE {})
  BY <1>1, <1>2, Sent DEF Owes, Mentions
<1>4. n \notin Owes(q, l) BY <1>1, Sent DEF Owes
<1> HIDE DEF n, q
<1>5. \A p : p \in InQueues(l)' <=>
        \E v \in Watchers : \E i \in Owes(queue'[v], l) : p = <<v, i>>
  BY DEF InQueues, Owes
<1>6. CASE Mentions(c, l)
  <2>1. InQueues(l)' = InQueues(l) \cup {<<w, n>>}
    <3>1. \A i : i \in Owes(queue'[w], l) <=> i \in Owes(queue[w], l) \/ i = n
      BY <1>3, <1>6 DEF q
    <3>2. \A v \in Watchers : v # w => Owes(queue'[v], l) = Owes(queue[v], l) BY <1>2
    <3>3. ASSUME NEW p \in InQueues(l)' PROVE p \in InQueues(l) \cup {<<w, n>>}
      BY <1>5, <3>1, <3>2, InQueue
    <3>4. ASSUME NEW p \in InQueues(l) PROVE p \in InQueues(l)'
      BY <1>5, <3>1, <3>2, InQueue
    <3>5. <<w, n>> \in InQueues(l)' BY <1>5, <3>1
    <3> QED BY <3>3, <3>4, <3>5
  <2>2. <<w, n>> \notin InQueues(l) BY <1>4, InQueue DEF q
  <2> QED BY <1>6, <2>1, <2>2, QueuesFinite, FS_AddElement
<1>7. CASE ~Mentions(c, l)
  <2>1. InQueues(l)' = InQueues(l)
    <3>1. \A v \in Watchers : Owes(queue'[v], l) = Owes(queue[v], l) BY <1>2, <1>3, <1>7 DEF q
    <3>2. \A p : p \in InQueues(l)' <=> p \in InQueues(l) BY <1>5, <3>1, InQueue
    <3> QED BY <3>2
  <2> QED BY <1>7, <2>1, QueuesFinite
<1> QED BY <1>6, <1>7

\* and one that is taken gives it back.
LEMMA CountTaken ==
  ASSUME L!TypeOK, NEW w \in Watchers, QueueTaken(w), NEW l
  PROVE  /\ Cardinality(InQueues(l)') \in Nat
         /\ Cardinality(InQueues(l)) =
              Cardinality(InQueues(l)') + (IF Mentions(Head(queue[w]), l) THEN 1 ELSE 0)
<1> DEFINE q == queue[w]
           Rest == InQueues(l) \ {<<w, 1>>}
           f == [p \in Rest |-> IF p[1] = w THEN <<w, p[2] - 1>> ELSE p]
<1>1. q \in Seq(Cmds) /\ q # <<>> BY DEF L!TypeOK, Cmds, QueueTaken
<1>2. queue'[w] = Tail(q) /\ \A v \in Watchers : v # w => queue'[v] = queue[v]
  BY DEF QueueTaken, L!TypeOK
<1>3. /\ \A i \in Owes(q, l) : i \in Nat \ {0}
      /\ \A i \in Owes(q, l) : i # 1 => i - 1 \in Owes(Tail(q), l)
      /\ \A i \in Owes(Tail(q), l) : i \in Nat \ {0} /\ i + 1 \in Owes(q, l)
      /\ 1 \in Owes(q, l) <=> Mentions(Head(q), l)
  BY <1>1, Taken DEF Owes, Mentions
<1>4. \A p : p \in InQueues(l)' <=>
        \E v \in Watchers : \E i \in Owes(queue'[v], l) : p = <<v, i>>
  BY DEF InQueues, Owes
<1> HIDE DEF q
<1>5. IsFiniteSet(InQueues(l)) /\ IsFiniteSet(Rest) BY QueuesFinite, FS_RemoveElement
<1>6. \A p : p \in Rest <=>
        \/ \E i \in Owes(q, l) : i # 1 /\ p = <<w, i>>
        \/ \E v \in Watchers : \E i \in Owes(queue[v], l) : v # w /\ p = <<v, i>>
  BY InQueue DEF q
<1>7. \A p : p \in InQueues(l)' <=>
        \/ \E i \in Owes(Tail(q), l) : p = <<w, i>>
        \/ \E v \in Watchers : \E i \in Owes(queue[v], l) : v # w /\ p = <<v, i>>
  BY <1>2, <1>4
<1>8. /\ \A i \in Owes(q, l) : i # 1 => <<w, i>> \in Rest /\ f[<<w, i>>] = <<w, i - 1>>
      /\ \A v \in Watchers : \A i \in Owes(queue[v], l) :
           v # w => <<v, i>> \in Rest /\ f[<<v, i>>] = <<v, i>>
  BY <1>6
<1> HIDE DEF Rest
<1>9. f \in [Rest -> InQueues(l)'] BY <1>3, <1>6, <1>7, <1>8
<1>10. \A r \in InQueues(l)' : \E p \in Rest : f[p] = r
  <2> SUFFICES ASSUME NEW r \in InQueues(l)' PROVE \E p \in Rest : f[p] = r OBVIOUS
  <2>1. CASE \E i \in Owes(Tail(q), l) : r = <<w, i>>
    <3>1. PICK i \in Owes(Tail(q), l) : r = <<w, i>> BY <2>1
    <3>2. i \in Nat \ {0} /\ i + 1 \in Owes(q, l) /\ i + 1 # 1 /\ i + 1 - 1 = i BY <1>3
    <3>3. <<w, i + 1>> \in Rest /\ f[<<w, i + 1>>] = <<w, i + 1 - 1>> BY <1>8, <3>2
    <3> QED BY <3>1, <3>2, <3>3
  <2>2. CASE \E v \in Watchers : \E i \in Owes(queue[v], l) : v # w /\ r = <<v, i>>
    BY <1>8, <2>2
  <2> QED BY <1>7, <2>1, <2>2
<1>11. \A p, r \in Rest : f[p] = f[r] => p = r
  <2> SUFFICES ASSUME NEW p \in Rest, NEW r \in Rest, f[p] = f[r] PROVE p = r OBVIOUS
  <2>1. CASE \E i \in Owes(q, l) : i # 1 /\ p = <<w, i>>
    <3>1. PICK i \in Owes(q, l) : i # 1 /\ p = <<w, i>> BY <2>1
    <3>2. f[p] = <<w, i - 1>> BY <1>8, <3>1
    <3>3. f[r][1] = w BY <3>2
    <3>4. PICK j \in Owes(q, l) : j # 1 /\ r = <<w, j>> BY <1>6, <1>8, <3>3
    <3>5. f[r] = <<w, j - 1>> BY <1>8, <3>4
    <3>6. i - 1 = j - 1 BY <3>2, <3>5
    <3>7. i = j BY <1>3, <3>6
    <3> QED BY <3>1, <3>4, <3>7
  <2>2. CASE \E v \in Watchers : \E i \in Owes(queue[v], l) : v # w /\ p = <<v, i>>
    <3>1. f[p] = p /\ p[1] # w BY <1>8, <2>2
    <3>2. ~\E i \in Owes(q, l) : i # 1 /\ r = <<w, i>> BY <1>8, <3>1
    <3>3. f[r] = r BY <1>6, <1>8, <3>2
    <3> QED BY <3>1, <3>3
  <2> QED BY <1>6, <2>1, <2>2
<1> HIDE DEF f
<1>12. f \in Bijection(Rest, InQueues(l)')
  BY <1>9, <1>10, <1>11 DEF Bijection, Injection, Surjection, IsInjective
<1>13. Cardinality(InQueues(l)') = Cardinality(Rest)
  BY <1>5, <1>12, FS_Bijection DEF ExistsBijection
<1>14. <<w, 1>> \in InQueues(l) <=> Mentions(Head(q), l)
  BY <1>3, InQueue DEF q
<1>15. Cardinality(Rest) \in Nat BY <1>5, FS_CardinalityType
<1> QED BY <1>5, <1>13, <1>14, <1>15, FS_RemoveElement, QueuesFinite DEF q, Rest

-----------------------------------------------------------------------------
(* The count *)

\* The terms of the sum are numbers.
LEMMA Terms ==
  ASSUME L!TypeOK, NEW l
  PROVE  /\ IsFiniteSet(Adding(l)) /\ Cardinality(Adding(l)) \in Nat
         /\ Cardinality(Adding(l)) = 0 <=> Adding(l) = {}
         /\ IsFiniteSet(Unsent(l)) /\ Cardinality(Unsent(l)) \in Nat
         /\ Cardinality(Unsent(l)) = 0 <=> Unsent(l) = {}
         /\ IsFiniteSet(InQueues(l)) /\ Cardinality(InQueues(l)) \in Nat
         /\ Cardinality(InQueues(l)) = 0 <=> InQueues(l) = {}
         /\ Asked(l) \in {0, 1}
<1>1. Adding(l) \subseteq Watchers /\ Unsent(l) \subseteq Watchers BY DEF Adding, Unsent
<1>2. IsFiniteSet(Adding(l)) /\ IsFiniteSet(Unsent(l)) BY <1>1, LisSetting, FS_Subset
<1>3. IsFiniteSet(InQueues(l)) BY QueuesFinite
<1>4. Asked(l) \in {0, 1} BY DEF Asked
<1> QED BY <1>2, <1>3, <1>4, FS_CardinalityType, FS_EmptySet

\* What holds a reference.
Used(l) ==
  \/ l \in arrlsn \/ \E a \in L!Actors : call[a].lsn = l
  \/ \E w \in Watchers : accept[w].lsn = l /\ accept[w].at \in {"got", "added"}
  \/ \E w \in Watchers : \E i \in DOMAIN queue[w] : Mentions(queue[w][i], l)
  \/ \E w \in Watchers \ exited : w \in fd[l] \cup reg[l] \cup backoff[l]

\* A term that is not zero keeps the listener out of quarantine.
LEMMA SomeRef ==
  ASSUME LisInv, NEW l \in Listeners, mem[l] = "live",
         InQueues(l) # {} \/ Adding(l) # {} \/ Unsent(l) # {} \/ Asked(l) = 1
  PROVE  ref[l] \in Nat /\ ref[l] # 0 /\ \A w \in Watchers : l \notin qtn[w]
<1>1. ref[l] = Refs(l) BY DEF LisInv, Counted
<1>2. L!TypeOK /\ Quarantined BY DEF LisInv
<1> DEFINE q == Cardinality(InQueues(l))
           d == Cardinality(Adding(l))
           u == Cardinality(Unsent(l))
<1>3. q \in Nat /\ d \in Nat /\ u \in Nat /\ Asked(l) \in {0, 1} BY <1>2, Terms
<1>4. q # 0 \/ d # 0 \/ u # 0 \/ Asked(l) = 1 BY <1>2, Terms
<1>5. ref[l] = q + d + u + Asked(l) BY <1>1 DEF Refs
<1> HIDE DEF q, d, u
<1>6. ref[l] \in Nat /\ ref[l] # 0 BY <1>3, <1>4, <1>5
<1> QED BY <1>2, <1>6 DEF Quarantined

\* A command that counts is a reference.
LEMMA Mentioned ==
  ASSUME NEW w \in Watchers, NEW i \in DOMAIN queue[w], NEW l, Mentions(queue[w][i], l)
  PROVE  InQueues(l) # {}
<1>1. i \in Owes(queue[w], l) BY DEF Owes, Mentions
<1> QED BY <1>1, InQueue

\* UNLSN counts.
LEMMA TellsMentions ==
  ASSUME NEW w \in Watchers, NEW l, Told(w, l)
  PROVE  \E i \in DOMAIN queue[w] : Mentions(queue[w][i], l)
<1>1. PICK i \in DOMAIN queue[w] : queue[w][i] = L!Cmd("UNLSN", l) BY DEF Told
<1> QED BY <1>1, CmdNames DEF Mentions, Counting

\* What holds a reference keeps the listener out of quarantine.
LEMMA InUse ==
  ASSUME LisInv, NEW l \in Listeners, mem[l] = "live", Used(l)
  PROVE  ref[l] \in Nat /\ ref[l] # 0 /\ \A w \in Watchers : l \notin qtn[w]
<1>1. ASSUME ~remove[l] PROVE Unsent(l) # {}
  <2>1. on[l] # {} /\ on[l] \subseteq Watchers BY <1>1 DEF LisInv, Marked, L!TypeOK
  <2> QED BY <1>1, <2>1 DEF Unsent
<1>2. CASE l \in arrlsn
  <2>1. ~remove[l] BY <1>2 DEF LisInv, Marked
  <2> QED BY <1>1, <2>1, SomeRef
<1>3. CASE \E a \in L!Actors : call[a].lsn = l
  <2>1. PICK a \in L!Actors : call[a].lsn = l BY <1>3
  <2>2. CASE ~remove[l] BY <1>1, <2>2, SomeRef
  <2>3. CASE remove[l]
    <3>1. Asks(a, l) BY <2>1, <2>3 DEF LisInv, Marked, Asks
    <3>2. Asked(l) = 1 BY <3>1 DEF Asked
    <3> QED BY <3>2, SomeRef
  <2> QED BY <2>2, <2>3
<1>4. CASE \E w \in Watchers : \E i \in DOMAIN queue[w] : Mentions(queue[w][i], l)
  BY <1>4, Mentioned, SomeRef
<1>5. ASSUME NEW w \in Watchers, w \in Unsent(l) \/ Told(w, l)
      PROVE  InQueues(l) # {} \/ Unsent(l) # {}
  BY <1>5, TellsMentions, Mentioned
<1>6. CASE \E w \in Watchers : accept[w].lsn = l /\ accept[w].at \in {"got", "added"}
  <2>1. PICK w \in Watchers : accept[w].lsn = l /\ accept[w].at \in {"got", "added"} BY <1>6
  <2>2. CASE accept[w].at = "added"
    <3>1. accept[w] = [lsn |-> l, at |-> "added"]
      BY <2>1, <2>2, LisSetting DEF LisInv, L!TypeOK, L!NoAccept
    <3>2. w \in Adding(l) BY <3>1 DEF Adding
    <3> QED BY <3>2, SomeRef
  <2>3. CASE accept[w].at = "got"
    <3>1. w \notin exited BY <2>3 DEF LisInv, Outside, L!NoAccept
    <3>2. w \in Unsent(l) \/ Told(w, l) BY <2>1, <2>3, <3>1 DEF LisInv, Held
    <3> QED BY <1>5, <3>2, SomeRef
  <2> QED BY <2>1, <2>2, <2>3
<1>7. CASE \E w \in Watchers \ exited : w \in fd[l] \cup reg[l] \cup backoff[l]
  <2>1. PICK w \in Watchers \ exited : w \in fd[l] \cup reg[l] \cup backoff[l] BY <1>7
  <2>2. w \in Unsent(l) \/ Told(w, l) BY <2>1 DEF LisInv, Held
  <2> QED BY <1>5, <2>2, SomeRef
<1> QED BY <1>2, <1>3, <1>4, <1>6, <1>7 DEF Used

\* What a call, an accept and a command at the head of a queue say of their listener.
LEMMA Calling ==
  ASSUME LisInv, NEW a \in L!Actors, call[a].op \in {"listen", "hold", "unlisten"}
  PROVE  /\ call[a].lsn \in Listeners /\ call[a].todo \subseteq Watchers
         /\ call[a] \in [op : L!Ops, lsn : Listeners, todo : SUBSET Watchers]
         /\ mem[call[a].lsn] = "live" /\ a \notin exited /\ Used(call[a].lsn)
         /\ ref[call[a].lsn] \in Nat /\ ref[call[a].lsn] # 0
<1>1. call[a] \in [op : L!Ops, lsn : Listeners, todo : SUBSET Watchers]
  BY DEF LisInv, L!TypeOK, L!NoCall
<1>2. Used(call[a].lsn) /\ Leads(call[a].lsn) BY DEF Used, Leads
<1>3. mem[call[a].lsn] = "live" BY <1>1, <1>2 DEF LisInv, Reached
<1>4. a \notin exited BY DEF LisInv, Outside, L!NoCall
<1> QED BY <1>1, <1>2, <1>3, <1>4, InUse

LEMMA AcceptingOn ==
  ASSUME LisInv, NEW w \in Watchers, accept[w].at \in L!Phases
  PROVE  /\ accept[w].lsn \in Listeners /\ accept[w] \in [lsn : Listeners, at : L!Phases]
         /\ mem[accept[w].lsn] = "live" /\ w \notin exited
         /\ accept[w].at \in {"got", "added"} =>
              ref[accept[w].lsn] \in Nat /\ ref[accept[w].lsn] # 0
<1>1. accept[w] \in [lsn : Listeners, at : L!Phases]
  BY DEF LisInv, L!TypeOK, L!NoAccept, L!Phases
<1>2. Leads(accept[w].lsn) BY DEF Leads, L!ReadBy
<1>3. mem[accept[w].lsn] = "live" BY <1>1, <1>2 DEF LisInv, Reached
<1>4. w \notin exited BY DEF LisInv, Outside, L!NoAccept, L!Phases
<1>5. accept[w].at \in {"got", "added"} => Used(accept[w].lsn) BY DEF Used
<1> QED BY <1>1, <1>3, <1>4, <1>5, InUse

LEMMA Heads ==
  ASSUME LisInv, NEW w \in Watchers, queue[w] # <<>>
  PROVE  LET c == Head(queue[w]) IN
         /\ c \in Cmds /\ c = queue[w][1] /\ 1 \in DOMAIN queue[w]
         /\ c.cmd = "LSN" /\ w \notin exited => c.lsn \in Listeners /\ mem[c.lsn] = "live"
         /\ c.cmd \in Counting =>
              /\ c.lsn \in Listeners /\ mem[c.lsn] = "live" /\ Used(c.lsn)
              /\ ref[c.lsn] \in Nat /\ ref[c.lsn] # 0
<1> DEFINE c == Head(queue[w])
<1>1. c \in Cmds /\ c = queue[w][1] /\ 1 \in DOMAIN queue[w]
  BY Taken DEF LisInv, L!TypeOK, Cmds
<1> HIDE DEF c
<1>2. ASSUME c.cmd = "LSN", w \notin exited PROVE c.lsn \in Listeners /\ mem[c.lsn] = "live"
  <2>1. c.lsn \in Listeners BY <1>1, <1>2, CmdNames
  <2>2. Leads(c.lsn) BY <1>1, <1>2 DEF Leads, L!ReadBy
  <2> QED BY <2>1, <2>2 DEF LisInv, Reached
<1>3. ASSUME c.cmd \in Counting
      PROVE  c.lsn \in Listeners /\ mem[c.lsn] = "live" /\ Used(c.lsn)
  <2>1. c.lsn \in Listeners BY <1>1, <1>3, CmdNames
  <2>2. Leads(c.lsn) BY <1>1, <1>3 DEF Leads, L!ReadBy, Counting
  <2>3. Used(c.lsn) BY <1>1, <1>3 DEF Used, Mentions
  <2> QED BY <2>1, <2>2, <2>3 DEF LisInv, Reached
<1> QED BY <1>1, <1>2, <1>3, InUse DEF c

-----------------------------------------------------------------------------
(* Types *)

\* The types at the start.
LEMMA LisInit == L!Init => L!TypeOK
BY LisSetting DEF L!Init, L!TypeOK, L!lsnsock, L!grace, L!ending, L!NoAccept, L!NoCall, L!Stages,
  L!Phases, L!Ops, L!Commands

\* The types after the helpers of the commands.
LEMMA UnrefTypes ==
  ASSUME L!TypeOK, queue' \in [Watchers -> Seq(Cmds)], NEW w \in Watchers,
         NEW l \in Listeners, ref[l] \in Nat, ref[l] # 0,
         NEW left \in [Listeners -> [Watchers -> Nat]], L!Unref(w, l, left)
  PROVE  /\ ref' \in [Listeners -> Nat] /\ qtn' \in [Watchers -> SUBSET Listeners]
         /\ busy' \in [Listeners -> SUBSET Watchers]
         /\ ahead' \in [Listeners -> [Watchers -> Nat]]
<1>1. ref' \in [Listeners -> Nat] BY DEF L!TypeOK, L!Unref
<1>2. \A v \in Watchers : Len(queue'[v]) \in Nat OBVIOUS
<1>3. [v \in Watchers |-> Len(queue'[v])] \in [Watchers -> Nat] BY <1>2
<1> DEFINE now == [v \in Watchers |-> Len(queue'[v])]
<1>4. CASE ref[l] = 1
  <2>1. /\ qtn' = [qtn EXCEPT ![w] = @ \cup {l}]
        /\ busy' = [busy EXCEPT ![l] = Watchers \ exited]
        /\ ahead' = [left EXCEPT ![l] = now]
    BY <1>4 DEF L!Unref
  <2>2. ahead' \in [Listeners -> [Watchers -> Nat]] BY <1>3, <2>1
  <2>3. qtn' \in [Watchers -> SUBSET Listeners] BY <2>1 DEF L!TypeOK
  <2>4. busy' \in [Listeners -> SUBSET Watchers] BY <2>1 DEF L!TypeOK
  <2> QED BY <1>1, <2>2, <2>3, <2>4
<1>5. CASE ref[l] # 1 BY <1>1, <1>5 DEF L!TypeOK, L!Unref
<1> QED BY <1>4, <1>5

LEMMA RemoveTypes ==
  ASSUME L!TypeOK, queue' \in [Watchers -> Seq(Cmds)], NEW w \in Watchers,
         NEW l \in Listeners, ref[l] \in Nat, ref[l] # 0,
         NEW left \in [Listeners -> [Watchers -> Nat]], L!RemoveLsn(w, l, left)
  PROVE  /\ ref' \in [Listeners -> Nat] /\ qtn' \in [Watchers -> SUBSET Listeners]
         /\ busy' \in [Listeners -> SUBSET Watchers]
         /\ ahead' \in [Listeners -> [Watchers -> Nat]]
         /\ fd' \in [Listeners -> SUBSET Watchers] /\ reg' \in [Listeners -> SUBSET Watchers]
         /\ ev_cb' \in [Listeners -> SUBSET Watchers]
         /\ backoff' \in [Listeners -> SUBSET Watchers]
<1>1. L!Unref(w, l, left) BY DEF L!RemoveLsn
<1>2. /\ fd' \in [Listeners -> SUBSET Watchers] /\ reg' \in [Listeners -> SUBSET Watchers]
      /\ ev_cb' \in [Listeners -> SUBSET Watchers]
      /\ backoff' \in [Listeners -> SUBSET Watchers]
  BY DEF L!TypeOK, L!RemoveLsn
<1> QED BY <1>1, <1>2, UnrefTypes

LEMMA AddTypes ==
  ASSUME L!TypeOK, NEW w \in Watchers, NEW l \in Listeners, L!AddLsn(w, l)
  PROVE  /\ fd' \in [Listeners -> SUBSET Watchers] /\ reg' \in [Listeners -> SUBSET Watchers]
         /\ ev_cb' = ev_cb /\ backoff' = backoff
<1>1. fd \in [Listeners -> SUBSET Watchers] /\ reg \in [Listeners -> SUBSET Watchers]
  BY DEF L!TypeOK
<1>2. [fd EXCEPT ![l] = @ \ {w}] \in [Listeners -> SUBSET Watchers]
      /\ [reg EXCEPT ![l] = @ \cup {w}] \in [Listeners -> SUBSET Watchers]
  BY <1>1
<1> QED BY <1>1, <1>2 DEF L!AddLsn

LEMMA QueueTypes ==
  ASSUME L!TypeOK
  PROVE  /\ queue \in [Watchers -> Seq(Cmds)]
         /\ \A w \in Watchers, c \in Cmds : QueueSent(w, c) => queue' \in [Watchers -> Seq(Cmds)]
         /\ \A w \in Watchers : QueueTaken(w) => queue' \in [Watchers -> Seq(Cmds)]
         /\ \A w \in Watchers : L!OneLess(w) \in [Listeners -> [Watchers -> Nat]]
<1>1. queue \in [Watchers -> Seq(Cmds)] BY DEF L!TypeOK, Cmds
<1>2. \A w \in Watchers, c \in Cmds : QueueSent(w, c) => queue' \in [Watchers -> Seq(Cmds)]
  BY <1>1, Sent DEF QueueSent
<1>3. \A w \in Watchers : QueueTaken(w) => queue' \in [Watchers -> Seq(Cmds)]
  BY <1>1, Taken DEF QueueTaken
<1>4. ASSUME NEW w \in Watchers, NEW l \in Listeners
      PROVE  [ahead[l] EXCEPT ![w] = IF @ = 0 THEN 0 ELSE @ - 1] \in [Watchers -> Nat]
  <2>1. ahead[l] \in [Watchers -> Nat] BY DEF L!TypeOK
  <2>2. (IF ahead[l][w] = 0 THEN 0 ELSE ahead[l][w] - 1) \in Nat BY <2>1
  <2> QED BY <2>1, <2>2
<1>5. \A w \in Watchers : L!OneLess(w) \in [Listeners -> [Watchers -> Nat]]
  BY <1>4 DEF L!OneLess
<1> QED BY <1>1, <1>2, <1>3, <1>5

\* The forms of a step on the queues, by the names of the model.
LEMMA SendForm ==
  ASSUME NEW w, NEW c
  PROVE  (L!Send(w, c) <=> QueueSent(w, c))
BY DEF L!Send, QueueSent

LEMMA TakeForm ==
  ASSUME NEW w, NEW k, L!Takes(w, k)
  PROVE  QueueTaken(w) /\ Head(queue[w]).cmd = k /\ w \notin exited
         /\ accept[w] = L!NoAccept /\ call[w] = L!NoCall
BY DEF L!Takes, QueueTaken, L!InLoop

\* The types after any step.
LEMMA TypeStep ==
  ASSUME LisInv, [L!Next]_(L!vars)
  PROVE  L!TypeOK'
<1> USE DEF L!lsnsock, L!grace, L!ending
<1>0. L!TypeOK BY DEF LisInv
<1>1. ASSUME NEW a \in L!Actors, L!Listen(a) PROVE L!TypeOK'
  <2>1. ASSUME NEW l \in Listeners, NEW ws \in (SUBSET Watchers) \ {{}}, L!ListenStart(a, l, ws)
        PROVE  L!TypeOK'
    <3>1. IsFiniteSet(ws) BY LisSetting, FS_Subset
    <3>2. L!Cardinality(ws) \in Nat BY <3>1, LisNames, FS_CardinalityType
    <3> QED BY <1>0, <2>1, <3>2 DEF L!TypeOK, L!ListenStart, L!Ops
  <2>2. ASSUME NEW w \in Watchers, L!ListenSend(a, w) PROVE L!TypeOK'
    <3> DEFINE l == call[a].lsn
    <3>1. /\ l \in Listeners /\ call[a] \in [op : L!Ops, lsn : Listeners, todo : SUBSET Watchers]
      BY <2>2, Calling DEF L!ListenSend
    <3>2. call' \in [L!Actors -> {L!NoCall} \cup
                       [op : L!Ops, lsn : Listeners, todo : SUBSET Watchers]]
      BY <1>0, <2>2, <3>1 DEF L!TypeOK, L!ListenSend
    <3>3. CASE a = w
      <4>1. /\ L!AddLsn(w, l) /\ queue' = queue
            /\ UNCHANGED <<mem, ref, remove, on, arrlsn, lsn_batch, accept, L!grace, L!ending,
                              conns>>
        BY <2>2, <3>3 DEF L!ListenSend
      <4>2. /\ fd' \in [Listeners -> SUBSET Watchers] /\ reg' \in [Listeners -> SUBSET Watchers]
            /\ ev_cb' = ev_cb /\ backoff' = backoff
        BY <1>0, <3>1, <4>1, AddTypes
      <4> QED BY <1>0, <3>2, <4>1, <4>2 DEF L!TypeOK
    <3>4. CASE a # w
      <4>1. /\ L!Send(w, L!Cmd("LSN", l))
            /\ UNCHANGED <<L!lsnsock, mem, ref, remove, on, arrlsn, lsn_batch, accept, L!grace,
                           L!ending, conns>>
        BY <2>2, <3>4 DEF L!ListenSend
      <4>2. queue' \in [Watchers -> Seq(Cmds)] BY <1>0, <3>1, <4>1, CmdNames, SendForm, QueueTypes
      <4> QED BY <1>0, <3>2, <4>1, <4>2 DEF L!TypeOK, Cmds
    <3> QED BY <3>3, <3>4
  <2>3. CASE L!ListenEnd(a)
    <3>1. call[a].lsn \in Listeners BY <2>3, Calling DEF L!ListenEnd
    <3> QED BY <1>0, <2>3, <3>1 DEF L!TypeOK, L!ListenEnd
  <2> QED BY <1>1, <2>1, <2>2, <2>3 DEF L!Listen
<1>2. ASSUME NEW a \in L!Actors, L!Unlisten(a) PROVE L!TypeOK'
  <2>1. ASSUME NEW l \in Listeners, L!UnlistenTake(a, l) PROVE L!TypeOK'
    BY <1>0, <2>1 DEF L!TypeOK, L!UnlistenTake, L!Ops
  <2>2. ASSUME NEW w \in Watchers, L!UnlistenSend(a, w) PROVE L!TypeOK'
    <3> DEFINE l == call[a].lsn
    <3>1. /\ l \in Listeners /\ call[a] \in [op : L!Ops, lsn : Listeners, todo : SUBSET Watchers]
          /\ ref[l] \in Nat /\ ref[l] # 0
      BY <2>2, Calling DEF L!UnlistenSend
    <3>2. call' \in [L!Actors -> {L!NoCall} \cup
                       [op : L!Ops, lsn : Listeners, todo : SUBSET Watchers]]
      BY <1>0, <2>2, <3>1 DEF L!TypeOK, L!UnlistenSend
    <3>3. CASE a = w
      <4>1. /\ L!RemoveLsn(w, l, ahead) /\ queue' = queue
            /\ UNCHANGED <<mem, remove, on, arrlsn, lsn_batch, accept, L!ending, conns>>
        BY <2>2, <3>3 DEF L!UnlistenSend
      <4>2. ahead \in [Listeners -> [Watchers -> Nat]] /\ queue' \in [Watchers -> Seq(Cmds)]
        BY <1>0, <4>1, QueueTypes DEF L!TypeOK
      <4>3. /\ ref' \in [Listeners -> Nat] /\ qtn' \in [Watchers -> SUBSET Listeners]
            /\ busy' \in [Listeners -> SUBSET Watchers]
            /\ ahead' \in [Listeners -> [Watchers -> Nat]]
            /\ fd' \in [Listeners -> SUBSET Watchers] /\ reg' \in [Listeners -> SUBSET Watchers]
            /\ ev_cb' \in [Listeners -> SUBSET Watchers]
            /\ backoff' \in [Listeners -> SUBSET Watchers]
        BY <1>0, <3>1, <4>1, <4>2, RemoveTypes
      <4> QED BY <1>0, <3>2, <4>1, <4>3 DEF L!TypeOK
    <3>4. CASE a # w
      <4>1. /\ L!Send(w, L!Cmd("UNLSN", l))
            /\ UNCHANGED <<L!lsnsock, mem, ref, remove, on, arrlsn, lsn_batch, accept, L!grace,
                           L!ending, conns>>
        BY <2>2, <3>4 DEF L!UnlistenSend
      <4>2. queue' \in [Watchers -> Seq(Cmds)] BY <1>0, <3>1, <4>1, CmdNames, SendForm, QueueTypes
      <4> QED BY <1>0, <3>2, <4>1, <4>2 DEF L!TypeOK, Cmds
    <3> QED BY <3>3, <3>4
  <2>3. CASE L!UnlistenMark(a)
    <3>1. call[a].lsn \in Listeners /\ on[call[a].lsn] \in SUBSET Watchers
          /\ call[a] \in [op : L!Ops, lsn : Listeners, todo : SUBSET Watchers]
      BY <1>0, <2>3, Calling DEF L!UnlistenMark, L!TypeOK
    <3>2. call' \in [L!Actors -> {L!NoCall} \cup
                       [op : L!Ops, lsn : Listeners, todo : SUBSET Watchers]]
      BY <1>0, <2>3, <3>1 DEF L!TypeOK, L!UnlistenMark, L!Ops
    <3>3. ref' \in [Listeners -> Nat] /\ remove' \in [Listeners -> BOOLEAN]
      BY <1>0, <2>3, <3>1 DEF L!TypeOK, L!UnlistenMark
    <3> QED BY <1>0, <2>3, <3>2, <3>3 DEF L!TypeOK, L!UnlistenMark
  <2>4. CASE L!UnlistenEnd(a)
    <3> DEFINE l == call[a].lsn
    <3>1. l \in Listeners /\ ref[l] \in Nat /\ ref[l] # 0
      BY <2>4, Calling DEF L!UnlistenEnd
    <3>2. call' \in [L!Actors -> {L!NoCall} \cup
                       [op : L!Ops, lsn : Listeners, todo : SUBSET Watchers]]
      BY <1>0, <2>4, <3>1 DEF L!TypeOK, L!UnlistenEnd
    <3>3. CASE a = Zero
      <4>1. /\ L!Unref(Zero, l, ahead) /\ queue' = queue
            /\ UNCHANGED <<L!lsnsock, mem, remove, on, arrlsn, lsn_batch, accept, L!ending, conns>>
        BY <2>4, <3>3 DEF L!UnlistenEnd
      <4>2. ahead \in [Listeners -> [Watchers -> Nat]] /\ queue' \in [Watchers -> Seq(Cmds)]
        BY <1>0, <4>1, QueueTypes DEF L!TypeOK
      <4>3. /\ ref' \in [Listeners -> Nat] /\ qtn' \in [Watchers -> SUBSET Listeners]
            /\ busy' \in [Listeners -> SUBSET Watchers]
            /\ ahead' \in [Listeners -> [Watchers -> Nat]]
        BY <1>0, <3>1, <4>1, <4>2, UnrefTypes, LisSetting
      <4> QED BY <1>0, <3>2, <4>1, <4>3 DEF L!TypeOK
    <3>4. CASE a # Zero
      <4>1. /\ L!Send(Zero, L!Cmd("LSN_UNREF", l))
            /\ UNCHANGED <<L!lsnsock, mem, ref, remove, on, arrlsn, lsn_batch, accept, L!grace,
                           L!ending, conns>>
        BY <2>4, <3>4 DEF L!UnlistenEnd
      <4>2. queue' \in [Watchers -> Seq(Cmds)]
        BY <1>0, <3>1, <4>1, CmdNames, SendForm, QueueTypes, LisSetting
      <4> QED BY <1>0, <3>2, <4>1, <4>2 DEF L!TypeOK, Cmds
    <3> QED BY <3>3, <3>4
  <2> QED BY <1>2, <2>1, <2>2, <2>3, <2>4 DEF L!Unlisten
<1>3. ASSUME NEW w \in Watchers, L!Loop(w) PROVE L!TypeOK'
  <2>1. CASE L!Poll(w) BY <1>0, <2>1 DEF L!TypeOK, L!Poll
  <2>2. ASSUME NEW l \in Listeners, L!Dispatch(w, l) PROVE L!TypeOK'
    BY <1>0, <2>2 DEF L!TypeOK, L!Dispatch, L!Phases
  <2>3. ASSUME NEW l \in Listeners, L!BackoffOver(w, l) PROVE L!TypeOK'
    BY <1>0, <2>3 DEF L!TypeOK, L!BackoffOver
  <2>4. ASSUME NEW l \in Listeners, L!Release(w, l) PROVE L!TypeOK'
    BY <1>0, <2>4 DEF L!TypeOK, L!Release
  <2> QED BY <1>3, <2>1, <2>2, <2>3, <2>4 DEF L!Loop
<1>4. ASSUME NEW w \in Watchers, L!Accept(w) PROVE L!TypeOK'
  <2>0. /\ accept[w].at \in L!Phases /\ accept[w].lsn \in Listeners
        /\ accept[w] \in [lsn : Listeners, at : L!Phases]
    BY <1>4, AcceptingOn DEF L!Accept, L!AcceptOne, L!AcceptOwn, L!AcceptBack, L!AcceptEnd,
       L!AcceptPause, L!AcceptLost, L!AcceptGive, L!Accepting, L!Phases
  <2>1. CASE L!AcceptOne(w)
    <3>1. conns' \in 0 .. MaxConns BY <1>0, <2>1, LisSetting DEF L!TypeOK, L!AcceptOne
    <3> QED BY <1>0, <2>0, <2>1, <3>1 DEF L!TypeOK, L!AcceptOne, L!AcceptTo, L!Phases
  <2>2. CASE L!AcceptOwn(w)
    BY <1>0, <2>0, <2>2 DEF L!TypeOK, L!AcceptOwn, L!AcceptTo, L!Phases
  <2>3. CASE L!AcceptBack(w)
    BY <1>0, <2>0, <2>3 DEF L!TypeOK, L!AcceptBack, L!AcceptTo, L!Phases
  <2>4. CASE L!AcceptEnd(w) BY <1>0, <2>4 DEF L!TypeOK, L!AcceptEnd
  <2>5. CASE L!AcceptPause(w) BY <1>0, <2>0, <2>5 DEF L!TypeOK, L!AcceptPause
  <2>6. CASE L!AcceptLost(w) BY <1>0, <2>0, <2>6 DEF L!TypeOK, L!AcceptLost
  <2>7. ASSUME NEW to \in Watchers, L!AcceptGive(w, to) PROVE L!TypeOK'
    <3>1. queue' \in [Watchers -> Seq(Cmds)]
      BY <1>0, <2>0, <2>7, CmdNames, SendForm, QueueTypes DEF L!AcceptGive
    <3>2. ref' \in [Listeners -> Nat] BY <1>0, <2>0, <2>7 DEF L!TypeOK, L!AcceptGive
    <3> QED BY <1>0, <2>0, <2>7, <3>1, <3>2 DEF L!TypeOK, L!AcceptGive, L!AcceptTo, L!Phases, Cmds
  <2> QED BY <1>4, <2>1, <2>2, <2>3, <2>4, <2>5, <2>6, <2>7 DEF L!Accept
<1>5. ASSUME NEW w \in Watchers, L!Commanded(w) PROVE L!TypeOK'
  <2> DEFINE c == Head(queue[w])
  <2>0. ASSUME NEW k, L!Takes(w, k), k \in {"LSN", "UNLSN", "LSN_UNREF", "ADDACP", "STOP"}
        PROVE  /\ k # "STOP" => c.lsn \in Listeners
               /\ queue' \in [Watchers -> Seq(Cmds)]
               /\ L!OneLess(w) \in [Listeners -> [Watchers -> Nat]]
               /\ k \in Counting => ref[c.lsn] \in Nat /\ ref[c.lsn] # 0
    <3>1. QueueTaken(w) /\ queue[w] # <<>> /\ c.cmd = k BY <2>0, TakeForm DEF QueueTaken
    <3>2. c \in Cmds /\ (c.cmd \in Counting => ref[c.lsn] \in Nat /\ ref[c.lsn] # 0)
      BY <3>1, Heads
    <3>3. k # "STOP" => c.lsn \in Listeners BY <3>1, <3>2, CmdNames
    <3> QED BY <1>0, <3>1, <3>2, <3>3, QueueTypes
  <2> HIDE DEF c
  <2>1. CASE L!CmdLsn(w)
    <3>1. L!Takes(w, "LSN") /\ L!AddLsn(w, c.lsn) BY <2>1 DEF L!CmdLsn, c
    <3>2. c.lsn \in Listeners BY <2>0, <3>1
    <3>3. /\ fd' \in [Listeners -> SUBSET Watchers] /\ reg' \in [Listeners -> SUBSET Watchers]
          /\ ev_cb' = ev_cb /\ backoff' = backoff
      BY <1>0, <3>1, <3>2, AddTypes
    <3>4. ahead' \in [Listeners -> [Watchers -> Nat]] BY <2>0, <2>1, <3>1 DEF L!CmdLsn
    <3> QED BY <1>0, <2>0, <2>1, <3>1, <3>3, <3>4 DEF L!TypeOK, L!CmdLsn, Cmds
  <2>2. CASE L!CmdUnlsn(w)
    <3>1. L!Takes(w, "UNLSN") /\ L!RemoveLsn(w, c.lsn, L!OneLess(w)) BY <2>2 DEF L!CmdUnlsn, c
    <3>2. /\ c.lsn \in Listeners /\ ref[c.lsn] \in Nat /\ ref[c.lsn] # 0
          /\ queue' \in [Watchers -> Seq(Cmds)]
          /\ L!OneLess(w) \in [Listeners -> [Watchers -> Nat]]
      BY <2>0, <3>1 DEF Counting
    <3>3. /\ ref' \in [Listeners -> Nat] /\ qtn' \in [Watchers -> SUBSET Listeners]
          /\ busy' \in [Listeners -> SUBSET Watchers]
          /\ ahead' \in [Listeners -> [Watchers -> Nat]]
          /\ fd' \in [Listeners -> SUBSET Watchers] /\ reg' \in [Listeners -> SUBSET Watchers]
          /\ ev_cb' \in [Listeners -> SUBSET Watchers]
          /\ backoff' \in [Listeners -> SUBSET Watchers]
      BY <1>0, <3>1, <3>2, RemoveTypes
    <3> QED BY <1>0, <2>2, <3>2, <3>3 DEF L!TypeOK, L!CmdUnlsn, Cmds
  <2>3. CASE L!CmdLsnUnref(w)
    <3>1. L!Takes(w, "LSN_UNREF") /\ L!Unref(w, c.lsn, L!OneLess(w)) BY <2>3 DEF L!CmdLsnUnref, c
    <3>2. /\ c.lsn \in Listeners /\ ref[c.lsn] \in Nat /\ ref[c.lsn] # 0
          /\ queue' \in [Watchers -> Seq(Cmds)]
          /\ L!OneLess(w) \in [Listeners -> [Watchers -> Nat]]
      BY <2>0, <3>1 DEF Counting
    <3>3. /\ ref' \in [Listeners -> Nat] /\ qtn' \in [Watchers -> SUBSET Listeners]
          /\ busy' \in [Listeners -> SUBSET Watchers]
          /\ ahead' \in [Listeners -> [Watchers -> Nat]]
      BY <1>0, <3>1, <3>2, UnrefTypes
    <3> QED BY <1>0, <2>3, <3>2, <3>3 DEF L!TypeOK, L!CmdLsnUnref, Cmds
  <2>4. CASE L!CmdAddAcp(w)
    <3>1. L!Takes(w, "ADDACP") BY <2>4 DEF L!CmdAddAcp
    <3>2. /\ c.lsn \in Listeners /\ queue' \in [Watchers -> Seq(Cmds)]
          /\ ahead' \in [Listeners -> [Watchers -> Nat]]
      BY <2>0, <2>4, <3>1 DEF L!CmdAddAcp
    <3>3. accept' \in [Watchers -> {L!NoAccept} \cup [lsn : Listeners, at : L!Phases]]
      BY <1>0, <2>4, <3>2 DEF L!TypeOK, L!CmdAddAcp, L!Phases, c
    <3> QED BY <1>0, <2>4, <3>2, <3>3 DEF L!TypeOK, L!CmdAddAcp, Cmds
  <2>5. CASE L!AddedEnd(w)
    <3> DEFINE l == accept[w].lsn
    <3>1. accept[w].at = "added" BY <2>5 DEF L!AddedEnd, L!Accepting
    <3>2. l \in Listeners /\ ref[l] \in Nat /\ ref[l] # 0 BY <3>1, AcceptingOn DEF L!Phases
    <3>3. /\ L!Unref(w, l, ahead) /\ queue' = queue
          /\ ahead \in [Listeners -> [Watchers -> Nat]] /\ queue' \in [Watchers -> Seq(Cmds)]
      BY <1>0, <2>5, QueueTypes DEF L!TypeOK, L!AddedEnd
    <3>4. /\ ref' \in [Listeners -> Nat] /\ qtn' \in [Watchers -> SUBSET Listeners]
          /\ busy' \in [Listeners -> SUBSET Watchers]
          /\ ahead' \in [Listeners -> [Watchers -> Nat]]
      BY <1>0, <3>2, <3>3, UnrefTypes
    <3> QED BY <1>0, <2>5, <3>3, <3>4 DEF L!TypeOK, L!AddedEnd, Cmds
  <2>6. CASE L!CmdStop(w)
    <3>1. L!Takes(w, "STOP") BY <2>6 DEF L!CmdStop
    <3>2. queue' \in [Watchers -> Seq(Cmds)] /\ ahead' \in [Listeners -> [Watchers -> Nat]]
      BY <2>0, <2>6, <3>1 DEF L!CmdStop
    <3> QED BY <1>0, <2>6, <3>2 DEF L!TypeOK, L!CmdStop, Cmds
  <2> QED BY <1>5, <2>1, <2>2, <2>3, <2>4, <2>5, <2>6 DEF L!Commanded
<1>6. CASE L!Free
  <2>1. CASE L!FreeStart
    <3>1. queue' = [v \in Watchers |-> Append(queue[v], L!Cmd("STOP", Nil))]
      BY <2>1 DEF L!FreeStart
    <3>2. queue' \in [Watchers -> Seq(Cmds)]
      BY <1>0, <3>1, CmdNames, QueueTypes, Sent
    <3> QED BY <1>0, <2>1, <3>2 DEF L!TypeOK, L!FreeStart, L!Stages, Cmds
  <2>2. CASE L!FreeAll BY <1>0, <2>2 DEF L!TypeOK, L!FreeAll, L!Stages
  <2>3. ASSUME NEW w \in Watchers, L!Exit(w) PROVE L!TypeOK'
    BY <1>0, <2>3 DEF L!TypeOK, L!Exit
  <2>4. ASSUME NEW w \in Watchers, L!Drain(w) PROVE L!TypeOK'
    <3>1. QueueTaken(w) BY <2>4 DEF L!Drain, QueueTaken
    <3>2. queue' \in [Watchers -> Seq(Cmds)] BY <1>0, <3>1, QueueTypes
    <3>3. CASE Head(queue[w]).cmd \in {"ADDACP", "UNLSN", "LSN_UNREF"}
      <4> DEFINE l == Head(queue[w]).lsn
      <4>1. l \in Listeners /\ ref[l] \in Nat /\ ref[l] # 0
        BY <3>1, <3>3, Heads DEF QueueTaken, Counting
      <4>2. ref' = [ref EXCEPT ![l] = @ - 1]
            /\ mem' = IF ref[l] = 1 THEN [mem EXCEPT ![l] = "freed"] ELSE mem
        BY <2>4, <3>3 DEF L!Drain
      <4> HIDE DEF l
      <4>3. ref' \in [Listeners -> Nat] /\ mem' \in [Listeners -> {"new", "live", "freed"}]
        BY <1>0, <4>1, <4>2 DEF L!TypeOK
      <4> QED BY <1>0, <2>4, <3>2, <4>3 DEF L!TypeOK, L!Drain, Cmds
    <3>4. CASE Head(queue[w]).cmd \notin {"ADDACP", "UNLSN", "LSN_UNREF"}
      BY <1>0, <2>4, <3>2, <3>4 DEF L!TypeOK, L!Drain, Cmds
    <3> QED BY <3>3, <3>4
  <2>5. ASSUME NEW w \in Watchers, L!Flush(w) PROVE L!TypeOK'
    BY <1>0, <2>5 DEF L!TypeOK, L!Flush
  <2> QED BY <1>6, <2>1, <2>2, <2>3, <2>4, <2>5 DEF L!Free
<1>7. CASE UNCHANGED L!vars BY <1>0, <1>7 DEF L!TypeOK, L!vars
<1> QED BY <1>1, <1>2, <1>3, <1>4, <1>5, <1>6, <1>7 DEF L!Next

-----------------------------------------------------------------------------
(* What a step does to the commands in the queues *)

\* Which commands are there when one was sent,
LEMMA SentMembers ==
  ASSUME L!TypeOK, NEW w \in Watchers, NEW c \in Cmds, QueueSent(w, c)
  PROVE  /\ queue' # [v \in Watchers |-> <<>>] /\ queue'[w] # <<>>
         /\ \A v \in Watchers : v # w => queue'[v] = queue[v]
         /\ \A v \in Watchers : \A i \in DOMAIN queue[v] :
              i \in DOMAIN queue'[v] /\ queue'[v][i] = queue[v][i]
         /\ \A v \in Watchers : \A i \in DOMAIN queue'[v] :
              \/ i \in DOMAIN queue[v] /\ queue'[v][i] = queue[v][i]
              \/ v = w /\ queue'[v][i] = c
         /\ \E i \in DOMAIN queue'[w] : queue'[w][i] = c
<1>1. queue[w] \in Seq(Cmds) BY DEF L!TypeOK, Cmds
<1>2. queue'[w] = Append(queue[w], c) /\ \A v \in Watchers : v # w => queue'[v] = queue[v]
  BY DEF QueueSent, L!TypeOK
<1>3. Append(queue[w], c) # <<>> BY <1>1
<1> QED BY <1>1, <1>2, <1>3, Sent

\* and when one was taken.
LEMMA TakenMembers ==
  ASSUME L!TypeOK, NEW w \in Watchers, QueueTaken(w)
  PROVE  /\ \A v \in Watchers : v # w => queue'[v] = queue[v]
         /\ DOMAIN queue[w] \subseteq Nat \ {0} /\ DOMAIN queue'[w] \subseteq Nat \ {0}
         /\ \A i \in DOMAIN queue'[w] :
              i + 1 \in DOMAIN queue[w] /\ queue'[w][i] = queue[w][i + 1]
         /\ \A i \in DOMAIN queue[w] :
              \/ queue[w][i] = Head(queue[w])
              \/ i - 1 \in DOMAIN queue'[w] /\ queue'[w][i - 1] = queue[w][i]
<1>1. queue[w] \in Seq(Cmds) /\ queue[w] # <<>> BY DEF L!TypeOK, Cmds, QueueTaken
<1>2. queue'[w] = Tail(queue[w]) /\ \A v \in Watchers : v # w => queue'[v] = queue[v]
  BY DEF QueueTaken, L!TypeOK
<1>3. DOMAIN Tail(queue[w]) \subseteq Nat \ {0} BY <1>1, Taken
<1> QED BY <1>1, <1>2, <1>3, Taken

-----------------------------------------------------------------------------
(* What a step does to the call and to the accept under way *)

Callee(a) == call[a].lsn
InCall(a) == call[a].op \in {"listen", "hold", "unlisten"}
CallNow(a, op, todo) ==
  /\ call'[a] = [op |-> op, lsn |-> Callee(a), todo |-> todo]
  /\ \A b \in L!Actors : b # a => call'[b] = call[b]

\* A call goes through the watchers,
LEMMA CallSends ==
  ASSUME LisInv, NEW a \in L!Actors, NEW w \in Watchers, L!ListenSend(a, w) \/ L!UnlistenSend(a, w)
  PROVE  /\ CallNow(a, call[a].op, call[a].todo \ {w}) /\ w \in call[a].todo
         /\ call[a] # L!NoCall /\ a \notin exited /\ InCall(a)
         /\ L!ListenSend(a, w) => call[a].op = "listen"
         /\ L!UnlistenSend(a, w) => call[a].op = "unlisten"
<1>1. /\ InCall(a) /\ call' = [call EXCEPT ![a].todo = @ \ {w}] /\ w \in call[a].todo
      /\ L!ListenSend(a, w) => call[a].op = "listen"
      /\ L!UnlistenSend(a, w) => call[a].op = "unlisten"
  BY DEF L!ListenSend, L!UnlistenSend, InCall
<1>2. call[a] \in [op : L!Ops, lsn : Listeners, todo : SUBSET Watchers] /\ a \notin exited
  BY <1>1, Calling DEF InCall
<1>3. call \in [L!Actors -> {L!NoCall} \cup [op : L!Ops, lsn : Listeners, todo : SUBSET Watchers]]
  BY DEF LisInv, L!TypeOK
<1>4. CallNow(a, call[a].op, call[a].todo \ {w}) BY <1>1, <1>2, <1>3 DEF CallNow, Callee
<1> QED BY <1>1, <1>2, <1>4 DEF InCall, L!NoCall

\* ev_unlisten marks its listener,
LEMMA CallMarks ==
  ASSUME LisInv, NEW a \in L!Actors, L!UnlistenMark(a)
  PROVE  /\ CallNow(a, "unlisten", on[Callee(a)]) /\ call[a].op = "hold"
         /\ call[a] # L!NoCall /\ a \notin exited /\ InCall(a)
<1>1. /\ InCall(a) /\ call[a].op = "hold"
      /\ call' = [call EXCEPT ![a].op = "unlisten", ![a].todo = on[Callee(a)]]
  BY DEF L!UnlistenMark, InCall, Callee
<1>2. call[a] \in [op : L!Ops, lsn : Listeners, todo : SUBSET Watchers] /\ a \notin exited
  BY <1>1, Calling DEF InCall
<1>3. call \in [L!Actors -> {L!NoCall} \cup [op : L!Ops, lsn : Listeners, todo : SUBSET Watchers]]
  BY DEF LisInv, L!TypeOK
<1>4. CallNow(a, "unlisten", on[Callee(a)]) BY <1>1, <1>2, <1>3 DEF CallNow, Callee
<1> QED BY <1>1, <1>2, <1>4 DEF InCall, L!NoCall

\* a call ends,
LEMMA CallEnds ==
  ASSUME LisInv, NEW a \in L!Actors, L!ListenEnd(a) \/ L!UnlistenEnd(a)
  PROVE  /\ call'[a] = L!NoCall /\ \A b \in L!Actors : b # a => call'[b] = call[b]
         /\ call[a] # L!NoCall /\ a \notin exited /\ InCall(a) /\ Callee(a) \in Listeners
<1>1. InCall(a) /\ call' = [call EXCEPT ![a] = L!NoCall]
  BY DEF L!ListenEnd, L!UnlistenEnd, InCall
<1>2. call[a] \in [op : L!Ops, lsn : Listeners, todo : SUBSET Watchers] /\ a \notin exited
  BY <1>1, Calling DEF InCall
<1> QED BY <1>1, <1>2 DEF InCall, L!NoCall, LisInv, L!TypeOK, Callee

\* a call starts,
LEMMA CallStarts ==
  ASSUME LisInv, NEW a \in L!Actors, NEW l \in Listeners,
         \/ \E ws \in (SUBSET Watchers) \ {{}} : L!ListenStart(a, l, ws)
         \/ L!UnlistenTake(a, l)
  PROVE  /\ call'[a].lsn = l /\ \A b \in L!Actors : b # a => call'[b] = call[b]
         /\ call[a] = L!NoCall /\ a \notin exited
         /\ a \in Users => stage = "no"
<1>1. L!MayCall(a) /\ call'[a].lsn = l /\ \A b \in L!Actors : b # a => call'[b] = call[b]
  BY DEF L!ListenStart, L!UnlistenTake, LisInv, L!TypeOK
<1>2. a \in Watchers => a \notin exited BY <1>1 DEF L!MayCall
<1>3. a \notin Watchers => a \notin exited BY DEF LisInv, L!TypeOK
<1> QED BY <1>1, <1>2, <1>3, LisSetting DEF L!MayCall

\* and what it calls.
LEMMA StartsListen ==
  ASSUME L!TypeOK, NEW a \in L!Actors, NEW l, NEW ws, L!ListenStart(a, l, ws)
  PROVE  call'[a].op = "listen"
<1>1. call' = [call EXCEPT ![a] = [op |-> "listen", lsn |-> l, todo |-> ws]] BY DEF L!ListenStart
<1> QED BY <1>1 DEF L!TypeOK

LEMMA StartsHold ==
  ASSUME L!TypeOK, NEW a \in L!Actors, NEW l, L!UnlistenTake(a, l)
  PROVE  call'[a].op = "hold"
<1>1. call' = [call EXCEPT ![a] = [op |-> "hold", lsn |-> l, todo |-> {}]] BY DEF L!UnlistenTake
<1> QED BY <1>1 DEF L!TypeOK

\* An accept goes from one phase to the next.
LEMMA AcceptGoes ==
  ASSUME LisInv, NEW w \in Watchers, NEW at, L!AcceptTo(w, at), accept[w].at \in L!Phases
  PROVE  /\ accept'[w] = [lsn |-> accept[w].lsn, at |-> at] /\ w \notin exited
         /\ \A v \in Watchers : v # w => accept'[v] = accept[v]
<1>1. accept[w] \in [lsn : Listeners, at : L!Phases] /\ w \notin exited BY AcceptingOn
<1>2. accept \in [Watchers -> {L!NoAccept} \cup [lsn : Listeners, at : L!Phases]]
  BY DEF LisInv, L!TypeOK
<1> QED BY <1>1, <1>2 DEF L!AcceptTo

\* The phase that each step of the accept path leaves.
LEMMA AcceptFrom ==
  ASSUME NEW w
  PROVE  /\ L!AcceptOne(w) \/ L!AcceptEnd(w) \/ L!AcceptPause(w) \/ L!AcceptLost(w) =>
              accept[w].at = "loop" /\ call[w] = L!NoCall
         /\ L!AcceptOwn(w) \/ (\E to \in Watchers : L!AcceptGive(w, to)) =>
              accept[w].at = "got" /\ call[w] = L!NoCall
         /\ L!AcceptBack(w) => accept[w].at = "cb" /\ call[w] = L!NoCall
         /\ L!AddedEnd(w) => accept[w].at = "added" /\ call[w] = L!NoCall
BY DEF L!AcceptOne, L!AcceptOwn, L!AcceptBack, L!AcceptEnd, L!AcceptPause, L!AcceptLost,
  L!AcceptGive, L!AddedEnd, L!Accepting

-----------------------------------------------------------------------------
(* The simple parts of the invariant *)

\* Nothing is called in the accept loop.
LEMMA AloneStep ==
  ASSUME LisInv, [L!Next]_(L!vars)
  PROVE  Alone'
<1> USE DEF L!lsnsock, L!grace, L!ending
<1>0. L!TypeOK /\ Alone BY DEF LisInv
<1>1. ASSUME NEW a \in L!Actors, L!Listen(a) PROVE Alone'
  <2>1. ASSUME NEW l \in Listeners, NEW ws \in (SUBSET Watchers) \ {{}},
               L!ListenStart(a, l, ws)
        PROVE Alone'
    BY <1>0, <2>1 DEF Alone, L!TypeOK, L!ListenStart, L!MayCall
  <2>2. ASSUME NEW w \in Watchers, L!ListenSend(a, w) PROVE Alone'
    <3>1. /\ CallNow(a, call[a].op, call[a].todo \ {w}) /\ call[a] # L!NoCall /\ a \notin exited
          /\ InCall(a)
      BY <2>2, CallSends
    <3> QED BY <1>0, <2>2, <3>1, LisSetting DEF L!Actors, Alone, CallNow, Callee, L!ListenSend
  <2>3. CASE L!ListenEnd(a)
    BY <1>0, <2>3 DEF Alone, L!TypeOK, L!ListenEnd
  <2> QED BY <1>1, <2>1, <2>2, <2>3 DEF L!Listen
<1>2. ASSUME NEW a \in L!Actors, L!Unlisten(a) PROVE Alone'
  <2>1. ASSUME NEW l \in Listeners, L!UnlistenTake(a, l) PROVE Alone'
    BY <1>0, <2>1 DEF Alone, L!TypeOK, L!UnlistenTake, L!MayCall
  <2>2. ASSUME NEW w \in Watchers, L!UnlistenSend(a, w) PROVE Alone'
    <3>1. /\ CallNow(a, call[a].op, call[a].todo \ {w}) /\ call[a] # L!NoCall /\ a \notin exited
          /\ InCall(a)
      BY <2>2, CallSends
    <3> QED BY <1>0, <2>2, <3>1 DEF L!Actors, Alone, CallNow, Callee, L!UnlistenSend
  <2>3. CASE L!UnlistenMark(a)
    <3>1. /\ CallNow(a, "unlisten", on[Callee(a)]) /\ call[a] # L!NoCall /\ a \notin exited
          /\ InCall(a)
      BY <2>3, CallMarks
    <3> QED BY <1>0, <2>3, <3>1 DEF L!Actors, Alone, CallNow, Callee, L!UnlistenMark
  <2>4. CASE L!UnlistenEnd(a)
    BY <1>0, <2>4 DEF Alone, L!TypeOK, L!UnlistenEnd
  <2> QED BY <1>2, <2>1, <2>2, <2>3, <2>4 DEF L!Unlisten
<1>3. ASSUME NEW w \in Watchers, L!Loop(w) PROVE Alone'
  <2>1. CASE L!Poll(w)
    BY <1>0, <2>1 DEF Alone, L!TypeOK, L!Poll, L!InLoop
  <2>2. ASSUME NEW l \in Listeners, L!Dispatch(w, l) PROVE Alone'
    BY <1>0, <2>2 DEF Alone, L!TypeOK, L!Dispatch, L!InLoop
  <2>3. ASSUME NEW l \in Listeners, L!BackoffOver(w, l) PROVE Alone'
    BY <1>0, <2>3 DEF Alone, L!TypeOK, L!BackoffOver, L!InLoop
  <2>4. ASSUME NEW l \in Listeners, L!Release(w, l) PROVE Alone'
    BY <1>0, <2>4 DEF Alone, L!TypeOK, L!Release, L!InLoop
  <2> QED BY <1>3, <2>1, <2>2, <2>3, <2>4 DEF L!Loop
<1>4. ASSUME NEW w \in Watchers, L!Accept(w) PROVE Alone'
  <2>1. CASE L!AcceptOne(w)
    BY <1>0, <2>1 DEF Alone, L!TypeOK, L!AcceptOne, L!Accepting, L!AcceptTo
  <2>2. CASE L!AcceptOwn(w)
    BY <1>0, <2>2 DEF Alone, L!TypeOK, L!AcceptOwn, L!Accepting, L!AcceptTo
  <2>3. CASE L!AcceptBack(w)
    BY <1>0, <2>3 DEF Alone, L!TypeOK, L!AcceptBack, L!Accepting, L!AcceptTo
  <2>4. CASE L!AcceptEnd(w)
    BY <1>0, <2>4 DEF Alone, L!TypeOK, L!AcceptEnd, L!Accepting
  <2>5. CASE L!AcceptPause(w)
    BY <1>0, <2>5 DEF Alone, L!TypeOK, L!AcceptPause, L!Accepting
  <2>6. CASE L!AcceptLost(w)
    BY <1>0, <2>6 DEF Alone, L!TypeOK, L!AcceptLost, L!Accepting
  <2>7. ASSUME NEW to \in Watchers, L!AcceptGive(w, to) PROVE Alone'
    BY <1>0, <2>7 DEF Alone, L!TypeOK, L!AcceptGive, L!Accepting, L!AcceptTo
  <2> QED BY <1>4, <2>1, <2>2, <2>3, <2>4, <2>5, <2>6, <2>7 DEF L!Accept
<1>5. ASSUME NEW w \in Watchers, L!Commanded(w) PROVE Alone'
  <2>1. CASE L!CmdLsn(w)
    BY <1>0, <2>1 DEF Alone, L!TypeOK, L!CmdLsn
  <2>2. CASE L!CmdUnlsn(w)
    BY <1>0, <2>2 DEF Alone, L!TypeOK, L!CmdUnlsn
  <2>3. CASE L!CmdLsnUnref(w)
    BY <1>0, <2>3 DEF Alone, L!TypeOK, L!CmdLsnUnref
  <2>4. CASE L!CmdAddAcp(w)
    BY <1>0, <2>4 DEF Alone, L!TypeOK, L!CmdAddAcp
  <2>5. CASE L!AddedEnd(w)
    BY <1>0, <2>5 DEF Alone, L!TypeOK, L!AddedEnd, L!Accepting
  <2>6. CASE L!CmdStop(w)
    BY <1>0, <2>6 DEF Alone, L!TypeOK, L!CmdStop
  <2> QED BY <1>5, <2>1, <2>2, <2>3, <2>4, <2>5, <2>6 DEF L!Commanded
<1>6. CASE L!Free
  <2>1. CASE L!FreeStart
    BY <1>0, <2>1 DEF Alone, L!TypeOK, L!FreeStart
  <2>2. CASE L!FreeAll
    BY <1>0, <2>2 DEF Alone, L!TypeOK, L!FreeAll
  <2>3. ASSUME NEW w \in Watchers, L!Exit(w) PROVE Alone'
    BY <1>0, <2>3 DEF Alone, L!TypeOK, L!Exit, L!InLoop
  <2>4. ASSUME NEW w \in Watchers, L!Drain(w) PROVE Alone'
    BY <1>0, <2>4 DEF Alone, L!TypeOK, L!Drain
  <2>5. ASSUME NEW w \in Watchers, L!Flush(w) PROVE Alone'
    BY <1>0, <2>5 DEF Alone, L!TypeOK, L!Flush
  <2> QED BY <1>6, <2>1, <2>2, <2>3, <2>4, <2>5 DEF L!Free
<1>7. CASE UNCHANGED L!vars BY <1>0, <1>7 DEF Alone, L!TypeOK, L!vars
<1> QED BY <1>1, <1>2, <1>3, <1>4, <1>5, <1>6, <1>7 DEF L!Next

\* A watcher exits outside of any function.
LEMMA OutsideStep ==
  ASSUME LisInv, [L!Next]_(L!vars)
  PROVE  Outside'
<1> USE DEF L!lsnsock, L!grace, L!ending
<1>0. L!TypeOK /\ Outside BY DEF LisInv, Outside
<1>1. ASSUME NEW a \in L!Actors, L!Listen(a) PROVE Outside'
  <2>1. ASSUME NEW l \in Listeners, NEW ws \in (SUBSET Watchers) \ {{}},
               L!ListenStart(a, l, ws)
        PROVE Outside'
    BY <1>0, <2>1 DEF Outside, L!TypeOK, L!ListenStart, L!MayCall
  <2>2. ASSUME NEW w \in Watchers, L!ListenSend(a, w) PROVE Outside'
    <3>1. /\ CallNow(a, call[a].op, call[a].todo \ {w}) /\ call[a] # L!NoCall /\ a \notin exited
          /\ InCall(a)
      BY <2>2, CallSends
    <3> QED BY <1>0, <2>2, <3>1 DEF L!Actors, Outside, L!TypeOK, CallNow, Callee, L!ListenSend
  <2>3. CASE L!ListenEnd(a)
    BY <1>0, <2>3 DEF Outside, L!TypeOK, L!ListenEnd
  <2> QED BY <1>1, <2>1, <2>2, <2>3 DEF L!Listen
<1>2. ASSUME NEW a \in L!Actors, L!Unlisten(a) PROVE Outside'
  <2>1. ASSUME NEW l \in Listeners, L!UnlistenTake(a, l) PROVE Outside'
    BY <1>0, <2>1 DEF Outside, L!TypeOK, L!UnlistenTake, L!MayCall
  <2>2. ASSUME NEW w \in Watchers, L!UnlistenSend(a, w) PROVE Outside'
    <3>1. /\ CallNow(a, call[a].op, call[a].todo \ {w}) /\ call[a] # L!NoCall /\ a \notin exited
          /\ InCall(a)
      BY <2>2, CallSends
    <3> QED BY <1>0, <2>2, <3>1 DEF L!Actors, Outside, L!TypeOK, CallNow, Callee, L!UnlistenSend
  <2>3. CASE L!UnlistenMark(a)
    <3>1. /\ CallNow(a, "unlisten", on[Callee(a)]) /\ call[a] # L!NoCall /\ a \notin exited
          /\ InCall(a)
      BY <2>3, CallMarks
    <3> QED BY <1>0, <2>3, <3>1 DEF L!Actors, Outside, L!TypeOK, CallNow, Callee, L!UnlistenMark
  <2>4. CASE L!UnlistenEnd(a)
    BY <1>0, <2>4 DEF Outside, L!TypeOK, L!UnlistenEnd
  <2> QED BY <1>2, <2>1, <2>2, <2>3, <2>4 DEF L!Unlisten
<1>3. ASSUME NEW w \in Watchers, L!Loop(w) PROVE Outside'
  <2>1. CASE L!Poll(w)
    BY <1>0, <2>1 DEF Outside, L!TypeOK, L!Poll, L!InLoop
  <2>2. ASSUME NEW l \in Listeners, L!Dispatch(w, l) PROVE Outside'
    BY <1>0, <2>2 DEF Outside, L!TypeOK, L!Dispatch, L!InLoop
  <2>3. ASSUME NEW l \in Listeners, L!BackoffOver(w, l) PROVE Outside'
    BY <1>0, <2>3 DEF Outside, L!TypeOK, L!BackoffOver, L!InLoop
  <2>4. ASSUME NEW l \in Listeners, L!Release(w, l) PROVE Outside'
    BY <1>0, <2>4 DEF Outside, L!TypeOK, L!Release, L!InLoop
  <2> QED BY <1>3, <2>1, <2>2, <2>3, <2>4 DEF L!Loop
<1>4. ASSUME NEW w \in Watchers, L!Accept(w) PROVE Outside'
  <2>1. CASE L!AcceptOne(w)
    <3>1. w \notin exited /\ \A v \in Watchers : v # w => accept'[v] = accept[v]
      BY <2>1, AcceptFrom, AcceptGoes DEF L!AcceptOne, L!Phases
    <3> QED BY <1>0, <2>1, <3>1 DEF Outside, L!TypeOK, L!AcceptOne
  <2>2. CASE L!AcceptOwn(w)
    <3>1. w \notin exited /\ \A v \in Watchers : v # w => accept'[v] = accept[v]
      BY <2>2, AcceptFrom, AcceptGoes DEF L!AcceptOwn, L!Phases
    <3> QED BY <1>0, <2>2, <3>1 DEF Outside, L!TypeOK, L!AcceptOwn
  <2>3. CASE L!AcceptBack(w)
    <3>1. w \notin exited /\ \A v \in Watchers : v # w => accept'[v] = accept[v]
      BY <2>3, AcceptFrom, AcceptGoes DEF L!AcceptBack, L!Phases
    <3> QED BY <1>0, <2>3, <3>1 DEF Outside, L!TypeOK, L!AcceptBack
  <2>4. CASE L!AcceptEnd(w)
    BY <1>0, <2>4 DEF Outside, L!TypeOK, L!AcceptEnd, L!Accepting
  <2>5. CASE L!AcceptPause(w)
    BY <1>0, <2>5 DEF Outside, L!TypeOK, L!AcceptPause, L!Accepting
  <2>6. CASE L!AcceptLost(w)
    BY <1>0, <2>6 DEF Outside, L!TypeOK, L!AcceptLost, L!Accepting
  <2>7. ASSUME NEW to \in Watchers, L!AcceptGive(w, to) PROVE Outside'
    <3>1. w \notin exited /\ \A v \in Watchers : v # w => accept'[v] = accept[v]
      BY <2>7, AcceptFrom, AcceptGoes DEF L!AcceptGive, L!Phases
    <3> QED BY <1>0, <2>7, <3>1 DEF Outside, L!TypeOK, L!AcceptGive
  <2> QED BY <1>4, <2>1, <2>2, <2>3, <2>4, <2>5, <2>6, <2>7 DEF L!Accept
<1>5. ASSUME NEW w \in Watchers, L!Commanded(w) PROVE Outside'
  <2>1. CASE L!CmdLsn(w)
    BY <1>0, <2>1 DEF Outside, L!TypeOK, L!CmdLsn
  <2>2. CASE L!CmdUnlsn(w)
    BY <1>0, <2>2 DEF Outside, L!TypeOK, L!CmdUnlsn
  <2>3. CASE L!CmdLsnUnref(w)
    BY <1>0, <2>3 DEF Outside, L!TypeOK, L!CmdLsnUnref
  <2>4. CASE L!CmdAddAcp(w)
    <3>1. w \notin exited /\ \A v \in Watchers : v # w => accept'[v] = accept[v]
      BY <1>0, <2>4, TakeForm DEF L!CmdAddAcp, L!TypeOK
    <3> QED BY <1>0, <2>4, <3>1 DEF Outside, L!TypeOK, L!CmdAddAcp
  <2>5. CASE L!AddedEnd(w)
    BY <1>0, <2>5 DEF Outside, L!TypeOK, L!AddedEnd, L!Accepting
  <2>6. CASE L!CmdStop(w)
    BY <1>0, <2>6 DEF Outside, L!TypeOK, L!CmdStop
  <2> QED BY <1>5, <2>1, <2>2, <2>3, <2>4, <2>5, <2>6 DEF L!Commanded
<1>6. CASE L!Free
  <2>1. CASE L!FreeStart
    BY <1>0, <2>1 DEF Outside, L!TypeOK, L!FreeStart
  <2>2. CASE L!FreeAll
    BY <1>0, <2>2 DEF Outside, L!TypeOK, L!FreeAll
  <2>3. ASSUME NEW w \in Watchers, L!Exit(w) PROVE Outside'
    BY <1>0, <2>3 DEF Outside, L!TypeOK, L!Exit, L!InLoop
  <2>4. ASSUME NEW w \in Watchers, L!Drain(w) PROVE Outside'
    BY <1>0, <2>4 DEF Outside, L!TypeOK, L!Drain
  <2>5. ASSUME NEW w \in Watchers, L!Flush(w) PROVE Outside'
    BY <1>0, <2>5 DEF Outside, L!TypeOK, L!Flush
  <2> QED BY <1>6, <2>1, <2>2, <2>3, <2>4, <2>5 DEF L!Free
<1>7. CASE UNCHANGED L!vars BY <1>0, <1>7 DEF Outside, L!TypeOK, L!vars
<1> QED BY <1>1, <1>2, <1>3, <1>4, <1>5, <1>6, <1>7 DEF L!Next

\* One call at a time holds a listener.
LEMMA OneCallerStep ==
  ASSUME LisInv, [L!Next]_(L!vars)
  PROVE  OneCaller'
<1> USE DEF L!lsnsock, L!grace, L!ending
<1>0. L!TypeOK /\ OneCaller BY DEF LisInv
<1>1. ASSUME NEW a \in L!Actors, L!Listen(a) PROVE OneCaller'
  <2>1. ASSUME NEW l \in Listeners, NEW ws \in (SUBSET Watchers) \ {{}},
               L!ListenStart(a, l, ws)
        PROVE OneCaller'
    <3>1. call'[a].lsn = l /\ \A b \in L!Actors : b # a => call'[b] = call[b]
      BY <2>1, CallStarts
    <3>2. mem[l] # "live" BY <2>1 DEF L!ListenStart
    <3>3. ~Leads(l) BY <3>2 DEF LisInv, Reached
    <3>4. l \notin arrlsn /\ \A b \in L!Actors : call[b].lsn # l BY <3>3 DEF Leads
    <3>5. arrlsn' = arrlsn BY <2>1 DEF L!ListenStart
    <3> QED BY <1>0, <3>1, <3>4, <3>5 DEF OneCaller
  <2>2. ASSUME NEW w \in Watchers, L!ListenSend(a, w) PROVE OneCaller'
    <3>1. /\ CallNow(a, call[a].op, call[a].todo \ {w}) /\ call[a] # L!NoCall /\ a \notin exited
          /\ InCall(a)
      BY <2>2, CallSends
    <3> QED BY <1>0, <2>2, <3>1 DEF OneCaller, CallNow, Callee, L!ListenSend
  <2>3. CASE L!ListenEnd(a)
    <3>1. /\ call'[a] = L!NoCall /\ Callee(a) \in Listeners
          /\ \A b \in L!Actors : b # a => call'[b] = call[b]
      BY <2>3, CallEnds
    <3> QED BY <1>0, <2>3, <3>1, LisSetting DEF OneCaller, L!ListenEnd, L!NoCall, Callee
  <2> QED BY <1>1, <2>1, <2>2, <2>3 DEF L!Listen
<1>2. ASSUME NEW a \in L!Actors, L!Unlisten(a) PROVE OneCaller'
  <2>1. ASSUME NEW l \in Listeners, L!UnlistenTake(a, l) PROVE OneCaller'
    <3>1. call'[a].lsn = l /\ \A b \in L!Actors : b # a => call'[b] = call[b]
      BY <2>1, CallStarts
    <3> QED BY <1>0, <2>1, <3>1 DEF OneCaller, L!UnlistenTake
  <2>2. ASSUME NEW w \in Watchers, L!UnlistenSend(a, w) PROVE OneCaller'
    <3>1. /\ CallNow(a, call[a].op, call[a].todo \ {w}) /\ call[a] # L!NoCall /\ a \notin exited
          /\ InCall(a)
      BY <2>2, CallSends
    <3> QED BY <1>0, <2>2, <3>1 DEF OneCaller, CallNow, Callee, L!UnlistenSend
  <2>3. CASE L!UnlistenMark(a)
    <3>1. CallNow(a, "unlisten", on[Callee(a)]) BY <2>3, CallMarks
    <3>2. \A b \in L!Actors : call'[b].lsn = call[b].lsn BY <3>1 DEF CallNow, Callee
    <3>3. arrlsn' = arrlsn BY <2>3 DEF L!UnlistenMark
    <3> QED BY <1>0, <3>2, <3>3 DEF OneCaller
  <2>4. CASE L!UnlistenEnd(a)
    <3>1. /\ call'[a] = L!NoCall /\ Callee(a) \in Listeners
          /\ \A b \in L!Actors : b # a => call'[b] = call[b]
      BY <2>4, CallEnds
    <3> QED BY <1>0, <2>4, <3>1, LisSetting DEF OneCaller, L!UnlistenEnd, L!NoCall, Callee
  <2> QED BY <1>2, <2>1, <2>2, <2>3, <2>4 DEF L!Unlisten
<1>3. ASSUME NEW w \in Watchers, L!Loop(w) PROVE OneCaller'
  <2>1. CASE L!Poll(w)
    BY <1>0, <2>1 DEF OneCaller, L!TypeOK, L!Poll, L!InLoop
  <2>2. ASSUME NEW l \in Listeners, L!Dispatch(w, l) PROVE OneCaller'
    BY <1>0, <2>2 DEF OneCaller, L!TypeOK, L!Dispatch, L!InLoop
  <2>3. ASSUME NEW l \in Listeners, L!BackoffOver(w, l) PROVE OneCaller'
    BY <1>0, <2>3 DEF OneCaller, L!TypeOK, L!BackoffOver, L!InLoop
  <2>4. ASSUME NEW l \in Listeners, L!Release(w, l) PROVE OneCaller'
    BY <1>0, <2>4 DEF OneCaller, L!TypeOK, L!Release, L!InLoop
  <2> QED BY <1>3, <2>1, <2>2, <2>3, <2>4 DEF L!Loop
<1>4. ASSUME NEW w \in Watchers, L!Accept(w) PROVE OneCaller'
  <2>1. CASE L!AcceptOne(w)
    BY <1>0, <2>1 DEF OneCaller, L!TypeOK, L!AcceptOne, L!Accepting, L!AcceptTo
  <2>2. CASE L!AcceptOwn(w)
    BY <1>0, <2>2 DEF OneCaller, L!TypeOK, L!AcceptOwn, L!Accepting, L!AcceptTo
  <2>3. CASE L!AcceptBack(w)
    BY <1>0, <2>3 DEF OneCaller, L!TypeOK, L!AcceptBack, L!Accepting, L!AcceptTo
  <2>4. CASE L!AcceptEnd(w)
    BY <1>0, <2>4 DEF OneCaller, L!TypeOK, L!AcceptEnd, L!Accepting
  <2>5. CASE L!AcceptPause(w)
    BY <1>0, <2>5 DEF OneCaller, L!TypeOK, L!AcceptPause, L!Accepting
  <2>6. CASE L!AcceptLost(w)
    BY <1>0, <2>6 DEF OneCaller, L!TypeOK, L!AcceptLost, L!Accepting
  <2>7. ASSUME NEW to \in Watchers, L!AcceptGive(w, to) PROVE OneCaller'
    BY <1>0, <2>7 DEF OneCaller, L!TypeOK, L!AcceptGive, L!Accepting, L!AcceptTo
  <2> QED BY <1>4, <2>1, <2>2, <2>3, <2>4, <2>5, <2>6, <2>7 DEF L!Accept
<1>5. ASSUME NEW w \in Watchers, L!Commanded(w) PROVE OneCaller'
  <2>1. CASE L!CmdLsn(w)
    BY <1>0, <2>1 DEF OneCaller, L!TypeOK, L!CmdLsn
  <2>2. CASE L!CmdUnlsn(w)
    BY <1>0, <2>2 DEF OneCaller, L!TypeOK, L!CmdUnlsn
  <2>3. CASE L!CmdLsnUnref(w)
    BY <1>0, <2>3 DEF OneCaller, L!TypeOK, L!CmdLsnUnref
  <2>4. CASE L!CmdAddAcp(w)
    BY <1>0, <2>4 DEF OneCaller, L!TypeOK, L!CmdAddAcp
  <2>5. CASE L!AddedEnd(w)
    BY <1>0, <2>5 DEF OneCaller, L!TypeOK, L!AddedEnd, L!Accepting
  <2>6. CASE L!CmdStop(w)
    BY <1>0, <2>6 DEF OneCaller, L!TypeOK, L!CmdStop
  <2> QED BY <1>5, <2>1, <2>2, <2>3, <2>4, <2>5, <2>6 DEF L!Commanded
<1>6. CASE L!Free
  <2>1. CASE L!FreeStart
    BY <1>0, <2>1 DEF OneCaller, L!TypeOK, L!FreeStart
  <2>2. CASE L!FreeAll
    BY <1>0, <2>2 DEF OneCaller, L!TypeOK, L!FreeAll
  <2>3. ASSUME NEW w \in Watchers, L!Exit(w) PROVE OneCaller'
    BY <1>0, <2>3 DEF OneCaller, L!TypeOK, L!Exit, L!InLoop
  <2>4. ASSUME NEW w \in Watchers, L!Drain(w) PROVE OneCaller'
    BY <1>0, <2>4 DEF OneCaller, L!TypeOK, L!Drain
  <2>5. ASSUME NEW w \in Watchers, L!Flush(w) PROVE OneCaller'
    BY <1>0, <2>5 DEF OneCaller, L!TypeOK, L!Flush
  <2> QED BY <1>6, <2>1, <2>2, <2>3, <2>4, <2>5 DEF L!Free
<1>7. CASE UNCHANGED L!vars BY <1>0, <1>7 DEF OneCaller, L!TypeOK, L!vars
<1> QED BY <1>1, <1>2, <1>3, <1>4, <1>5, <1>6, <1>7 DEF L!Next

\* A watcher stops after ev_free told it to.
LEMMA StoppingStep ==
  ASSUME LisInv, [L!Next]_(L!vars)
  PROVE  Stopping'
<1> USE DEF L!lsnsock, L!grace, L!ending
<1>0. L!TypeOK /\ Stopping BY DEF LisInv
<1>1. ASSUME NEW a \in L!Actors, L!Listen(a) PROVE Stopping'
  <2>1. ASSUME NEW l \in Listeners, NEW ws \in (SUBSET Watchers) \ {{}},
               L!ListenStart(a, l, ws)
        PROVE Stopping'
    <3>1. /\ \A b \in L!Actors : b # a => call'[b] = call[b]
          /\ a \in Users => stage = "no"
      BY <2>1, CallStarts
    <3> QED BY <1>0, <2>1, <3>1 DEF Stopping, L!ListenStart, L!Actors
  <2>2. ASSUME NEW w \in Watchers, L!ListenSend(a, w) PROVE Stopping'
    <3> DEFINE c == L!Cmd("LSN", call[a].lsn)
    <3>1. /\ CallNow(a, call[a].op, call[a].todo \ {w}) /\ call[a] # L!NoCall
          /\ UNCHANGED <<stop, exited, stage>>
      BY <2>2, CallSends DEF L!ListenSend
    <3>2. QueuesSame \/ (QueueSent(w, c) /\ c \in Cmds /\ c.cmd # "STOP")
      BY <2>2, Calling, CmdNames, SendForm DEF L!ListenSend, QueuesSame
    <3> HIDE DEF c
    <3>3. \A v \in Watchers : \A i \in DOMAIN queue'[v] : queue'[v][i].cmd = "STOP" =>
            i \in DOMAIN queue[v] /\ queue[v][i].cmd = "STOP"
      BY <1>0, <3>2, SentMembers DEF QueuesSame
    <3> QED BY <1>0, <3>1, <3>3 DEF Stopping, CallNow, L!Actors
  <2>3. CASE L!ListenEnd(a)
    BY <1>0, <2>3 DEF Stopping, L!TypeOK, L!ListenEnd
  <2> QED BY <1>1, <2>1, <2>2, <2>3 DEF L!Listen
<1>2. ASSUME NEW a \in L!Actors, L!Unlisten(a) PROVE Stopping'
  <2>1. ASSUME NEW l \in Listeners, L!UnlistenTake(a, l) PROVE Stopping'
    <3>1. /\ \A b \in L!Actors : b # a => call'[b] = call[b]
          /\ a \in Users => stage = "no"
      BY <2>1, CallStarts
    <3> QED BY <1>0, <2>1, <3>1 DEF Stopping, L!UnlistenTake, L!Actors
  <2>2. ASSUME NEW w \in Watchers, L!UnlistenSend(a, w) PROVE Stopping'
    <3> DEFINE c == L!Cmd("UNLSN", call[a].lsn)
    <3>1. /\ CallNow(a, call[a].op, call[a].todo \ {w}) /\ call[a] # L!NoCall
          /\ UNCHANGED <<stop, exited, stage>>
      BY <2>2, CallSends DEF L!UnlistenSend
    <3>2. QueuesSame \/ (QueueSent(w, c) /\ c \in Cmds /\ c.cmd # "STOP")
      BY <2>2, Calling, CmdNames, SendForm DEF L!UnlistenSend, QueuesSame
    <3> HIDE DEF c
    <3>3. \A v \in Watchers : \A i \in DOMAIN queue'[v] : queue'[v][i].cmd = "STOP" =>
            i \in DOMAIN queue[v] /\ queue[v][i].cmd = "STOP"
      BY <1>0, <3>2, SentMembers DEF QueuesSame
    <3> QED BY <1>0, <3>1, <3>3 DEF Stopping, CallNow, L!Actors
  <2>3. CASE L!UnlistenMark(a)
    <3>1. CallNow(a, "unlisten", on[Callee(a)]) /\ call[a] # L!NoCall BY <2>3, CallMarks
    <3> QED BY <1>0, <2>3, <3>1 DEF Stopping, CallNow, L!UnlistenMark, L!Actors
  <2>4. CASE L!UnlistenEnd(a)
    <3> DEFINE c == L!Cmd("LSN_UNREF", call[a].lsn)
    <3>1. /\ call'[a] = L!NoCall /\ \A b \in L!Actors : b # a => call'[b] = call[b]
          /\ UNCHANGED <<stop, exited, stage>>
      BY <2>4, CallEnds DEF L!UnlistenEnd
    <3>2. QueuesSame \/ (QueueSent(Zero, c) /\ c \in Cmds /\ c.cmd # "STOP")
      BY <2>4, Calling, CmdNames, SendForm DEF L!UnlistenEnd, QueuesSame
    <3> HIDE DEF c
    <3>3. \A v \in Watchers : \A i \in DOMAIN queue'[v] : queue'[v][i].cmd = "STOP" =>
            i \in DOMAIN queue[v] /\ queue[v][i].cmd = "STOP"
      BY <1>0, <3>2, SentMembers, LisSetting DEF QueuesSame
    <3> QED BY <1>0, <3>1, <3>3 DEF Stopping, L!Actors
  <2> QED BY <1>2, <2>1, <2>2, <2>3, <2>4 DEF L!Unlisten
<1>3. ASSUME NEW w \in Watchers, L!Loop(w) PROVE Stopping'
  <2>1. CASE L!Poll(w)
    BY <1>0, <2>1 DEF Stopping, L!TypeOK, L!Poll, L!InLoop
  <2>2. ASSUME NEW l \in Listeners, L!Dispatch(w, l) PROVE Stopping'
    BY <1>0, <2>2 DEF Stopping, L!TypeOK, L!Dispatch, L!InLoop
  <2>3. ASSUME NEW l \in Listeners, L!BackoffOver(w, l) PROVE Stopping'
    BY <1>0, <2>3 DEF Stopping, L!TypeOK, L!BackoffOver, L!InLoop
  <2>4. ASSUME NEW l \in Listeners, L!Release(w, l) PROVE Stopping'
    BY <1>0, <2>4 DEF Stopping, L!TypeOK, L!Release, L!InLoop
  <2> QED BY <1>3, <2>1, <2>2, <2>3, <2>4 DEF L!Loop
<1>4. ASSUME NEW w \in Watchers, L!Accept(w) PROVE Stopping'
  <2>1. CASE L!AcceptOne(w)
    BY <1>0, <2>1 DEF Stopping, L!TypeOK, L!AcceptOne, L!Accepting, L!AcceptTo
  <2>2. CASE L!AcceptOwn(w)
    BY <1>0, <2>2 DEF Stopping, L!TypeOK, L!AcceptOwn, L!Accepting, L!AcceptTo
  <2>3. CASE L!AcceptBack(w)
    BY <1>0, <2>3 DEF Stopping, L!TypeOK, L!AcceptBack, L!Accepting, L!AcceptTo
  <2>4. CASE L!AcceptEnd(w)
    BY <1>0, <2>4 DEF Stopping, L!TypeOK, L!AcceptEnd, L!Accepting
  <2>5. CASE L!AcceptPause(w)
    BY <1>0, <2>5 DEF Stopping, L!TypeOK, L!AcceptPause, L!Accepting
  <2>6. CASE L!AcceptLost(w)
    BY <1>0, <2>6 DEF Stopping, L!TypeOK, L!AcceptLost, L!Accepting
  <2>7. ASSUME NEW to \in Watchers, L!AcceptGive(w, to) PROVE Stopping'
    <3> DEFINE c == L!Cmd("ADDACP", accept[w].lsn)
    <3>1. accept[w].lsn \in Listeners BY <2>7, AcceptFrom, AcceptingOn DEF L!Phases
    <3>2. QueueSent(to, c) /\ c \in Cmds /\ c.cmd # "STOP"
      BY <2>7, <3>1, CmdNames, SendForm DEF L!AcceptGive
    <3> HIDE DEF c
    <3>3. \A v \in Watchers : \A i \in DOMAIN queue'[v] : queue'[v][i].cmd = "STOP" =>
            i \in DOMAIN queue[v] /\ queue[v][i].cmd = "STOP"
      BY <1>0, <3>2, SentMembers
    <3> QED BY <1>0, <2>7, <3>3 DEF Stopping, L!AcceptGive
  <2> QED BY <1>4, <2>1, <2>2, <2>3, <2>4, <2>5, <2>6, <2>7 DEF L!Accept
<1>5. ASSUME NEW w \in Watchers, L!Commanded(w) PROVE Stopping'
  <2>1. CASE L!CmdLsn(w)
    <3>1. QueueTaken(w) BY <2>1, TakeForm DEF L!CmdLsn
    <3>2. \A v \in Watchers : \A i \in DOMAIN queue'[v] :
            \E j \in DOMAIN queue[v] : queue[v][j] = queue'[v][i]
      BY <1>0, <3>1, TakenMembers
    <3> QED BY <1>0, <2>1, <3>2 DEF Stopping, L!CmdLsn
  <2>2. CASE L!CmdUnlsn(w)
    <3>1. QueueTaken(w) BY <2>2, TakeForm DEF L!CmdUnlsn
    <3>2. \A v \in Watchers : \A i \in DOMAIN queue'[v] :
            \E j \in DOMAIN queue[v] : queue[v][j] = queue'[v][i]
      BY <1>0, <3>1, TakenMembers
    <3> QED BY <1>0, <2>2, <3>2 DEF Stopping, L!CmdUnlsn
  <2>3. CASE L!CmdLsnUnref(w)
    <3>1. QueueTaken(w) BY <2>3, TakeForm DEF L!CmdLsnUnref
    <3>2. \A v \in Watchers : \A i \in DOMAIN queue'[v] :
            \E j \in DOMAIN queue[v] : queue[v][j] = queue'[v][i]
      BY <1>0, <3>1, TakenMembers
    <3> QED BY <1>0, <2>3, <3>2 DEF Stopping, L!CmdLsnUnref
  <2>4. CASE L!CmdAddAcp(w)
    <3>1. QueueTaken(w) BY <2>4, TakeForm DEF L!CmdAddAcp
    <3>2. \A v \in Watchers : \A i \in DOMAIN queue'[v] :
            \E j \in DOMAIN queue[v] : queue[v][j] = queue'[v][i]
      BY <1>0, <3>1, TakenMembers
    <3> QED BY <1>0, <2>4, <3>2 DEF Stopping, L!CmdAddAcp
  <2>5. CASE L!AddedEnd(w)
    BY <1>0, <2>5 DEF Stopping, L!TypeOK, L!AddedEnd, L!Accepting
  <2>6. CASE L!CmdStop(w)
    <3>1. QueueTaken(w) /\ Head(queue[w]).cmd = "STOP" BY <2>6, TakeForm DEF L!CmdStop
    <3>2. \A v \in Watchers : \A i \in DOMAIN queue'[v] :
            \E j \in DOMAIN queue[v] : queue[v][j] = queue'[v][i]
      BY <1>0, <3>1, TakenMembers
    <3>3. \E j \in DOMAIN queue[w] : queue[w][j].cmd = "STOP"
      BY <3>1, Heads DEF QueueTaken
    <3>4. stage # "no" BY <1>0, <3>3 DEF Stopping
    <3> QED BY <1>0, <2>6, <3>4 DEF Stopping, L!CmdStop
  <2> QED BY <1>5, <2>1, <2>2, <2>3, <2>4, <2>5, <2>6 DEF L!Commanded
<1>6. CASE L!Free
  <2>1. CASE L!FreeStart
    BY <1>0, <2>1 DEF Stopping, L!TypeOK, L!FreeStart
  <2>2. CASE L!FreeAll
    BY <1>0, <2>2 DEF Stopping, L!TypeOK, L!FreeAll
  <2>3. ASSUME NEW w \in Watchers, L!Exit(w) PROVE Stopping'
    BY <1>0, <2>3 DEF Stopping, L!TypeOK, L!Exit, L!InLoop
  <2>4. ASSUME NEW w \in Watchers, L!Drain(w) PROVE Stopping'
    <3>1. QueueTaken(w) BY <2>4 DEF L!Drain, QueueTaken
    <3>2. \A v \in Watchers : \A i \in DOMAIN queue'[v] :
            \E j \in DOMAIN queue[v] : queue[v][j] = queue'[v][i]
      BY <1>0, <3>1, TakenMembers
    <3> QED BY <1>0, <2>4, <3>2 DEF Stopping, L!Drain
  <2>5. ASSUME NEW w \in Watchers, L!Flush(w) PROVE Stopping'
    BY <1>0, <2>5 DEF Stopping, L!TypeOK, L!Flush
  <2> QED BY <1>6, <2>1, <2>2, <2>3, <2>4, <2>5 DEF L!Free
<1>7. CASE UNCHANGED L!vars BY <1>0, <1>7 DEF Stopping, L!TypeOK, L!vars
<1> QED BY <1>1, <1>2, <1>3, <1>4, <1>5, <1>6, <1>7 DEF L!Next

\* Nothing is sent to a queue that ev_free has emptied.
LEMMA EmptiedStep ==
  ASSUME LisInv, [L!Next]_(L!vars)
  PROVE  Emptied'
<1> USE DEF L!lsnsock, L!grace, L!ending
<1>0. L!TypeOK /\ Emptied BY DEF LisInv
<1>1. ASSUME NEW a \in L!Actors, L!Listen(a) PROVE Emptied'
  <2>1. ASSUME NEW l \in Listeners, NEW ws \in (SUBSET Watchers) \ {{}},
               L!ListenStart(a, l, ws)
        PROVE Emptied'
    BY <1>0, <2>1 DEF Emptied, L!TypeOK, L!ListenStart, L!MayCall
  <2>2. ASSUME NEW w \in Watchers, L!ListenSend(a, w) PROVE Emptied'
    <3>1. a \notin exited /\ call[a] # L!NoCall BY <2>2, CallSends
    <3>2. stage = "no" \/ a \in Watchers BY <3>1 DEF LisInv, Stopping, L!Actors
    <3>3. exited # Watchers BY <3>1, <3>2, LisSetting DEF LisInv, Stopping
    <3> QED BY <1>0, <2>2, <3>3 DEF Emptied, L!ListenSend
  <2>3. CASE L!ListenEnd(a)
    BY <1>0, <2>3 DEF Emptied, L!TypeOK, L!ListenEnd
  <2> QED BY <1>1, <2>1, <2>2, <2>3 DEF L!Listen
<1>2. ASSUME NEW a \in L!Actors, L!Unlisten(a) PROVE Emptied'
  <2>1. ASSUME NEW l \in Listeners, L!UnlistenTake(a, l) PROVE Emptied'
    BY <1>0, <2>1 DEF Emptied, L!TypeOK, L!UnlistenTake, L!MayCall
  <2>2. ASSUME NEW w \in Watchers, L!UnlistenSend(a, w) PROVE Emptied'
    <3>1. a \notin exited /\ call[a] # L!NoCall BY <2>2, CallSends
    <3>2. stage = "no" \/ a \in Watchers BY <3>1 DEF LisInv, Stopping, L!Actors
    <3>3. exited # Watchers BY <3>1, <3>2, LisSetting DEF LisInv, Stopping
    <3> QED BY <1>0, <2>2, <3>3 DEF Emptied, L!UnlistenSend
  <2>3. CASE L!UnlistenMark(a)
    BY <1>0, <2>3 DEF Emptied, L!TypeOK, L!UnlistenMark
  <2>4. CASE L!UnlistenEnd(a)
    <3>1. a \notin exited /\ call[a] # L!NoCall BY <2>4, CallEnds
    <3>2. stage = "no" \/ a \in Watchers BY <3>1 DEF LisInv, Stopping, L!Actors
    <3>3. exited # Watchers BY <3>1, <3>2, LisSetting DEF LisInv, Stopping
    <3> QED BY <1>0, <2>4, <3>3 DEF Emptied, L!UnlistenEnd
  <2> QED BY <1>2, <2>1, <2>2, <2>3, <2>4 DEF L!Unlisten
<1>3. ASSUME NEW w \in Watchers, L!Loop(w) PROVE Emptied'
  <2>1. CASE L!Poll(w)
    BY <1>0, <2>1 DEF Emptied, L!TypeOK, L!Poll, L!InLoop
  <2>2. ASSUME NEW l \in Listeners, L!Dispatch(w, l) PROVE Emptied'
    BY <1>0, <2>2 DEF Emptied, L!TypeOK, L!Dispatch, L!InLoop
  <2>3. ASSUME NEW l \in Listeners, L!BackoffOver(w, l) PROVE Emptied'
    BY <1>0, <2>3 DEF Emptied, L!TypeOK, L!BackoffOver, L!InLoop
  <2>4. ASSUME NEW l \in Listeners, L!Release(w, l) PROVE Emptied'
    BY <1>0, <2>4 DEF Emptied, L!TypeOK, L!Release, L!InLoop
  <2> QED BY <1>3, <2>1, <2>2, <2>3, <2>4 DEF L!Loop
<1>4. ASSUME NEW w \in Watchers, L!Accept(w) PROVE Emptied'
  <2>1. CASE L!AcceptOne(w)
    BY <1>0, <2>1 DEF Emptied, L!TypeOK, L!AcceptOne, L!Accepting, L!AcceptTo
  <2>2. CASE L!AcceptOwn(w)
    BY <1>0, <2>2 DEF Emptied, L!TypeOK, L!AcceptOwn, L!Accepting, L!AcceptTo
  <2>3. CASE L!AcceptBack(w)
    BY <1>0, <2>3 DEF Emptied, L!TypeOK, L!AcceptBack, L!Accepting, L!AcceptTo
  <2>4. CASE L!AcceptEnd(w)
    BY <1>0, <2>4 DEF Emptied, L!TypeOK, L!AcceptEnd, L!Accepting
  <2>5. CASE L!AcceptPause(w)
    BY <1>0, <2>5 DEF Emptied, L!TypeOK, L!AcceptPause, L!Accepting
  <2>6. CASE L!AcceptLost(w)
    BY <1>0, <2>6 DEF Emptied, L!TypeOK, L!AcceptLost, L!Accepting
  <2>7. ASSUME NEW to \in Watchers, L!AcceptGive(w, to) PROVE Emptied'
    <3>1. w \notin exited BY <2>7, AcceptFrom, AcceptingOn DEF L!Phases
    <3> QED BY <1>0, <2>7, <3>1 DEF Emptied, L!AcceptGive
  <2> QED BY <1>4, <2>1, <2>2, <2>3, <2>4, <2>5, <2>6, <2>7 DEF L!Accept
<1>5. ASSUME NEW w \in Watchers, L!Commanded(w) PROVE Emptied'
  <2>1. CASE L!CmdLsn(w)
    <3>1. w \notin exited BY <2>1, TakeForm DEF L!CmdLsn
    <3> QED BY <1>0, <2>1, <3>1 DEF Emptied, L!CmdLsn
  <2>2. CASE L!CmdUnlsn(w)
    <3>1. w \notin exited BY <2>2, TakeForm DEF L!CmdUnlsn
    <3> QED BY <1>0, <2>2, <3>1 DEF Emptied, L!CmdUnlsn
  <2>3. CASE L!CmdLsnUnref(w)
    <3>1. w \notin exited BY <2>3, TakeForm DEF L!CmdLsnUnref
    <3> QED BY <1>0, <2>3, <3>1 DEF Emptied, L!CmdLsnUnref
  <2>4. CASE L!CmdAddAcp(w)
    <3>1. w \notin exited BY <2>4, TakeForm DEF L!CmdAddAcp
    <3> QED BY <1>0, <2>4, <3>1 DEF Emptied, L!CmdAddAcp
  <2>5. CASE L!AddedEnd(w)
    BY <1>0, <2>5 DEF Emptied, L!TypeOK, L!AddedEnd, L!Accepting
  <2>6. CASE L!CmdStop(w)
    <3>1. w \notin exited BY <2>6, TakeForm DEF L!CmdStop
    <3> QED BY <1>0, <2>6, <3>1 DEF Emptied, L!CmdStop
  <2> QED BY <1>5, <2>1, <2>2, <2>3, <2>4, <2>5, <2>6 DEF L!Commanded
<1>6. CASE L!Free
  <2>1. CASE L!FreeStart
    <3>1. exited # Watchers BY <2>1, LisSetting DEF L!FreeStart, LisInv, Stopping
    <3> QED BY <1>0, <2>1, <3>1 DEF Emptied, L!FreeStart
  <2>2. CASE L!FreeAll
    BY <1>0, <2>2 DEF Emptied, L!TypeOK, L!FreeAll
  <2>3. ASSUME NEW w \in Watchers, L!Exit(w) PROVE Emptied'
    BY <1>0, <2>3 DEF Emptied, L!TypeOK, L!Exit, L!InLoop
  <2>4. ASSUME NEW w \in Watchers, L!Drain(w) PROVE Emptied'
    <3>1. \A v \in Watchers : v # w => queue'[v] = queue[v] BY <1>0, <2>4 DEF L!Drain, L!TypeOK
    <3>2. queue[w] # <<>> /\ UNCHANGED <<flushed, exited>> BY <2>4 DEF L!Drain, L!ending
    <3> QED BY <1>0, <3>1, <3>2 DEF Emptied, L!TypeOK
  <2>5. ASSUME NEW w \in Watchers, L!Flush(w) PROVE Emptied'
    BY <1>0, <2>5 DEF Emptied, L!TypeOK, L!Flush
  <2> QED BY <1>6, <2>1, <2>2, <2>3, <2>4, <2>5 DEF L!Free
<1>7. CASE UNCHANGED L!vars BY <1>0, <1>7 DEF Emptied, L!TypeOK, L!vars
<1> QED BY <1>1, <1>2, <1>3, <1>4, <1>5, <1>6, <1>7 DEF L!Next

\* What remove says stays true.
LEMMA MarkedStep ==
  ASSUME LisInv, [L!Next]_(L!vars)
  PROVE  Marked'
<1> USE DEF L!lsnsock, L!grace, L!ending
<1>0. L!TypeOK /\ Marked BY DEF LisInv
<1>1. ASSUME NEW a \in L!Actors, L!Listen(a) PROVE Marked'
  <2>1. ASSUME NEW l \in Listeners, NEW ws \in (SUBSET Watchers) \ {{}},
               L!ListenStart(a, l, ws)
        PROVE Marked'
    <3>1. call'[a].lsn = l /\ \A b \in L!Actors : b # a => call'[b] = call[b]
      BY <2>1, CallStarts
    <3>2. call'[a].op = "listen" /\ mem[l] = "new" /\ UNCHANGED <<remove, arrlsn>>
      BY <1>0, <2>1 DEF L!ListenStart, L!TypeOK
    <3>3. /\ mem'[l] = "live" /\ on'[l] = ws
          /\ \A k \in Listeners : k # l => mem'[k] = mem[k] /\ on'[k] = on[k]
      BY <1>0, <2>1 DEF L!ListenStart, L!TypeOK
    <3>4. ~Leads(l) /\ ~remove[l] BY <1>0, <3>2 DEF LisInv, Reached, Marked
    <3>5. \A b \in L!Actors : call[b].lsn # l BY <3>4 DEF Leads
    <3>6. \A k \in Listeners \ {l}, b \in L!Actors : call'[b].lsn = k => b # a BY <3>1
    <3>7. call[a].lsn \notin Listeners BY <2>1, LisSetting, CallStarts DEF L!NoCall
    <3>8. \A k \in Listeners : k # l /\ (\E b \in L!Actors : call[b].lsn = k) =>
            \E b \in L!Actors : call'[b].lsn = k
      BY <3>1, <3>7
    <3>9. on'[l] # {} BY <3>3
    <3>10. ASSUME NEW k \in Listeners, NEW b \in L!Actors, call'[b].lsn = k
           PROVE  remove'[k] <=> call'[b].op = "unlisten"
      BY <1>0, <3>1, <3>2, <3>4, <3>5, <3>10 DEF Marked
    <3>11. ASSUME NEW k \in Listeners, k # l
           PROVE  /\ remove'[k] => mem'[k] # "new" /\ k \notin arrlsn'
                  /\ mem'[k] = "live" /\ ~remove'[k] =>
                       /\ on'[k] # {}
                       /\ k \in arrlsn' \/ \E b \in L!Actors : call'[b].lsn = k
      BY <1>0, <3>2, <3>3, <3>8, <3>11 DEF Marked
    <3>12. ~remove'[l] /\ \E b \in L!Actors : call'[b].lsn = l BY <3>1, <3>2, <3>4
    <3> QED BY <3>9, <3>10, <3>11, <3>12 DEF Marked
  <2>2. ASSUME NEW w \in Watchers, L!ListenSend(a, w) PROVE Marked'
    <3>0. CallNow(a, call[a].op, call[a].todo \ {w}) BY <2>2, CallSends
    <3>1. \A b \in L!Actors : call'[b].lsn = call[b].lsn /\ call'[b].op = call[b].op
      BY <3>0 DEF CallNow, Callee
    <3>2. UNCHANGED <<remove, mem, arrlsn, on>> BY <2>2 DEF L!ListenSend
    <3> QED BY <1>0, <3>1, <3>2 DEF Marked
  <2>3. CASE L!ListenEnd(a)
    <3> DEFINE l == Callee(a)
    <3>1. /\ call'[a] = L!NoCall /\ l \in Listeners
          /\ \A b \in L!Actors : b # a => call'[b] = call[b]
      BY <2>3, CallEnds
    <3>2. call[a].op = "listen" /\ arrlsn' = arrlsn \cup {l} /\ UNCHANGED <<remove, mem, on>>
      BY <2>3 DEF L!ListenEnd, Callee
    <3>3. ~remove[l] BY <1>0, <3>1, <3>2 DEF Marked, Callee
    <3>4. call'[a].lsn \notin Listeners BY <3>1, LisSetting DEF L!NoCall
    <3>5. \A k \in Listeners, b \in L!Actors : call'[b].lsn = k => b # a BY <3>4
    <3>6. l = call[a].lsn BY DEF Callee
    <3> HIDE DEF l
    <3>7. \A k \in Listeners : k # l => (k \in arrlsn' <=> k \in arrlsn) BY <3>2
    <3>8. \A k \in Listeners : k # l /\ (\E b \in L!Actors : call[b].lsn = k) =>
            \E b \in L!Actors : call'[b].lsn = k
      BY <3>1, <3>6
    <3> QED BY <1>0, <3>1, <3>2, <3>3, <3>5, <3>7, <3>8 DEF Marked
  <2> QED BY <1>1, <2>1, <2>2, <2>3 DEF L!Listen
<1>2. ASSUME NEW a \in L!Actors, L!Unlisten(a) PROVE Marked'
  <2>1. ASSUME NEW l \in Listeners, L!UnlistenTake(a, l) PROVE Marked'
    <3>1. call'[a].lsn = l /\ \A b \in L!Actors : b # a => call'[b] = call[b]
      BY <2>1, CallStarts
    <3>2. /\ call'[a].op = "hold" /\ l \in arrlsn /\ arrlsn' = arrlsn \ {l}
          /\ UNCHANGED <<remove, mem, on>>
      BY <1>0, <2>1 DEF L!UnlistenTake, L!TypeOK
    <3>3. ~remove[l] BY <1>0, <3>2 DEF Marked
    <3>4. call[a].lsn \notin Listeners BY <2>1, LisSetting, CallStarts DEF L!NoCall
    <3>5. \A k \in Listeners : k # l /\ (\E b \in L!Actors : call[b].lsn = k) =>
            \E b \in L!Actors : call'[b].lsn = k
      BY <3>1, <3>4
    <3> QED BY <1>0, <3>1, <3>2, <3>3, <3>5 DEF Marked
  <2>2. ASSUME NEW w \in Watchers, L!UnlistenSend(a, w) PROVE Marked'
    <3>0. CallNow(a, call[a].op, call[a].todo \ {w}) BY <2>2, CallSends
    <3>1. \A b \in L!Actors : call'[b].lsn = call[b].lsn /\ call'[b].op = call[b].op
      BY <3>0 DEF CallNow, Callee
    <3>2. UNCHANGED <<remove, mem, arrlsn, on>> BY <2>2 DEF L!UnlistenSend
    <3> QED BY <1>0, <3>1, <3>2 DEF Marked
  <2>3. CASE L!UnlistenMark(a)
    <3> DEFINE l == Callee(a)
    <3>1. /\ call'[a].lsn = l /\ call'[a].op = "unlisten"
          /\ \A b \in L!Actors : b # a => call'[b] = call[b]
      <4>1. CallNow(a, "unlisten", on[Callee(a)]) BY <2>3, CallMarks
      <4> QED BY <4>1 DEF CallNow
    <3>2. l \in Listeners /\ mem[l] = "live" BY <2>3, CallMarks, Calling DEF InCall, Callee
    <3>3. UNCHANGED <<mem, on, arrlsn>> /\ remove' = [remove EXCEPT ![l] = TRUE]
      BY <2>3 DEF L!UnlistenMark, Callee
    <3>4. l \notin arrlsn /\ \A b \in L!Actors : call[b].lsn = l => b = a
      BY <3>2 DEF LisInv, OneCaller, Callee
    <3>5. remove'[l] = TRUE /\ \A k \in Listeners : k # l => remove'[k] = remove[k]
      BY <1>0, <3>2, <3>3 DEF L!TypeOK
    <3>6. \A b \in L!Actors : call'[b].lsn = call[b].lsn BY <3>1 DEF Callee
    <3> HIDE DEF l
    <3> QED BY <1>0, <3>1, <3>2, <3>3, <3>4, <3>5, <3>6 DEF Marked
  <2>4. CASE L!UnlistenEnd(a)
    <3> DEFINE l == Callee(a)
    <3>1. /\ call'[a] = L!NoCall /\ l \in Listeners
          /\ \A b \in L!Actors : b # a => call'[b] = call[b]
      BY <2>4, CallEnds
    <3>2. call[a].op = "unlisten" /\ UNCHANGED <<remove, mem, on, arrlsn>>
      BY <2>4 DEF L!UnlistenEnd
    <3>3. remove[l] BY <1>0, <3>1, <3>2 DEF Marked, Callee
    <3>4. call'[a].lsn \notin Listeners BY <3>1, LisSetting DEF L!NoCall
    <3>5. \A k \in Listeners, b \in L!Actors : call'[b].lsn = k => b # a BY <3>4
    <3>6. l = call[a].lsn BY DEF Callee
    <3> HIDE DEF l
    <3>8. \A k \in Listeners : k # l /\ (\E b \in L!Actors : call[b].lsn = k) =>
            \E b \in L!Actors : call'[b].lsn = k
      BY <3>1, <3>6
    <3> QED BY <1>0, <3>1, <3>2, <3>3, <3>5, <3>8 DEF Marked
  <2> QED BY <1>2, <2>1, <2>2, <2>3, <2>4 DEF L!Unlisten
<1>3. ASSUME NEW w \in Watchers, L!Loop(w) PROVE Marked'
  <2>1. CASE L!Poll(w)
    BY <1>0, <2>1 DEF Marked, L!TypeOK, L!Poll, L!InLoop
  <2>2. ASSUME NEW l \in Listeners, L!Dispatch(w, l) PROVE Marked'
    BY <1>0, <2>2 DEF Marked, L!TypeOK, L!Dispatch, L!InLoop
  <2>3. ASSUME NEW l \in Listeners, L!BackoffOver(w, l) PROVE Marked'
    BY <1>0, <2>3 DEF Marked, L!TypeOK, L!BackoffOver, L!InLoop
  <2>4. ASSUME NEW l \in Listeners, L!Release(w, l) PROVE Marked'
    BY <1>0, <2>4 DEF Marked, L!TypeOK, L!Release, L!InLoop
  <2> QED BY <1>3, <2>1, <2>2, <2>3, <2>4 DEF L!Loop
<1>4. ASSUME NEW w \in Watchers, L!Accept(w) PROVE Marked'
  <2>1. CASE L!AcceptOne(w)
    BY <1>0, <2>1 DEF Marked, L!TypeOK, L!AcceptOne, L!Accepting, L!AcceptTo
  <2>2. CASE L!AcceptOwn(w)
    BY <1>0, <2>2 DEF Marked, L!TypeOK, L!AcceptOwn, L!Accepting, L!AcceptTo
  <2>3. CASE L!AcceptBack(w)
    BY <1>0, <2>3 DEF Marked, L!TypeOK, L!AcceptBack, L!Accepting, L!AcceptTo
  <2>4. CASE L!AcceptEnd(w)
    BY <1>0, <2>4 DEF Marked, L!TypeOK, L!AcceptEnd, L!Accepting
  <2>5. CASE L!AcceptPause(w)
    BY <1>0, <2>5 DEF Marked, L!TypeOK, L!AcceptPause, L!Accepting
  <2>6. CASE L!AcceptLost(w)
    BY <1>0, <2>6 DEF Marked, L!TypeOK, L!AcceptLost, L!Accepting
  <2>7. ASSUME NEW to \in Watchers, L!AcceptGive(w, to) PROVE Marked'
    BY <1>0, <2>7 DEF Marked, L!TypeOK, L!AcceptGive, L!Accepting, L!AcceptTo
  <2> QED BY <1>4, <2>1, <2>2, <2>3, <2>4, <2>5, <2>6, <2>7 DEF L!Accept
<1>5. ASSUME NEW w \in Watchers, L!Commanded(w) PROVE Marked'
  <2>1. CASE L!CmdLsn(w)
    BY <1>0, <2>1 DEF Marked, L!TypeOK, L!CmdLsn
  <2>2. CASE L!CmdUnlsn(w)
    BY <1>0, <2>2 DEF Marked, L!TypeOK, L!CmdUnlsn
  <2>3. CASE L!CmdLsnUnref(w)
    BY <1>0, <2>3 DEF Marked, L!TypeOK, L!CmdLsnUnref
  <2>4. CASE L!CmdAddAcp(w)
    BY <1>0, <2>4 DEF Marked, L!TypeOK, L!CmdAddAcp
  <2>5. CASE L!AddedEnd(w)
    BY <1>0, <2>5 DEF Marked, L!TypeOK, L!AddedEnd, L!Accepting
  <2>6. CASE L!CmdStop(w)
    BY <1>0, <2>6 DEF Marked, L!TypeOK, L!CmdStop
  <2> QED BY <1>5, <2>1, <2>2, <2>3, <2>4, <2>5, <2>6 DEF L!Commanded
<1>6. CASE L!Free
  <2>1. CASE L!FreeStart
    BY <1>0, <2>1 DEF Marked, L!TypeOK, L!FreeStart
  <2>2. CASE L!FreeAll
    BY <1>0, <2>2 DEF Marked, L!TypeOK, L!FreeAll
  <2>3. ASSUME NEW w \in Watchers, L!Exit(w) PROVE Marked'
    BY <1>0, <2>3 DEF Marked, L!TypeOK, L!Exit, L!InLoop
  <2>4. ASSUME NEW w \in Watchers, L!Drain(w) PROVE Marked'
    <3>1. /\ \A k \in Listeners : mem'[k] = mem[k] \/ mem'[k] = "freed"
          /\ UNCHANGED <<remove, arrlsn, call, on>>
      BY <1>0, <2>4 DEF L!Drain, L!TypeOK
    <3> QED BY <1>0, <3>1 DEF Marked
  <2>5. ASSUME NEW w \in Watchers, L!Flush(w) PROVE Marked'
    BY <1>0, <2>5 DEF Marked, L!TypeOK, L!Flush
  <2> QED BY <1>6, <2>1, <2>2, <2>3, <2>4, <2>5 DEF L!Free
<1>7. CASE UNCHANGED L!vars BY <1>0, <1>7 DEF Marked, L!TypeOK, L!vars
<1> QED BY <1>1, <1>2, <1>3, <1>4, <1>5, <1>6, <1>7 DEF L!Next

\* A reference goes that was not yet the end of the listener.
LEMMA UnrefQuarantined ==
  ASSUME LisInv, NEW w \in Watchers, NEW l \in Listeners, mem[l] = "live", Used(l), NEW left,
         L!Unref(w, l, left), mem' = mem
  PROVE  Quarantined'
<1>1. L!TypeOK /\ Quarantined BY DEF LisInv
<1>2. ref[l] \in Nat /\ ref[l] # 0 /\ \A v \in Watchers : l \notin qtn[v] BY InUse
<1>3. ref'[l] = ref[l] - 1 /\ \A k \in Listeners : k # l => ref'[k] = ref[k]
  BY <1>1 DEF L!Unref, L!TypeOK
<1>4. CASE ref[l] = 1
  <2>1. qtn'[w] = qtn[w] \cup {l} /\ \A v \in Watchers : v # w => qtn'[v] = qtn[v]
    BY <1>1, <1>4 DEF L!Unref, L!TypeOK
  <2>2. ref'[l] = 0 BY <1>3, <1>4
  <2> QED BY <1>1, <1>2, <1>3, <2>1, <2>2 DEF Quarantined
<1>5. CASE ref[l] # 1
  <2>1. qtn' = qtn BY <1>5 DEF L!Unref
  <2>2. ref'[l] # 0 BY <1>2, <1>3, <1>5
  <2> QED BY <1>1, <1>2, <1>3, <2>1, <2>2 DEF Quarantined
<1> QED BY <1>4, <1>5

\* A listener is in quarantine as long as it lives without a reference.
LEMMA QuarantinedStep ==
  ASSUME LisInv, [L!Next]_(L!vars)
  PROVE  Quarantined'
<1> USE DEF L!lsnsock, L!grace, L!ending
<1>0. L!TypeOK /\ Quarantined BY DEF LisInv
<1>1. ASSUME NEW a \in L!Actors, L!Listen(a) PROVE Quarantined'
  <2>1. ASSUME NEW l \in Listeners, NEW ws \in (SUBSET Watchers) \ {{}},
               L!ListenStart(a, l, ws)
        PROVE Quarantined'
    <3>1. IsFiniteSet(ws) BY LisSetting, FS_Subset
    <3>2. L!Cardinality(ws) # 0 BY <3>1, LisNames, FS_EmptySet
    <3>3. ~Leads(l) BY <2>1 DEF LisInv, Reached, L!ListenStart
    <3>4. \A v \in Watchers : l \notin qtn[v] BY <3>3 DEF Leads, L!ReadBy
    <3>5. /\ ref'[l] = L!Cardinality(ws) /\ qtn' = qtn
          /\ \A k \in Listeners : k # l => mem'[k] = mem[k] /\ ref'[k] = ref[k]
      BY <1>0, <2>1 DEF L!ListenStart, L!TypeOK
    <3> QED BY <1>0, <3>2, <3>4, <3>5 DEF Quarantined
  <2>2. ASSUME NEW w \in Watchers, L!ListenSend(a, w) PROVE Quarantined'
    BY <1>0, <2>2 DEF Quarantined, L!TypeOK, L!ListenSend
  <2>3. CASE L!ListenEnd(a)
    BY <1>0, <2>3 DEF Quarantined, L!TypeOK, L!ListenEnd
  <2> QED BY <1>1, <2>1, <2>2, <2>3 DEF L!Listen
<1>2. ASSUME NEW a \in L!Actors, L!Unlisten(a) PROVE Quarantined'
  <2>1. ASSUME NEW l \in Listeners, L!UnlistenTake(a, l) PROVE Quarantined'
    BY <1>0, <2>1 DEF Quarantined, L!TypeOK, L!UnlistenTake, L!MayCall
  <2>2. ASSUME NEW w \in Watchers, L!UnlistenSend(a, w) PROVE Quarantined'
    <3>1. InCall(a) BY <2>2 DEF L!UnlistenSend, InCall
    <3>2. Callee(a) \in Listeners /\ mem[Callee(a)] = "live" /\ Used(Callee(a))
      BY <3>1, Calling DEF InCall, Callee
    <3>3. CASE a = w
      <4>1. L!Unref(w, Callee(a), ahead) /\ mem' = mem
        BY <2>2, <3>3 DEF L!UnlistenSend, L!RemoveLsn, Callee
      <4> QED BY <3>2, <4>1, UnrefQuarantined
    <3>4. CASE a # w BY <1>0, <2>2, <3>4 DEF Quarantined, L!UnlistenSend
    <3> QED BY <3>3, <3>4
  <2>3. CASE L!UnlistenMark(a)
    <3>1. InCall(a) BY <2>3 DEF L!UnlistenMark, InCall
    <3>2. Callee(a) \in Listeners /\ mem[Callee(a)] = "live" /\ Used(Callee(a))
      BY <3>1, Calling DEF InCall, Callee
    <3>3. ref[Callee(a)] \in Nat /\ \A v \in Watchers : Callee(a) \notin qtn[v] BY <3>2, InUse
    <3>4. /\ ref'[Callee(a)] = ref[Callee(a)] + 1 /\ qtn' = qtn /\ mem' = mem
          /\ \A k \in Listeners : k # Callee(a) => ref'[k] = ref[k]
      BY <1>0, <2>3, <3>2 DEF L!UnlistenMark, L!TypeOK, Callee
    <3>5. ref'[Callee(a)] # 0 BY <3>3, <3>4
    <3> QED BY <1>0, <3>3, <3>4, <3>5 DEF Quarantined
  <2>4. CASE L!UnlistenEnd(a)
    <3>1. InCall(a) BY <2>4 DEF L!UnlistenEnd, InCall
    <3>2. Callee(a) \in Listeners /\ mem[Callee(a)] = "live" /\ Used(Callee(a))
      BY <3>1, Calling DEF InCall, Callee
    <3>3. CASE a = Zero
      <4>1. L!Unref(Zero, Callee(a), ahead) /\ mem' = mem
        BY <2>4, <3>3 DEF L!UnlistenEnd, Callee
      <4> QED BY <3>2, <4>1, UnrefQuarantined, LisSetting
    <3>4. CASE a # Zero BY <1>0, <2>4, <3>4 DEF Quarantined, L!UnlistenEnd
    <3> QED BY <3>3, <3>4
  <2> QED BY <1>2, <2>1, <2>2, <2>3, <2>4 DEF L!Unlisten
<1>3. ASSUME NEW w \in Watchers, L!Loop(w) PROVE Quarantined'
  <2>1. CASE L!Poll(w)
    BY <1>0, <2>1 DEF Quarantined, L!TypeOK, L!Poll, L!InLoop
  <2>2. ASSUME NEW l \in Listeners, L!Dispatch(w, l) PROVE Quarantined'
    BY <1>0, <2>2 DEF Quarantined, L!TypeOK, L!Dispatch, L!InLoop
  <2>3. ASSUME NEW l \in Listeners, L!BackoffOver(w, l) PROVE Quarantined'
    BY <1>0, <2>3 DEF Quarantined, L!TypeOK, L!BackoffOver, L!InLoop
  <2>4. ASSUME NEW l \in Listeners, L!Release(w, l) PROVE Quarantined'
    BY <1>0, <2>4 DEF Quarantined, L!TypeOK, L!Release, L!InLoop
  <2> QED BY <1>3, <2>1, <2>2, <2>3, <2>4 DEF L!Loop
<1>4. ASSUME NEW w \in Watchers, L!Accept(w) PROVE Quarantined'
  <2>1. CASE L!AcceptOne(w)
    BY <1>0, <2>1 DEF Quarantined, L!TypeOK, L!AcceptOne, L!Accepting, L!AcceptTo
  <2>2. CASE L!AcceptOwn(w)
    BY <1>0, <2>2 DEF Quarantined, L!TypeOK, L!AcceptOwn, L!Accepting, L!AcceptTo
  <2>3. CASE L!AcceptBack(w)
    BY <1>0, <2>3 DEF Quarantined, L!TypeOK, L!AcceptBack, L!Accepting, L!AcceptTo
  <2>4. CASE L!AcceptEnd(w)
    BY <1>0, <2>4 DEF Quarantined, L!TypeOK, L!AcceptEnd, L!Accepting
  <2>5. CASE L!AcceptPause(w)
    BY <1>0, <2>5 DEF Quarantined, L!TypeOK, L!AcceptPause, L!Accepting
  <2>6. CASE L!AcceptLost(w)
    BY <1>0, <2>6 DEF Quarantined, L!TypeOK, L!AcceptLost, L!Accepting
  <2>7. ASSUME NEW to \in Watchers, L!AcceptGive(w, to) PROVE Quarantined'
    <3>1. accept[w].at = "got" BY <2>7, AcceptFrom
    <3>2. accept[w].lsn \in Listeners /\ mem[accept[w].lsn] = "live" /\ Used(accept[w].lsn)
      BY <3>1, AcceptingOn DEF L!Phases, Used
    <3>3. ref[accept[w].lsn] \in Nat /\ \A v \in Watchers : accept[w].lsn \notin qtn[v]
      BY <3>2, InUse
    <3>4. /\ ref'[accept[w].lsn] = ref[accept[w].lsn] + 1 /\ qtn' = qtn /\ mem' = mem
          /\ \A k \in Listeners : k # accept[w].lsn => ref'[k] = ref[k]
      BY <1>0, <2>7, <3>2 DEF L!AcceptGive, L!TypeOK
    <3>5. ref'[accept[w].lsn] # 0 BY <3>3, <3>4
    <3> QED BY <1>0, <3>3, <3>4, <3>5 DEF Quarantined
  <2> QED BY <1>4, <2>1, <2>2, <2>3, <2>4, <2>5, <2>6, <2>7 DEF L!Accept
<1>5. ASSUME NEW w \in Watchers, L!Commanded(w) PROVE Quarantined'
  <2>1. CASE L!CmdLsn(w)
    BY <1>0, <2>1 DEF Quarantined, L!TypeOK, L!CmdLsn
  <2>2. CASE L!CmdUnlsn(w)
    <3> DEFINE c == Head(queue[w])
    <3>1. queue[w] # <<>> /\ c.cmd \in Counting BY <2>2, TakeForm
      DEF L!CmdUnlsn, QueueTaken, Counting
    <3>2. c.lsn \in Listeners /\ mem[c.lsn] = "live" /\ Used(c.lsn) BY <3>1, Heads
    <3>3. L!Unref(w, c.lsn, L!OneLess(w)) /\ mem' = mem BY <2>2 DEF L!CmdUnlsn, L!RemoveLsn
    <3> QED BY <3>2, <3>3, UnrefQuarantined
  <2>3. CASE L!CmdLsnUnref(w)
    <3> DEFINE c == Head(queue[w])
    <3>1. queue[w] # <<>> /\ c.cmd \in Counting BY <2>3, TakeForm
      DEF L!CmdLsnUnref, QueueTaken, Counting
    <3>2. c.lsn \in Listeners /\ mem[c.lsn] = "live" /\ Used(c.lsn) BY <3>1, Heads
    <3>3. L!Unref(w, c.lsn, L!OneLess(w)) /\ mem' = mem BY <2>3 DEF L!CmdLsnUnref, L!Unref
    <3> QED BY <3>2, <3>3, UnrefQuarantined
  <2>4. CASE L!CmdAddAcp(w)
    BY <1>0, <2>4 DEF Quarantined, L!TypeOK, L!CmdAddAcp
  <2>5. CASE L!AddedEnd(w)
    <3>1. accept[w].at = "added" BY <2>5, AcceptFrom
    <3>2. accept[w].lsn \in Listeners /\ mem[accept[w].lsn] = "live" /\ Used(accept[w].lsn)
      BY <3>1, AcceptingOn DEF L!Phases, Used
    <3>3. L!Unref(w, accept[w].lsn, ahead) /\ mem' = mem BY <2>5 DEF L!AddedEnd
    <3> QED BY <3>2, <3>3, UnrefQuarantined
  <2>6. CASE L!CmdStop(w)
    BY <1>0, <2>6 DEF Quarantined, L!TypeOK, L!CmdStop
  <2> QED BY <1>5, <2>1, <2>2, <2>3, <2>4, <2>5, <2>6 DEF L!Commanded
<1>6. CASE L!Free
  <2>1. CASE L!FreeStart
    BY <1>0, <2>1 DEF Quarantined, L!TypeOK, L!FreeStart
  <2>2. CASE L!FreeAll
    BY <1>0, <2>2 DEF Quarantined, L!TypeOK, L!FreeAll
  <2>3. ASSUME NEW w \in Watchers, L!Exit(w) PROVE Quarantined'
    BY <1>0, <2>3 DEF Quarantined, L!TypeOK, L!Exit, L!InLoop
  <2>4. ASSUME NEW w \in Watchers, L!Drain(w) PROVE Quarantined'
    <3> DEFINE l == Head(queue[w]).lsn
    <3>1. CASE Head(queue[w]).cmd \in {"ADDACP", "UNLSN", "LSN_UNREF"}
      <4>1. l \in Listeners /\ mem[l] = "live" /\ Used(l)
        BY <2>4, <3>1, Heads DEF L!Drain, Counting
      <4>2. ref[l] \in Nat /\ ref[l] # 0 /\ \A v \in Watchers : l \notin qtn[v] BY <4>1, InUse
      <4>0. qtn' = qtn BY <2>4 DEF L!Drain
      <4>3. /\ ref' = [ref EXCEPT ![l] = ref[l] - 1]
            /\ mem' = IF ref[l] = 1 THEN [mem EXCEPT ![l] = "freed"] ELSE mem
        BY <2>4, <3>1 DEF L!Drain
      <4> HIDE DEF l
      <4>5. ref'[l] = ref[l] - 1 /\ \A k \in Listeners : k # l => ref'[k] = ref[k]
        BY <1>0, <4>1, <4>3 DEF L!TypeOK
      <4>6. /\ ref[l] = 1 => mem'[l] = "freed"
            /\ \A k \in Listeners : k # l => mem'[k] = mem[k]
        BY <1>0, <4>1, <4>3 DEF L!TypeOK
      <4>4. ref[l] # 1 => ref'[l] # 0 BY <4>2, <4>5
      <4> QED BY <1>0, <4>0, <4>2, <4>4, <4>5, <4>6 DEF Quarantined
    <3>2. CASE Head(queue[w]).cmd \notin {"ADDACP", "UNLSN", "LSN_UNREF"}
      BY <1>0, <2>4, <3>2 DEF Quarantined, L!Drain
    <3> QED BY <3>1, <3>2
  <2>5. ASSUME NEW w \in Watchers, L!Flush(w) PROVE Quarantined'
    BY <1>0, <2>5 DEF Quarantined, L!TypeOK, L!Flush
  <2> QED BY <1>6, <2>1, <2>2, <2>3, <2>4, <2>5 DEF L!Free
<1>7. CASE UNCHANGED L!vars BY <1>0, <1>7 DEF Quarantined, L!TypeOK, L!vars
<1> QED BY <1>1, <1>2, <1>3, <1>4, <1>5, <1>6, <1>7 DEF L!Next

-----------------------------------------------------------------------------
(* The count is right *)

\* One sum, term by term.
LEMMA Balance ==
  ASSUME LisInv, L!TypeOK', NEW l \in Listeners, mem[l] = "live",
         NEW dq \in Int, NEW dd \in Int, NEW du \in Int, NEW ds \in Int,
         Cardinality(InQueues(l)') = Cardinality(InQueues(l)) + dq,
         Cardinality(Adding(l)') = Cardinality(Adding(l)) + dd,
         Cardinality(Unsent(l)') = Cardinality(Unsent(l)) + du,
         Asked(l)' = Asked(l) + ds,
         ref'[l] = ref[l] + dq + dd + du + ds
  PROVE  ref'[l] = Refs(l)'
<1>1. ref[l] = Refs(l) /\ L!TypeOK BY DEF LisInv, Counted
<1>2. /\ Cardinality(InQueues(l)) \in Nat /\ Cardinality(Adding(l)) \in Nat
      /\ Cardinality(Unsent(l)) \in Nat /\ Asked(l) \in Nat
  BY <1>1, Terms
<1>3. Refs(l)' = Cardinality(InQueues(l)') + Cardinality(Adding(l)') + Cardinality(Unsent(l)')
                 + Asked(l)'
  BY DEF Refs
<1>4. Refs(l) = Cardinality(InQueues(l)) + Cardinality(Adding(l)) + Cardinality(Unsent(l))
                + Asked(l)
  BY DEF Refs
<1> QED BY <1>1, <1>2, <1>3, <1>4

\* The terms a step leaves alone.
QueuesStill(l) == Cardinality(InQueues(l)') = Cardinality(InQueues(l))
AcceptsStill(l) == Adding(l)' = Adding(l)
CallsStill(l) == Unsent(l)' = Unsent(l) /\ Asked(l)' = Asked(l)
Still(l) == QueuesStill(l) /\ AcceptsStill(l) /\ CallsStill(l) /\ ref'[l] = ref[l]

\* A step that leaves alone the queues,
LEMMA SameQueues ==
  ASSUME QueuesSame, NEW l
  PROVE  QueuesStill(l)
BY DEF QueuesSame, QueuesStill, InQueues, Owes

\* the accepts,
LEMMA SameAccepts ==
  ASSUME NEW l,
         \A w \in Watchers :
           accept'[w] = accept[w] \/ (accept[w].at # "added" /\ accept'[w].at # "added")
  PROVE  AcceptsStill(l)
BY DEF AcceptsStill, Adding

\* or the calls,
LEMMA SameCalls ==
  ASSUME NEW l, remove'[l] = remove[l], on'[l] = on[l],
         \A a \in L!Actors : \/ call'[a] = call[a]
                             \/ ~Asks(a, l) /\ ~Asks(a, l)'
  PROVE  CallsStill(l)
<1>1. \A a \in L!Actors : Asks(a, l)' <=> Asks(a, l) BY DEF Asks
<1>2. \A a \in L!Actors : Asks(a, l) => call'[a] = call[a] OBVIOUS
<1>3. Asked(l)' = Asked(l) BY <1>1 DEF Asked, L!Actors
<1>4. \A w \in Watchers : (\E a \in L!Actors : Asks(a, l)' /\ w \in call'[a].todo)
                          <=> (\E a \in L!Actors : Asks(a, l) /\ w \in call[a].todo)
  BY <1>1, <1>2
<1>5. Unsent(l)' = Unsent(l) BY <1>4 DEF Unsent, L!Actors
<1> QED BY <1>3, <1>5 DEF CallsStill

\* and one that leaves them all alone.
LEMMA AllStill ==
  ASSUME LisInv, L!TypeOK', NEW l \in Listeners, mem'[l] = "live" => mem[l] = "live", Still(l)
  PROVE  mem'[l] = "live" => ref'[l] = Refs(l)'
<1>1. CASE mem'[l] = "live"
  <2>1. mem[l] = "live" /\ ref[l] \in Nat BY <1>1 DEF LisInv, L!TypeOK
  <2>2. /\ Cardinality(InQueues(l)) \in Nat /\ Cardinality(Adding(l)) \in Nat
        /\ Cardinality(Unsent(l)) \in Nat /\ Asked(l) \in Nat
    BY Terms DEF LisInv
  <2>3. /\ Cardinality(InQueues(l)') = Cardinality(InQueues(l)) + 0
        /\ Cardinality(Adding(l)') = Cardinality(Adding(l)) + 0
        /\ Cardinality(Unsent(l)') = Cardinality(Unsent(l)) + 0
        /\ Asked(l)' = Asked(l) + 0
        /\ ref'[l] = ref[l] + 0 + 0 + 0 + 0
    BY <2>1, <2>2 DEF Still, QueuesStill, AcceptsStill, CallsStill
  <2> QED BY <2>1, <2>3, Balance
<1> QED BY <1>1

\* Who asks for the removal of a listener is alone, and its list is what is unsent.
LEMMA Asking ==
  ASSUME LisInv, NEW a \in L!Actors, call[a].op = "unlisten"
  PROVE  /\ Asked(Callee(a)) = 1 /\ Unsent(Callee(a)) = call[a].todo /\ remove[Callee(a)]
         /\ \A b \in L!Actors : call[b].lsn = Callee(a) => b = a
<1>1. Callee(a) \in Listeners /\ call[a].todo \subseteq Watchers BY Calling DEF Callee
<1>2. remove[Callee(a)] /\ \A b \in L!Actors : call[b].lsn = Callee(a) => b = a
  BY <1>1 DEF LisInv, Marked, OneCaller, Callee
<1>3. Asks(a, Callee(a)) BY DEF Asks, Callee
<1>4. \A b \in L!Actors : Asks(b, Callee(a)) => b = a BY <1>2 DEF Asks
<1>5. Asked(Callee(a)) = 1 BY <1>3 DEF Asked
<1>6. Unsent(Callee(a)) = call[a].todo BY <1>1, <1>2, <1>3, <1>4 DEF Unsent
<1> QED BY <1>2, <1>5, <1>6

\* One reference less.
LEMMA RefDown ==
  ASSUME L!TypeOK, NEW w, NEW l \in Listeners, NEW left, L!Unref(w, l, left)
  PROVE  ref'[l] = ref[l] - 1 /\ \A k \in Listeners : k # l => ref'[k] = ref[k]
BY DEF L!Unref, L!TypeOK

\* Of another listener.
LEMMA SentStill ==
  ASSUME L!TypeOK, NEW w \in Watchers, NEW c \in Cmds, QueueSent(w, c), NEW l, ~Mentions(c, l)
  PROVE  QueuesStill(l)
<1>1. Cardinality(InQueues(l)) \in Nat BY Terms
<1> QED BY <1>1, CountSent DEF QueuesStill

LEMMA TakenStill ==
  ASSUME L!TypeOK, NEW w \in Watchers, QueueTaken(w), NEW l,
         ~Mentions(Head(queue[w]), l)
  PROVE  QueuesStill(l)
<1> QED BY CountTaken DEF QueuesStill

LEMMA StopsStill ==
  ASSUME L!TypeOK, queue' = [w \in Watchers |-> Append(queue[w], L!Cmd("STOP", Nil))], NEW l
  PROVE  QueuesStill(l)
<1> DEFINE c == L!Cmd("STOP", Nil)
<1>1. c \in Cmds /\ c.cmd \notin Counting BY CmdNames DEF Counting
<1>2. ASSUME NEW w \in Watchers PROVE Owes(queue'[w], l) = Owes(queue[w], l)
  <2>1. queue[w] \in Seq(Cmds) /\ queue'[w] = Append(queue[w], c) BY DEF L!TypeOK, Cmds
  <2> HIDE DEF c
  <2> QED BY <1>1, <2>1, Sent DEF Owes
<1>3. \A p : p \in InQueues(l)' <=>
        \E v \in Watchers : \E i \in Owes(queue'[v], l) : p = <<v, i>>
  BY DEF InQueues, Owes
<1>4. \A p : p \in InQueues(l)' <=> p \in InQueues(l) BY <1>2, <1>3, InQueue
<1>5. InQueues(l)' = InQueues(l) BY <1>4
<1> QED BY <1>5 DEF QueuesStill

\* A set without one of its members, or with one more.
LEMMA OneOut ==
  ASSUME NEW S, NEW T, NEW x \in S, IsFiniteSet(S), T = S \ {x}
  PROVE  Cardinality(T) = Cardinality(S) - 1 /\ Cardinality(S) \in Nat
BY FS_RemoveElement, FS_CardinalityType

LEMMA OneIn ==
  ASSUME NEW S, NEW T, NEW x, x \notin S, IsFiniteSet(S), T = S \cup {x}
  PROVE  Cardinality(T) = Cardinality(S) + 1 /\ Cardinality(S) \in Nat
BY FS_AddElement, FS_CardinalityType

\* The accept path leaves what is being added alone.
LEMMA AcceptMoves ==
  ASSUME LisInv, NEW w \in Watchers,
         \/ L!AcceptOne(w) \/ L!AcceptOwn(w) \/ L!AcceptBack(w) \/ L!AcceptEnd(w)
         \/ L!AcceptPause(w) \/ L!AcceptLost(w) \/ \E to \in Watchers : L!AcceptGive(w, to)
  PROVE  \A v \in Watchers :
           accept'[v] = accept[v] \/ (accept[v].at # "added" /\ accept'[v].at # "added")
<1>0. accept \in [Watchers -> {L!NoAccept} \cup [lsn : Listeners, at : L!Phases]]
  BY DEF LisInv, L!TypeOK
<1>1. accept[w].at \in {"loop", "got", "cb"} /\ accept[w].at \in L!Phases
  BY AcceptFrom DEF L!Phases
<1>2. \/ \E at \in {"loop", "got", "cb"} : L!AcceptTo(w, at)
      \/ accept' = [accept EXCEPT ![w] = L!NoAccept]
  BY DEF L!AcceptOne, L!AcceptOwn, L!AcceptBack, L!AcceptEnd, L!AcceptPause, L!AcceptLost,
    L!AcceptGive
<1>3. CASE \E at \in {"loop", "got", "cb"} : L!AcceptTo(w, at)
  <2>1. PICK at \in {"loop", "got", "cb"} : L!AcceptTo(w, at) BY <1>3
  <2>2. /\ accept'[w] = [lsn |-> accept[w].lsn, at |-> at]
        /\ \A v \in Watchers : v # w => accept'[v] = accept[v]
    BY <1>1, <2>1, AcceptGoes
  <2>3. accept'[w].at # "added" BY <2>2
  <2> QED BY <1>1, <2>2, <2>3
<1>4. CASE accept' = [accept EXCEPT ![w] = L!NoAccept]
  <2>1. accept'[w] = L!NoAccept /\ \A v \in Watchers : v # w => accept'[v] = accept[v]
    BY <1>0, <1>4
  <2> QED BY <1>1, <2>1 DEF L!NoAccept
<1> QED BY <1>2, <1>3, <1>4

\* The count is right after any step.
LEMMA CountedStep ==
  ASSUME LisInv, [L!Next]_(L!vars)
  PROVE  Counted'
<1> USE DEF L!lsnsock, L!grace, L!ending
<1>0. LisInv /\ L!TypeOK /\ L!TypeOK' BY TypeStep DEF LisInv
<1>1. ASSUME NEW a \in L!Actors, L!Listen(a) PROVE Counted'
  <2>1. ASSUME NEW l \in Listeners, NEW ws \in (SUBSET Watchers) \ {{}},
               L!ListenStart(a, l, ws)
        PROVE Counted'
    <3>1. mem[l] # "live" /\ ~Leads(l) BY <2>1 DEF L!ListenStart, LisInv, Reached
    <3>2. /\ ~remove[l] /\ remove' = remove /\ on'[l] = ws /\ ref'[l] = Cardinality(ws)
          /\ \A k \in Listeners : k # l => on'[k] = on[k] /\ ref'[k] = ref[k] /\ mem'[k] = mem[k]
      BY <1>0, <2>1, LisNames DEF L!ListenStart, L!TypeOK, LisInv, Marked
    <3>3. /\ call'[a].op = "listen" /\ \A b \in L!Actors : b # a => call'[b] = call[b]
          /\ call[a] = L!NoCall
      BY <1>0, <2>1, CallStarts, StartsListen
    <3>4. ASSUME NEW k \in Listeners PROVE QueuesStill(k) /\ AcceptsStill(k)
      BY <2>1, SameQueues, SameAccepts DEF L!ListenStart, QueuesSame
    <3>5. ASSUME NEW k \in Listeners, k # l PROVE Still(k) /\ mem'[k] = mem[k]
      <4>1. \A b \in L!Actors : call'[b] = call[b] \/ (~Asks(b, k) /\ ~Asks(b, k)')
        BY <3>3 DEF Asks, L!NoCall
      <4>2. CallsStill(k) BY <3>2, <3>5, <4>1, SameCalls
      <4> QED BY <3>2, <3>4, <3>5, <4>2 DEF Still
    <3>6. ref'[l] = Refs(l)'
      <4>1. Adding(l) = {} BY <3>1 DEF Leads, L!ReadBy, Adding
      <4>2. \A v \in Watchers : Owes(queue[v], l) = {} BY <3>1 DEF Leads, L!ReadBy, Owes, Counting
      <4>3. InQueues(l) = {} BY <4>2, InQueue
      <4>4. \A b \in L!Actors : ~Asks(b, l)' BY <3>1, <3>3 DEF Leads, Asks
      <4>5. Asked(l)' = 0 BY <4>4 DEF Asked, L!Actors
      <4>6. Unsent(l)' = ws BY <3>2 DEF Unsent
      <4>7. Cardinality(InQueues(l)') = 0 /\ Adding(l)' = {} /\ Cardinality(Adding(l)') = 0
        BY <3>4, <4>1, <4>3, FS_EmptySet DEF QueuesStill, AcceptsStill
      <4>8. Cardinality(ws) \in Nat
        <5>1. IsFiniteSet(ws) BY LisSetting, FS_Subset
        <5> QED BY <5>1, FS_CardinalityType
      <4> QED BY <3>2, <4>5, <4>6, <4>7, <4>8 DEF Refs
    <3> QED BY <1>0, <3>5, <3>6, AllStill DEF Counted
  <2>2. ASSUME NEW w \in Watchers, L!ListenSend(a, w) PROVE Counted'
    <3>1. ASSUME NEW k \in Listeners PROVE Still(k) /\ (mem'[k] = "live" => mem[k] = "live")
      <4>1. QueuesStill(k)
        <5> DEFINE c == L!Cmd("LSN", call[a].lsn)
        <5>1. QueuesSame \/ (QueueSent(w, c) /\ c \in Cmds /\ c.cmd = "LSN")
          BY <2>2, Calling, CmdNames, SendForm DEF L!ListenSend, QueuesSame
        <5>2. ~Mentions(c, k) BY CmdNames DEF Mentions, Counting
        <5> HIDE DEF c
        <5> QED BY <1>0, <5>1, <5>2, SameQueues, SentStill
      <4>2. AcceptsStill(k)
        BY <2>2, SameAccepts DEF L!ListenSend
      <4>3. CallsStill(k)
        <5>0. CallNow(a, call[a].op, call[a].todo \ {w}) /\ call[a].op = "listen"
          BY <2>2, CallSends
        <5>1. /\ call'[a].op = "listen" /\ \A b \in L!Actors : b # a => call'[b] = call[b]
              /\ call[a].op = "listen"
          BY <5>0 DEF CallNow
        <5>2. UNCHANGED <<remove, on>> BY <2>2 DEF L!ListenSend
        <5>3. \A b \in L!Actors : call'[b] = call[b] \/ (~Asks(b, k) /\ ~Asks(b, k)')
          BY <5>1 DEF Asks, L!NoCall
        <5> QED BY <5>2, <5>3, SameCalls
      <4>4. ref'[k] = ref[k] /\ (mem'[k] = "live" => mem[k] = "live")
        BY <1>0, <2>2 DEF L!ListenSend, L!TypeOK
      <4> QED BY <4>1, <4>2, <4>3, <4>4 DEF Still
    <3> QED BY <1>0, <3>1, AllStill DEF Counted
  <2>3. CASE L!ListenEnd(a)
    <3>1. ASSUME NEW k \in Listeners PROVE Still(k) /\ (mem'[k] = "live" => mem[k] = "live")
      <4>1. QueuesStill(k)
        BY <2>3, SameQueues DEF QueuesSame, L!ListenEnd
      <4>2. AcceptsStill(k)
        BY <2>3, SameAccepts DEF L!ListenEnd
      <4>3. CallsStill(k)
        <5>1. /\ call'[a] = L!NoCall /\ \A b \in L!Actors : b # a => call'[b] = call[b]
              /\ call[a].op = "listen"
          BY <2>3, CallEnds DEF L!ListenEnd
        <5>2. UNCHANGED <<remove, on>> BY <2>3 DEF L!ListenEnd
        <5>3. \A b \in L!Actors : call'[b] = call[b] \/ (~Asks(b, k) /\ ~Asks(b, k)')
          BY <5>1 DEF Asks, L!NoCall
        <5> QED BY <5>2, <5>3, SameCalls
      <4>4. ref'[k] = ref[k] /\ (mem'[k] = "live" => mem[k] = "live")
        BY <1>0, <2>3 DEF L!ListenEnd, L!TypeOK
      <4> QED BY <4>1, <4>2, <4>3, <4>4 DEF Still
    <3> QED BY <1>0, <3>1, AllStill DEF Counted
  <2> QED BY <1>1, <2>1, <2>2, <2>3 DEF L!Listen
<1>2. ASSUME NEW a \in L!Actors, L!Unlisten(a) PROVE Counted'
  <2>1. ASSUME NEW l \in Listeners, L!UnlistenTake(a, l) PROVE Counted'
    <3>1. ASSUME NEW k \in Listeners PROVE Still(k) /\ (mem'[k] = "live" => mem[k] = "live")
      <4>1. QueuesStill(k)
        BY <2>1, SameQueues DEF QueuesSame, L!UnlistenTake
      <4>2. AcceptsStill(k)
        BY <2>1, SameAccepts DEF L!UnlistenTake
      <4>3. CallsStill(k)
        <5>1. /\ call'[a].op = "hold" /\ \A b \in L!Actors : b # a => call'[b] = call[b]
              /\ call[a] = L!NoCall
          BY <1>0, <2>1, CallStarts, StartsHold
        <5>2. UNCHANGED <<remove, on>> BY <2>1 DEF L!UnlistenTake
        <5>3. \A b \in L!Actors : call'[b] = call[b] \/ (~Asks(b, k) /\ ~Asks(b, k)')
          BY <5>1 DEF Asks, L!NoCall
        <5> QED BY <5>2, <5>3, SameCalls
      <4>4. ref'[k] = ref[k] /\ (mem'[k] = "live" => mem[k] = "live")
        BY <1>0, <2>1 DEF L!UnlistenTake, L!TypeOK
      <4> QED BY <4>1, <4>2, <4>3, <4>4 DEF Still
    <3> QED BY <1>0, <3>1, AllStill DEF Counted
  <2>2. ASSUME NEW w \in Watchers, L!UnlistenSend(a, w) PROVE Counted'
    <3>40. PICK l, c : l = Callee(a) /\ c = L!Cmd("UNLSN", l) OBVIOUS
    <3> USE <3>40
    <3>1. /\ call'[a].lsn = l /\ call'[a].op = "unlisten" /\ call'[a].todo = call[a].todo \ {w}
          /\ w \in call[a].todo /\ \A b \in L!Actors : b # a => call'[b] = call[b]
      <4>1. /\ CallNow(a, call[a].op, call[a].todo \ {w})
            /\ call[a].op = "unlisten"
            /\ w \in call[a].todo
        BY <2>2, CallSends
      <4> QED BY <4>1 DEF CallNow
    <3>2. /\ l \in Listeners /\ mem[l] = "live" /\ ref[l] \in Nat /\ call[a].op = "unlisten"
          /\ call[a].todo \subseteq Watchers
      BY <2>2, CallSends, Calling DEF InCall, Callee
    <3>3. UNCHANGED <<mem, on, remove, accept>> BY <2>2 DEF L!UnlistenSend
    <3>4. /\ Asked(l) = 1 /\ Unsent(l) = call[a].todo /\ remove[l]
          /\ \A b \in L!Actors : call[b].lsn = l => b = a
      BY <3>2, Asking
    <3>5. l = call[a].lsn BY DEF Callee
    <3>6. CASE a = w
      <4>1. queue' = queue /\ L!Unref(w, l, ahead)
        BY <2>2, <3>6 DEF L!UnlistenSend, L!RemoveLsn, Callee
      <4>2. ref'[l] = ref[l] - 1 /\ \A k \in Listeners : k # l => ref'[k] = ref[k]
        BY <1>0, <3>2, <4>1, RefDown
      <4>3. ASSUME NEW k \in Listeners PROVE QueuesStill(k) /\ AcceptsStill(k)
        BY <3>3, <4>1, SameQueues, SameAccepts DEF QueuesSame
      <4>4. ASSUME NEW k \in Listeners, k # l PROVE Still(k)
        <5>1. \A b \in L!Actors : call'[b] = call[b] \/ (~Asks(b, k) /\ ~Asks(b, k)')
          BY <3>1, <3>5, <4>4 DEF Asks
        <5>2. CallsStill(k) BY <3>3, <5>1, SameCalls
        <5> QED BY <4>1, <4>2, <4>3, <4>4, <5>2 DEF Still
      <4>5. ref'[l] = Refs(l)'
        <5>1. \A b \in L!Actors : Asks(b, l)' <=> b = a BY <3>1, <3>4 DEF Asks
        <5>2. Unsent(l)' = call[a].todo \ {w}
          BY <3>1, <3>2, <3>3, <3>4, <5>1 DEF Unsent, L!Actors
        <5>3. Asked(l)' = 1 BY <5>1 DEF Asked, L!Actors
        <5>4. IsFiniteSet(Unsent(l)) /\ Cardinality(Unsent(l)) \in Nat BY <1>0, Terms
        <5>5. Cardinality(Unsent(l)') = Cardinality(Unsent(l)) - 1 /\ Cardinality(Unsent(l)) \in Nat
          BY <3>1, <3>4, <5>2, <5>4, OneOut
        <5>6. /\ Cardinality(InQueues(l)) \in Nat /\ Cardinality(Adding(l)) \in Nat
          BY <1>0, Terms
        <5>7. /\ Cardinality(InQueues(l)') = Cardinality(InQueues(l)) + 0
              /\ Cardinality(Adding(l)') = Cardinality(Adding(l)) + 0
              /\ Cardinality(Unsent(l)') = Cardinality(Unsent(l)) + (0 - 1)
              /\ Asked(l)' = Asked(l) + 0 /\ ref'[l] = ref[l] + 0 + 0 + (0 - 1) + 0
          BY <3>2, <3>4, <4>2, <4>3, <5>3, <5>5, <5>6 DEF QueuesStill, AcceptsStill
        <5> QED BY <1>0, <3>2, <5>7, Balance
      <4> QED BY <1>0, <3>3, <4>4, <4>5, AllStill DEF Counted
    <3>7. CASE a # w
      <4>1. QueueSent(w, c) /\ ref' = ref BY <2>2, <3>7, SendForm DEF L!UnlistenSend, Callee
      <4>2. c \in Cmds /\ \A k : Mentions(c, k) <=> k = l
        BY <3>2, CmdNames DEF Mentions, Counting
      <4>3. ASSUME NEW k \in Listeners PROVE AcceptsStill(k) /\ (k # l => QueuesStill(k))
        BY <1>0, <3>3, <4>1, <4>2, SentStill, SameAccepts
      <4>4. ASSUME NEW k \in Listeners, k # l PROVE Still(k)
        <5>1. \A b \in L!Actors : call'[b] = call[b] \/ (~Asks(b, k) /\ ~Asks(b, k)')
          BY <3>1, <3>5, <4>4 DEF Asks
        <5>2. CallsStill(k) BY <3>3, <5>1, SameCalls
        <5> QED BY <4>1, <4>2, <4>3, <4>4, <5>2 DEF Still
      <4>5. ref'[l] = Refs(l)'
        <5>1. \A b \in L!Actors : Asks(b, l)' <=> b = a BY <3>1, <3>4 DEF Asks
        <5>2. Unsent(l)' = call[a].todo \ {w}
          BY <3>1, <3>2, <3>3, <3>4, <5>1 DEF Unsent, L!Actors
        <5>3. Asked(l)' = 1 BY <5>1 DEF Asked, L!Actors
        <5>4. IsFiniteSet(Unsent(l)) /\ Cardinality(Unsent(l)) \in Nat BY <1>0, Terms
        <5>5. Cardinality(Unsent(l)') = Cardinality(Unsent(l)) - 1 /\ Cardinality(Unsent(l)) \in Nat
          BY <3>1, <3>4, <5>2, <5>4, OneOut
        <5>6. /\ Cardinality(InQueues(l)') = Cardinality(InQueues(l)) + 1
              /\ Cardinality(Adding(l)) \in Nat
          BY <1>0, <4>1, <4>2, CountSent, Terms
        <5>7. /\ Cardinality(Adding(l)') = Cardinality(Adding(l)) + 0
              /\ Cardinality(Unsent(l)') = Cardinality(Unsent(l)) + (0 - 1)
              /\ Asked(l)' = Asked(l) + 0 /\ ref'[l] = ref[l] + 1 + 0 + (0 - 1) + 0
          BY <3>2, <3>4, <4>1, <4>3, <5>3, <5>5, <5>6 DEF AcceptsStill
        <5> QED BY <1>0, <3>2, <5>6, <5>7, Balance
      <4> QED BY <1>0, <3>3, <4>4, <4>5, AllStill DEF Counted
    <3> QED BY <3>6, <3>7
  <2>3. CASE L!UnlistenMark(a)
    <3>40. PICK l : l = Callee(a) OBVIOUS
    <3> USE <3>40
    <3>1. /\ call'[a].lsn = l /\ call'[a].op = "unlisten" /\ call'[a].todo = on[l]
          /\ \A b \in L!Actors : b # a => call'[b] = call[b]
      <4>1. CallNow(a, "unlisten", on[Callee(a)]) BY <2>3, CallMarks
      <4> QED BY <4>1 DEF CallNow
    <3>2. l \in Listeners /\ mem[l] = "live" /\ ref[l] \in Nat /\ call[a].op = "hold"
      BY <2>3, CallMarks, Calling DEF InCall, Callee
    <3>3. UNCHANGED <<mem, on, queue, accept>> /\ remove' = [remove EXCEPT ![l] = TRUE]
      BY <2>3 DEF L!UnlistenMark, Callee
    <3>4. ~remove[l] /\ \A b \in L!Actors : call[b].lsn = l => b = a
      BY <3>2 DEF LisInv, OneCaller, Marked, Callee
    <3>5. remove'[l] /\ \A k \in Listeners : k # l => remove'[k] = remove[k]
      BY <1>0, <3>2, <3>3 DEF L!TypeOK
    <3>6. ref'[l] = ref[l] + 1 /\ \A k \in Listeners : k # l => ref'[k] = ref[k]
      BY <1>0, <2>3, <3>2 DEF L!UnlistenMark, L!TypeOK, Callee
    <3>7. l = call[a].lsn BY DEF Callee
    <3>8. ASSUME NEW k \in Listeners PROVE QueuesStill(k) /\ AcceptsStill(k)
      BY <3>3, SameQueues, SameAccepts DEF QueuesSame
    <3>9. ASSUME NEW k \in Listeners, k # l PROVE Still(k)
      <4>1. \A b \in L!Actors : call'[b] = call[b] \/ (~Asks(b, k) /\ ~Asks(b, k)')
        BY <3>1, <3>7, <3>9 DEF Asks
      <4>2. CallsStill(k) BY <3>3, <3>5, <3>9, <4>1, SameCalls
      <4> QED BY <3>6, <3>8, <3>9, <4>2 DEF Still
    <3>10. ref'[l] = Refs(l)'
      <4>1. \A b \in L!Actors : ~Asks(b, l) BY <3>2, <3>4 DEF Asks
      <4>2. \A b \in L!Actors : Asks(b, l)' <=> b = a BY <3>1, <3>4 DEF Asks
      <4>3. Asked(l) = 0 BY <4>1 DEF Asked
      <4>4. Asked(l)' = 1 BY <4>2 DEF Asked, L!Actors
      <4>5. Unsent(l)' = Unsent(l) BY <3>1, <3>4, <3>5, <4>2 DEF Unsent, L!Actors
      <4>6. /\ Cardinality(InQueues(l)) \in Nat /\ Cardinality(Adding(l)) \in Nat
            /\ Cardinality(Unsent(l)) \in Nat
        BY <1>0, Terms
      <4>7. /\ Cardinality(InQueues(l)') = Cardinality(InQueues(l)) + 0
            /\ Cardinality(Adding(l)') = Cardinality(Adding(l)) + 0
            /\ Cardinality(Unsent(l)') = Cardinality(Unsent(l)) + 0
            /\ Asked(l)' = Asked(l) + 1 /\ ref'[l] = ref[l] + 0 + 0 + 0 + 1
        BY <3>2, <3>6, <3>8, <4>3, <4>4, <4>5, <4>6 DEF QueuesStill, AcceptsStill
      <4> QED BY <1>0, <3>2, <4>7, Balance
    <3> QED BY <1>0, <3>3, <3>9, <3>10, AllStill DEF Counted
  <2>4. CASE L!UnlistenEnd(a)
    <3>40. PICK l, c : l = Callee(a) /\ c = L!Cmd("LSN_UNREF", l) OBVIOUS
    <3> USE <3>40
    <3>1. /\ call'[a] = L!NoCall /\ l \in Listeners
          /\ \A b \in L!Actors : b # a => call'[b] = call[b]
      BY <2>4, CallEnds
    <3>2. /\ mem[l] = "live" /\ ref[l] \in Nat /\ call[a].op = "unlisten" /\ call[a].todo = {}
      BY <2>4, CallEnds, Calling DEF InCall, Callee, L!UnlistenEnd
    <3>3. UNCHANGED <<mem, on, remove, accept>> BY <2>4 DEF L!UnlistenEnd
    <3>4. /\ Asked(l) = 1 /\ Unsent(l) = {} /\ remove[l]
          /\ \A b \in L!Actors : call[b].lsn = l => b = a
      BY <3>2, Asking
    <3>5. l = call[a].lsn BY DEF Callee
    <3>8. CASE a = Zero
      <4>1. queue' = queue /\ L!Unref(Zero, l, ahead) BY <2>4, <3>8 DEF L!UnlistenEnd, Callee
      <4>2. ref'[l] = ref[l] - 1 /\ \A k \in Listeners : k # l => ref'[k] = ref[k]
        BY <1>0, <3>1, <4>1, RefDown
      <4>3. ASSUME NEW k \in Listeners PROVE QueuesStill(k) /\ AcceptsStill(k)
        BY <3>3, <4>1, SameQueues, SameAccepts DEF QueuesSame
      <4>4. ASSUME NEW k \in Listeners, k # l PROVE Still(k)
        <5>1. \A b \in L!Actors : call'[b] = call[b] \/ (~Asks(b, k) /\ ~Asks(b, k)')
          BY <3>1, <3>5, <4>4 DEF Asks, L!NoCall
        <5>2. CallsStill(k) BY <3>3, <5>1, SameCalls
        <5> QED BY <4>1, <4>2, <4>3, <4>4, <5>2 DEF Still
      <4>5. ref'[l] = Refs(l)'
        <5>1. \A b \in L!Actors : ~Asks(b, l)' BY <3>1, <3>4 DEF Asks, L!NoCall
        <5>2. Unsent(l)' = {} BY <3>3, <3>4, <5>1 DEF Unsent, L!Actors
        <5>3. Asked(l)' = 0 BY <5>1 DEF Asked, L!Actors
        <5>5. Cardinality(Unsent(l)') = Cardinality(Unsent(l)) /\ Cardinality(Unsent(l)) \in Nat
          BY <1>0, <3>4, <5>2, Terms
        <5>6. /\ Cardinality(InQueues(l)) \in Nat /\ Cardinality(Adding(l)) \in Nat
          BY <1>0, Terms
        <5>7. /\ Cardinality(InQueues(l)') = Cardinality(InQueues(l)) + 0
              /\ Cardinality(Adding(l)') = Cardinality(Adding(l)) + 0
              /\ Cardinality(Unsent(l)') = Cardinality(Unsent(l)) + 0
              /\ Asked(l)' = Asked(l) + (0 - 1) /\ ref'[l] = ref[l] + 0 + 0 + 0 + (0 - 1)
          BY <3>1, <3>2, <3>4, <4>2, <4>3, <5>3, <5>5, <5>6 DEF QueuesStill, AcceptsStill
        <5> QED BY <1>0, <3>1, <3>2, <5>7, Balance
      <4> QED BY <1>0, <3>3, <4>4, <4>5, AllStill DEF Counted
    <3>9. CASE a # Zero
      <4>1. QueueSent(Zero, c) /\ ref' = ref BY <2>4, <3>9, SendForm DEF L!UnlistenEnd, Callee
      <4>2. c \in Cmds /\ \A k : Mentions(c, k) <=> k = l
        BY <3>1, CmdNames DEF Mentions, Counting
      <4>3. ASSUME NEW k \in Listeners PROVE AcceptsStill(k) /\ (k # l => QueuesStill(k))
        BY <1>0, <3>3, <4>1, <4>2, SentStill, SameAccepts, LisSetting
      <4>4. ASSUME NEW k \in Listeners, k # l PROVE Still(k)
        <5>1. \A b \in L!Actors : call'[b] = call[b] \/ (~Asks(b, k) /\ ~Asks(b, k)')
          BY <3>1, <3>5, <4>4 DEF Asks, L!NoCall
        <5>2. CallsStill(k) BY <3>3, <5>1, SameCalls
        <5> QED BY <4>1, <4>2, <4>3, <4>4, <5>2 DEF Still
      <4>5. ref'[l] = Refs(l)'
        <5>1. \A b \in L!Actors : ~Asks(b, l)' BY <3>1, <3>4 DEF Asks, L!NoCall
        <5>2. Unsent(l)' = {} BY <3>3, <3>4, <5>1 DEF Unsent, L!Actors
        <5>3. Asked(l)' = 0 BY <5>1 DEF Asked, L!Actors
        <5>5. Cardinality(Unsent(l)') = Cardinality(Unsent(l)) /\ Cardinality(Unsent(l)) \in Nat
          BY <1>0, <3>4, <5>2, Terms
        <5>6. /\ Cardinality(InQueues(l)') = Cardinality(InQueues(l)) + 1
              /\ Cardinality(Adding(l)) \in Nat
          BY <1>0, <4>1, <4>2, CountSent, Terms, LisSetting
        <5>7. /\ Cardinality(Adding(l)') = Cardinality(Adding(l)) + 0
              /\ Cardinality(Unsent(l)') = Cardinality(Unsent(l)) + 0
              /\ Asked(l)' = Asked(l) + (0 - 1) /\ ref'[l] = ref[l] + 1 + 0 + 0 + (0 - 1)
          BY <3>1, <3>2, <3>4, <4>1, <4>3, <5>3, <5>5, <5>6 DEF AcceptsStill
        <5> QED BY <1>0, <3>1, <3>2, <5>6, <5>7, Balance
      <4> QED BY <1>0, <3>3, <4>4, <4>5, AllStill DEF Counted
    <3> QED BY <3>8, <3>9
  <2> QED BY <1>2, <2>1, <2>2, <2>3, <2>4 DEF L!Unlisten
<1>3. ASSUME NEW w \in Watchers, L!Loop(w) PROVE Counted'
  <2>1. CASE L!Poll(w)
    <3>1. ASSUME NEW k \in Listeners PROVE Still(k) /\ (mem'[k] = "live" => mem[k] = "live")
      <4>1. QueuesStill(k)
        BY <2>1, SameQueues DEF QueuesSame, L!Poll
      <4>2. AcceptsStill(k)
        BY <2>1, SameAccepts DEF L!Poll
      <4>3. CallsStill(k)
        BY <2>1, SameCalls DEF L!Poll
      <4>4. ref'[k] = ref[k] /\ (mem'[k] = "live" => mem[k] = "live")
        BY <1>0, <2>1 DEF L!Poll, L!TypeOK
      <4> QED BY <4>1, <4>2, <4>3, <4>4 DEF Still
    <3> QED BY <1>0, <3>1, AllStill DEF Counted
  <2>2. ASSUME NEW l \in Listeners, L!Dispatch(w, l) PROVE Counted'
    <3>1. ASSUME NEW k \in Listeners PROVE Still(k) /\ (mem'[k] = "live" => mem[k] = "live")
      <4>1. QueuesStill(k)
        BY <2>2, SameQueues DEF QueuesSame, L!Dispatch
      <4>2. AcceptsStill(k)
        <5>1. \A v \in Watchers :
                   accept'[v] = accept[v] \/ (accept[v].at # "added" /\ accept'[v].at # "added")
          BY <1>0, <2>2 DEF L!Dispatch, L!TypeOK, L!InLoop, L!NoAccept
        <5> QED BY <5>1, SameAccepts
      <4>3. CallsStill(k)
        BY <2>2, SameCalls DEF L!Dispatch
      <4>4. ref'[k] = ref[k] /\ (mem'[k] = "live" => mem[k] = "live")
        BY <1>0, <2>2 DEF L!Dispatch, L!TypeOK
      <4> QED BY <4>1, <4>2, <4>3, <4>4 DEF Still
    <3> QED BY <1>0, <3>1, AllStill DEF Counted
  <2>3. ASSUME NEW l \in Listeners, L!BackoffOver(w, l) PROVE Counted'
    <3>1. ASSUME NEW k \in Listeners PROVE Still(k) /\ (mem'[k] = "live" => mem[k] = "live")
      <4>1. QueuesStill(k)
        BY <2>3, SameQueues DEF QueuesSame, L!BackoffOver
      <4>2. AcceptsStill(k)
        BY <2>3, SameAccepts DEF L!BackoffOver
      <4>3. CallsStill(k)
        BY <2>3, SameCalls DEF L!BackoffOver
      <4>4. ref'[k] = ref[k] /\ (mem'[k] = "live" => mem[k] = "live")
        BY <1>0, <2>3 DEF L!BackoffOver, L!TypeOK
      <4> QED BY <4>1, <4>2, <4>3, <4>4 DEF Still
    <3> QED BY <1>0, <3>1, AllStill DEF Counted
  <2>4. ASSUME NEW l \in Listeners, L!Release(w, l) PROVE Counted'
    <3>1. ASSUME NEW k \in Listeners PROVE Still(k) /\ (mem'[k] = "live" => mem[k] = "live")
      <4>1. QueuesStill(k)
        BY <2>4, SameQueues DEF QueuesSame, L!Release
      <4>2. AcceptsStill(k)
        BY <2>4, SameAccepts DEF L!Release
      <4>3. CallsStill(k)
        BY <2>4, SameCalls DEF L!Release
      <4>4. ref'[k] = ref[k] /\ (mem'[k] = "live" => mem[k] = "live")
        BY <1>0, <2>4 DEF L!Release, L!TypeOK
      <4> QED BY <4>1, <4>2, <4>3, <4>4 DEF Still
    <3> QED BY <1>0, <3>1, AllStill DEF Counted
  <2> QED BY <1>3, <2>1, <2>2, <2>3, <2>4 DEF L!Loop
<1>4. ASSUME NEW w \in Watchers, L!Accept(w) PROVE Counted'
  <2>1. CASE L!AcceptOne(w)
    <3>1. ASSUME NEW k \in Listeners PROVE Still(k) /\ (mem'[k] = "live" => mem[k] = "live")
      <4>1. QueuesStill(k)
        BY <2>1, SameQueues DEF QueuesSame, L!AcceptOne
      <4>2. AcceptsStill(k)
        BY <1>0, <2>1, AcceptMoves, SameAccepts
      <4>3. CallsStill(k)
        BY <2>1, SameCalls DEF L!AcceptOne
      <4>4. ref'[k] = ref[k] /\ (mem'[k] = "live" => mem[k] = "live")
        BY <1>0, <2>1 DEF L!AcceptOne, L!TypeOK
      <4> QED BY <4>1, <4>2, <4>3, <4>4 DEF Still
    <3> QED BY <1>0, <3>1, AllStill DEF Counted
  <2>2. CASE L!AcceptOwn(w)
    <3>1. ASSUME NEW k \in Listeners PROVE Still(k) /\ (mem'[k] = "live" => mem[k] = "live")
      <4>1. QueuesStill(k)
        BY <2>2, SameQueues DEF QueuesSame, L!AcceptOwn
      <4>2. AcceptsStill(k)
        BY <1>0, <2>2, AcceptMoves, SameAccepts
      <4>3. CallsStill(k)
        BY <2>2, SameCalls DEF L!AcceptOwn
      <4>4. ref'[k] = ref[k] /\ (mem'[k] = "live" => mem[k] = "live")
        BY <1>0, <2>2 DEF L!AcceptOwn, L!TypeOK
      <4> QED BY <4>1, <4>2, <4>3, <4>4 DEF Still
    <3> QED BY <1>0, <3>1, AllStill DEF Counted
  <2>3. CASE L!AcceptBack(w)
    <3>1. ASSUME NEW k \in Listeners PROVE Still(k) /\ (mem'[k] = "live" => mem[k] = "live")
      <4>1. QueuesStill(k)
        BY <2>3, SameQueues DEF QueuesSame, L!AcceptBack
      <4>2. AcceptsStill(k)
        BY <1>0, <2>3, AcceptMoves, SameAccepts
      <4>3. CallsStill(k)
        BY <2>3, SameCalls DEF L!AcceptBack
      <4>4. ref'[k] = ref[k] /\ (mem'[k] = "live" => mem[k] = "live")
        BY <1>0, <2>3 DEF L!AcceptBack, L!TypeOK
      <4> QED BY <4>1, <4>2, <4>3, <4>4 DEF Still
    <3> QED BY <1>0, <3>1, AllStill DEF Counted
  <2>4. CASE L!AcceptEnd(w)
    <3>1. ASSUME NEW k \in Listeners PROVE Still(k) /\ (mem'[k] = "live" => mem[k] = "live")
      <4>1. QueuesStill(k)
        BY <2>4, SameQueues DEF QueuesSame, L!AcceptEnd
      <4>2. AcceptsStill(k)
        BY <1>0, <2>4, AcceptMoves, SameAccepts
      <4>3. CallsStill(k)
        BY <2>4, SameCalls DEF L!AcceptEnd
      <4>4. ref'[k] = ref[k] /\ (mem'[k] = "live" => mem[k] = "live")
        BY <1>0, <2>4 DEF L!AcceptEnd, L!TypeOK
      <4> QED BY <4>1, <4>2, <4>3, <4>4 DEF Still
    <3> QED BY <1>0, <3>1, AllStill DEF Counted
  <2>5. CASE L!AcceptPause(w)
    <3>1. ASSUME NEW k \in Listeners PROVE Still(k) /\ (mem'[k] = "live" => mem[k] = "live")
      <4>1. QueuesStill(k)
        BY <2>5, SameQueues DEF QueuesSame, L!AcceptPause
      <4>2. AcceptsStill(k)
        BY <1>0, <2>5, AcceptMoves, SameAccepts
      <4>3. CallsStill(k)
        BY <2>5, SameCalls DEF L!AcceptPause
      <4>4. ref'[k] = ref[k] /\ (mem'[k] = "live" => mem[k] = "live")
        BY <1>0, <2>5 DEF L!AcceptPause, L!TypeOK
      <4> QED BY <4>1, <4>2, <4>3, <4>4 DEF Still
    <3> QED BY <1>0, <3>1, AllStill DEF Counted
  <2>6. CASE L!AcceptLost(w)
    <3>1. ASSUME NEW k \in Listeners PROVE Still(k) /\ (mem'[k] = "live" => mem[k] = "live")
      <4>1. QueuesStill(k)
        BY <2>6, SameQueues DEF QueuesSame, L!AcceptLost
      <4>2. AcceptsStill(k)
        BY <1>0, <2>6, AcceptMoves, SameAccepts
      <4>3. CallsStill(k)
        BY <2>6, SameCalls DEF L!AcceptLost
      <4>4. ref'[k] = ref[k] /\ (mem'[k] = "live" => mem[k] = "live")
        BY <1>0, <2>6 DEF L!AcceptLost, L!TypeOK
      <4> QED BY <4>1, <4>2, <4>3, <4>4 DEF Still
    <3> QED BY <1>0, <3>1, AllStill DEF Counted
  <2>7. ASSUME NEW to \in Watchers, L!AcceptGive(w, to) PROVE Counted'
    <3>40. PICK l, c : l = accept[w].lsn /\ c = L!Cmd("ADDACP", l) OBVIOUS
    <3> USE <3>40
    <3>2. l \in Listeners /\ mem[l] = "live" /\ ref[l] \in Nat
      BY <2>7, AcceptFrom, AcceptingOn DEF L!Phases
    <3>1. /\ mem' = mem /\ QueueSent(to, c)
          /\ \A v \in Watchers :
               accept'[v] = accept[v] \/ (accept[v].at # "added" /\ accept'[v].at # "added")
      <4>1. mem' = mem /\ QueueSent(to, c) BY <2>7, SendForm DEF L!AcceptGive
      <4> QED BY <1>0, <2>7, <4>1, AcceptMoves
    <3>7. c \in Cmds /\ \A k : Mentions(c, k) <=> k = l
      BY <3>2, CmdNames DEF Mentions, Counting
    <3>3. ref'[l] = ref[l] + 1 /\ \A k \in Listeners : k # l => ref'[k] = ref[k]
      BY <1>0, <2>7, <3>2 DEF L!AcceptGive, L!TypeOK
    <3>4. ASSUME NEW k \in Listeners PROVE CallsStill(k)
      BY <2>7, SameCalls DEF L!AcceptGive
    <3>5. ASSUME NEW k \in Listeners, k # l PROVE Still(k)
      <4>1. QueuesStill(k)
        BY <1>0, <3>1, <3>5, <3>7, SentStill
      <4>2. AcceptsStill(k)
        BY <3>1, SameAccepts
      <4> QED BY <3>3, <3>4, <3>5, <4>1, <4>2 DEF Still
    <3>6. ref'[l] = Refs(l)'
      <4>1. Cardinality(InQueues(l)') = Cardinality(InQueues(l)) + 1
        BY <1>0, <3>1, <3>7, CountSent
      <4>2. Cardinality(Adding(l)') = Cardinality(Adding(l)) + 0
        BY <1>0, <3>1, SameAccepts, Terms DEF AcceptsStill
      <4>3. /\ Cardinality(Unsent(l)') = Cardinality(Unsent(l)) + 0
            /\ Asked(l)' = Asked(l) + 0
        BY <1>0, <3>2, <3>4, Terms DEF CallsStill
      <4>4. ref'[l] = ref[l] + 1 + 0 + 0 + 0 BY <3>2, <3>3
      <4> QED BY <1>0, <3>2, <4>1, <4>2, <4>3, <4>4, Balance
    <3> QED BY <1>0, <3>1, <3>5, <3>6, AllStill DEF Counted
  <2> QED BY <1>4, <2>1, <2>2, <2>3, <2>4, <2>5, <2>6, <2>7 DEF L!Accept
<1>5. ASSUME NEW w \in Watchers, L!Commanded(w) PROVE Counted'
  <2>1. CASE L!CmdLsn(w)
    <3>1. ASSUME NEW k \in Listeners PROVE Still(k) /\ (mem'[k] = "live" => mem[k] = "live")
      <4>1. QueuesStill(k)
        <5>1. QueueTaken(w) /\ Head(queue[w]).cmd = "LSN" BY <2>1, TakeForm DEF L!CmdLsn
        <5>2. ~Mentions(Head(queue[w]), k) BY <5>1 DEF Mentions, Counting
        <5> QED BY <1>0, <5>1, <5>2, TakenStill
      <4>2. AcceptsStill(k)
        BY <2>1, SameAccepts DEF L!CmdLsn
      <4>3. CallsStill(k)
        BY <2>1, SameCalls DEF L!CmdLsn
      <4>4. ref'[k] = ref[k] /\ (mem'[k] = "live" => mem[k] = "live")
        BY <1>0, <2>1 DEF L!CmdLsn, L!TypeOK
      <4> QED BY <4>1, <4>2, <4>3, <4>4 DEF Still
    <3> QED BY <1>0, <3>1, AllStill DEF Counted
  <2>2. CASE L!CmdUnlsn(w)
    <3>40. PICK l : l = Head(queue[w]).lsn OBVIOUS
    <3> USE <3>40
    <3>1. QueueTaken(w) /\ Head(queue[w]).cmd = "UNLSN" /\ UNCHANGED <<mem, accept>>
      BY <2>2, TakeForm DEF L!CmdUnlsn
    <3>2. l \in Listeners /\ mem[l] = "live" /\ ref[l] \in Nat /\ Head(queue[w]).lsn = l
      BY <3>1, Heads DEF QueueTaken, Counting
    <3>0. L!Unref(w, l, L!OneLess(w)) BY <2>2 DEF L!CmdUnlsn, L!RemoveLsn
    <3>3. ref'[l] = ref[l] - 1 /\ \A k \in Listeners : k # l => ref'[k] = ref[k]
      BY <1>0, <3>0, <3>2, RefDown
    <3>4. ASSUME NEW k \in Listeners PROVE CallsStill(k)
      BY <2>2, SameCalls DEF L!CmdUnlsn
    <3>5. ASSUME NEW k \in Listeners, k # l PROVE Still(k)
      <4>1. QueuesStill(k)
        BY <1>0, <3>1, <3>2, <3>5, TakenStill DEF Mentions
      <4>2. AcceptsStill(k)
        BY <3>1, SameAccepts
      <4> QED BY <3>3, <3>4, <3>5, <4>1, <4>2 DEF Still
    <3>6. ref'[l] = Refs(l)'
      <4>1. Cardinality(InQueues(l)') = Cardinality(InQueues(l)) + (0 - 1)
        BY <1>0, <3>1, <3>2, CountTaken DEF Mentions, Counting
      <4>2. Cardinality(Adding(l)') = Cardinality(Adding(l)) + 0
        BY <1>0, <3>1, SameAccepts, Terms DEF AcceptsStill
      <4>3. /\ Cardinality(Unsent(l)') = Cardinality(Unsent(l)) + 0
            /\ Asked(l)' = Asked(l) + 0
        BY <1>0, <3>2, <3>4, Terms DEF CallsStill
      <4>4. ref'[l] = ref[l] + (0 - 1) + 0 + 0 + 0 BY <3>2, <3>3
      <4> QED BY <1>0, <3>2, <4>1, <4>2, <4>3, <4>4, Balance
    <3> QED BY <1>0, <3>1, <3>5, <3>6, AllStill DEF Counted
  <2>3. CASE L!CmdLsnUnref(w)
    <3>40. PICK l : l = Head(queue[w]).lsn OBVIOUS
    <3> USE <3>40
    <3>1. QueueTaken(w) /\ Head(queue[w]).cmd = "LSN_UNREF" /\ UNCHANGED <<mem, accept>>
      BY <2>3, TakeForm DEF L!CmdLsnUnref
    <3>2. l \in Listeners /\ mem[l] = "live" /\ ref[l] \in Nat /\ Head(queue[w]).lsn = l
      BY <3>1, Heads DEF QueueTaken, Counting
    <3>0. L!Unref(w, l, L!OneLess(w)) BY <2>3 DEF L!CmdLsnUnref, L!Unref
    <3>3. ref'[l] = ref[l] - 1 /\ \A k \in Listeners : k # l => ref'[k] = ref[k]
      BY <1>0, <3>0, <3>2, RefDown
    <3>4. ASSUME NEW k \in Listeners PROVE CallsStill(k)
      BY <2>3, SameCalls DEF L!CmdLsnUnref
    <3>5. ASSUME NEW k \in Listeners, k # l PROVE Still(k)
      <4>1. QueuesStill(k)
        BY <1>0, <3>1, <3>2, <3>5, TakenStill DEF Mentions
      <4>2. AcceptsStill(k)
        BY <3>1, SameAccepts
      <4> QED BY <3>3, <3>4, <3>5, <4>1, <4>2 DEF Still
    <3>6. ref'[l] = Refs(l)'
      <4>1. Cardinality(InQueues(l)') = Cardinality(InQueues(l)) + (0 - 1)
        BY <1>0, <3>1, <3>2, CountTaken DEF Mentions, Counting
      <4>2. Cardinality(Adding(l)') = Cardinality(Adding(l)) + 0
        BY <1>0, <3>1, SameAccepts, Terms DEF AcceptsStill
      <4>3. /\ Cardinality(Unsent(l)') = Cardinality(Unsent(l)) + 0
            /\ Asked(l)' = Asked(l) + 0
        BY <1>0, <3>2, <3>4, Terms DEF CallsStill
      <4>4. ref'[l] = ref[l] + (0 - 1) + 0 + 0 + 0 BY <3>2, <3>3
      <4> QED BY <1>0, <3>2, <4>1, <4>2, <4>3, <4>4, Balance
    <3> QED BY <1>0, <3>1, <3>5, <3>6, AllStill DEF Counted
  <2>4. CASE L!CmdAddAcp(w)
    <3>40. PICK l : l = Head(queue[w]).lsn OBVIOUS
    <3> USE <3>40
    <3>1. /\ QueueTaken(w) /\ Head(queue[w]).cmd = "ADDACP" /\ mem' = mem
          /\ accept[w] = L!NoAccept /\ accept'[w] = [lsn |-> l, at |-> "added"]
          /\ \A v \in Watchers : v # w => accept'[v] = accept[v]
      BY <1>0, <2>4, TakeForm DEF L!CmdAddAcp, L!TypeOK
    <3>2. l \in Listeners /\ mem[l] = "live" /\ ref[l] \in Nat /\ Head(queue[w]).lsn = l
      BY <3>1, Heads DEF QueueTaken, Counting
    <3>3. ref' = ref BY <2>4 DEF L!CmdAddAcp
    <3>4. ASSUME NEW k \in Listeners PROVE CallsStill(k)
      BY <2>4, SameCalls DEF L!CmdAddAcp
    <3>5. ASSUME NEW k \in Listeners, k # l PROVE Still(k)
      <4>1. QueuesStill(k)
        BY <1>0, <3>1, <3>2, <3>5, TakenStill DEF Mentions
      <4>2. AcceptsStill(k)
        BY <3>1, <3>5 DEF AcceptsStill, Adding, L!NoAccept
      <4> QED BY <3>3, <3>4, <3>5, <4>1, <4>2 DEF Still
    <3>6. ref'[l] = Refs(l)'
      <4>1. Cardinality(InQueues(l)') = Cardinality(InQueues(l)) + (0 - 1)
        BY <1>0, <3>1, <3>2, CountTaken DEF Mentions, Counting
      <4>2. Cardinality(Adding(l)') = Cardinality(Adding(l)) + 1
        <5>1. Adding(l)' = Adding(l) \cup {w} /\ w \notin Adding(l)
          BY <3>1 DEF Adding, L!NoAccept
        <5> QED BY <1>0, <5>1, Terms, OneIn
      <4>3. /\ Cardinality(Unsent(l)') = Cardinality(Unsent(l)) + 0
            /\ Asked(l)' = Asked(l) + 0
        BY <1>0, <3>2, <3>4, Terms DEF CallsStill
      <4>4. ref'[l] = ref[l] + (0 - 1) + 1 + 0 + 0 BY <3>2, <3>3
      <4> QED BY <1>0, <3>2, <4>1, <4>2, <4>3, <4>4, Balance
    <3> QED BY <1>0, <3>1, <3>5, <3>6, AllStill DEF Counted
  <2>5. CASE L!AddedEnd(w)
    <3>40. PICK l : l = accept[w].lsn OBVIOUS
    <3> USE <3>40
    <3>0. accept[w].at = "added" /\ accept[w].lsn = l BY <2>5, AcceptFrom
    <3>2. /\ l \in Listeners /\ mem[l] = "live" /\ ref[l] \in Nat
          /\ accept[w] = [lsn |-> l, at |-> "added"]
      BY <3>0, AcceptingOn DEF L!Phases
    <3>1. /\ UNCHANGED <<mem, queue>> /\ accept'[w] = L!NoAccept
          /\ \A v \in Watchers : v # w => accept'[v] = accept[v]
      BY <1>0, <2>5 DEF L!AddedEnd, L!TypeOK
    <3>7. L!Unref(w, l, ahead) BY <2>5 DEF L!AddedEnd
    <3>3. ref'[l] = ref[l] - 1 /\ \A k \in Listeners : k # l => ref'[k] = ref[k]
      BY <1>0, <3>2, <3>7, RefDown
    <3>4. ASSUME NEW k \in Listeners PROVE CallsStill(k)
      BY <2>5, SameCalls DEF L!AddedEnd
    <3>5. ASSUME NEW k \in Listeners, k # l PROVE Still(k)
      <4>1. QueuesStill(k)
        BY <3>1, SameQueues DEF QueuesSame
      <4>2. AcceptsStill(k)
        BY <3>1, <3>2, <3>5 DEF AcceptsStill, Adding, L!NoAccept
      <4> QED BY <3>3, <3>4, <3>5, <4>1, <4>2 DEF Still
    <3>6. ref'[l] = Refs(l)'
      <4>1. Cardinality(InQueues(l)') = Cardinality(InQueues(l)) + 0
        BY <1>0, <3>1, SameQueues, Terms DEF QueuesSame, QueuesStill
      <4>2. Cardinality(Adding(l)') = Cardinality(Adding(l)) + (0 - 1)
        <5>1. Adding(l)' = Adding(l) \ {w} /\ w \in Adding(l)
          <6>1. accept'[w] # [lsn |-> l, at |-> "added"] BY <3>1 DEF L!NoAccept
          <6> QED BY <3>1, <3>2, <6>1 DEF Adding
        <5>2. IsFiniteSet(Adding(l)) /\ Cardinality(Adding(l)) \in Nat BY <1>0, Terms
        <5> QED BY <5>1, <5>2, OneOut
      <4>3. /\ Cardinality(Unsent(l)') = Cardinality(Unsent(l)) + 0
            /\ Asked(l)' = Asked(l) + 0
        BY <1>0, <3>2, <3>4, Terms DEF CallsStill
      <4>4. ref'[l] = ref[l] + 0 + (0 - 1) + 0 + 0 BY <3>2, <3>3
      <4> QED BY <1>0, <3>2, <4>1, <4>2, <4>3, <4>4, Balance
    <3> QED BY <1>0, <3>1, <3>5, <3>6, AllStill DEF Counted
  <2>6. CASE L!CmdStop(w)
    <3>1. ASSUME NEW k \in Listeners PROVE Still(k) /\ (mem'[k] = "live" => mem[k] = "live")
      <4>1. QueuesStill(k)
        <5>1. QueueTaken(w) /\ Head(queue[w]).cmd = "STOP" BY <2>6, TakeForm DEF L!CmdStop
        <5>2. ~Mentions(Head(queue[w]), k) BY <5>1 DEF Mentions, Counting
        <5> QED BY <1>0, <5>1, <5>2, TakenStill
      <4>2. AcceptsStill(k)
        BY <2>6, SameAccepts DEF L!CmdStop
      <4>3. CallsStill(k)
        BY <2>6, SameCalls DEF L!CmdStop
      <4>4. ref'[k] = ref[k] /\ (mem'[k] = "live" => mem[k] = "live")
        BY <1>0, <2>6 DEF L!CmdStop, L!TypeOK
      <4> QED BY <4>1, <4>2, <4>3, <4>4 DEF Still
    <3> QED BY <1>0, <3>1, AllStill DEF Counted
  <2> QED BY <1>5, <2>1, <2>2, <2>3, <2>4, <2>5, <2>6 DEF L!Commanded
<1>6. CASE L!Free
  <2>1. CASE L!FreeStart
    <3>1. ASSUME NEW k \in Listeners PROVE Still(k) /\ (mem'[k] = "live" => mem[k] = "live")
      <4>1. QueuesStill(k)
        BY <1>0, <2>1, StopsStill DEF L!FreeStart
      <4>2. AcceptsStill(k)
        BY <2>1, SameAccepts DEF L!FreeStart
      <4>3. CallsStill(k)
        BY <2>1, SameCalls DEF L!FreeStart
      <4>4. ref'[k] = ref[k] /\ (mem'[k] = "live" => mem[k] = "live")
        BY <1>0, <2>1 DEF L!FreeStart, L!TypeOK
      <4> QED BY <4>1, <4>2, <4>3, <4>4 DEF Still
    <3> QED BY <1>0, <3>1, AllStill DEF Counted
  <2>2. CASE L!FreeAll
    <3>1. ASSUME NEW k \in Listeners PROVE Still(k) /\ (mem'[k] = "live" => mem[k] = "live")
      <4>1. QueuesStill(k)
        BY <2>2, SameQueues DEF QueuesSame, L!FreeAll
      <4>2. AcceptsStill(k)
        BY <2>2, SameAccepts DEF L!FreeAll
      <4>3. CallsStill(k)
        BY <2>2, SameCalls DEF L!FreeAll
      <4>4. ref'[k] = ref[k] /\ (mem'[k] = "live" => mem[k] = "live")
        BY <1>0, <2>2 DEF L!FreeAll, L!TypeOK
      <4> QED BY <4>1, <4>2, <4>3, <4>4 DEF Still
    <3> QED BY <1>0, <3>1, AllStill DEF Counted
  <2>3. ASSUME NEW w \in Watchers, L!Exit(w) PROVE Counted'
    <3>1. ASSUME NEW k \in Listeners PROVE Still(k) /\ (mem'[k] = "live" => mem[k] = "live")
      <4>1. QueuesStill(k)
        BY <2>3, SameQueues DEF QueuesSame, L!Exit
      <4>2. AcceptsStill(k)
        BY <2>3, SameAccepts DEF L!Exit
      <4>3. CallsStill(k)
        BY <2>3, SameCalls DEF L!Exit
      <4>4. ref'[k] = ref[k] /\ (mem'[k] = "live" => mem[k] = "live")
        BY <1>0, <2>3 DEF L!Exit, L!TypeOK
      <4> QED BY <4>1, <4>2, <4>3, <4>4 DEF Still
    <3> QED BY <1>0, <3>1, AllStill DEF Counted
  <2>4. ASSUME NEW w \in Watchers, L!Drain(w) PROVE Counted'
    <3>40. PICK l : l = Head(queue[w]).lsn OBVIOUS
    <3> USE <3>40
    <3>1. QueueTaken(w) /\ UNCHANGED <<accept, call, remove, on>> BY <2>4 DEF L!Drain, QueueTaken
    <3>2. ASSUME NEW k \in Listeners PROVE CallsStill(k) /\ AcceptsStill(k)
      BY <3>1, SameCalls, SameAccepts
    <3>3. CASE Head(queue[w]).cmd \in Counting
      <4>1. l \in Listeners /\ mem[l] = "live" /\ ref[l] \in Nat
        BY <3>1, <3>3, Heads DEF QueueTaken
      <4>2. /\ ref' = [ref EXCEPT ![l] = ref[l] - 1]
            /\ mem' = IF ref[l] = 1 THEN [mem EXCEPT ![l] = "freed"] ELSE mem
        BY <2>4, <3>3 DEF L!Drain, Counting
      <4>3. \A k : Mentions(Head(queue[w]), k) <=> k = l BY <3>3 DEF Mentions
      <4>4. ref'[l] = ref[l] - 1 /\ \A k \in Listeners : k # l => ref'[k] = ref[k]
        BY <1>0, <4>1, <4>2 DEF L!TypeOK
      <4>5. \A k \in Listeners : mem'[k] = "live" => mem[k] = "live"
        BY <1>0, <4>1, <4>2 DEF L!TypeOK
      <4>6. ASSUME NEW k \in Listeners, k # l PROVE Still(k)
        BY <1>0, <3>1, <3>2, <4>3, <4>4, <4>6, TakenStill DEF Still
      <4>7. ref'[l] = Refs(l)'
        <5>1. /\ Cardinality(InQueues(l)') \in Nat
              /\ Cardinality(InQueues(l)) = Cardinality(InQueues(l)') + 1
          BY <1>0, <3>1, <4>3, CountTaken
        <5>2. /\ Cardinality(Adding(l)) \in Nat /\ Cardinality(Unsent(l)) \in Nat
              /\ Asked(l) \in Nat
          BY <1>0, Terms
        <5>3. Adding(l)' = Adding(l) /\ Unsent(l)' = Unsent(l) /\ Asked(l)' = Asked(l)
          BY <3>2, <4>1 DEF CallsStill, AcceptsStill
        <5>4. /\ Cardinality(InQueues(l)') = Cardinality(InQueues(l)) + (0 - 1)
              /\ Cardinality(Adding(l)') = Cardinality(Adding(l)) + 0
              /\ Cardinality(Unsent(l)') = Cardinality(Unsent(l)) + 0
              /\ Asked(l)' = Asked(l) + 0
              /\ ref'[l] = ref[l] + (0 - 1) + 0 + 0 + 0
          BY <4>1, <4>4, <5>1, <5>2, <5>3
        <5> QED BY <1>0, <4>1, <5>4, Balance
      <4> QED BY <1>0, <4>5, <4>6, <4>7, AllStill DEF Counted
    <3>4. CASE Head(queue[w]).cmd \notin Counting
      <4>1. UNCHANGED <<ref, mem>> BY <2>4, <3>4 DEF L!Drain, Counting
      <4>2. ASSUME NEW k \in Listeners PROVE Still(k)
        BY <1>0, <3>1, <3>2, <3>4, <4>1, TakenStill DEF Still, Mentions
      <4> QED BY <1>0, <4>1, <4>2, AllStill DEF Counted
    <3> QED BY <3>3, <3>4
  <2>5. ASSUME NEW w \in Watchers, L!Flush(w) PROVE Counted'
    <3>1. ASSUME NEW k \in Listeners PROVE Still(k) /\ (mem'[k] = "live" => mem[k] = "live")
      <4>1. QueuesStill(k)
        BY <2>5, SameQueues DEF QueuesSame, L!Flush
      <4>2. AcceptsStill(k)
        BY <2>5, SameAccepts DEF L!Flush
      <4>3. CallsStill(k)
        BY <2>5, SameCalls DEF L!Flush
      <4>4. ref'[k] = ref[k] /\ (mem'[k] = "live" => mem[k] = "live")
        BY <1>0, <2>5 DEF L!Flush, L!TypeOK
      <4> QED BY <4>1, <4>2, <4>3, <4>4 DEF Still
    <3> QED BY <1>0, <3>1, AllStill DEF Counted
  <2> QED BY <1>6, <2>1, <2>2, <2>3, <2>4, <2>5 DEF L!Free
<1>7. CASE UNCHANGED L!vars
  <2>1. ASSUME NEW k \in Listeners PROVE Still(k) /\ mem'[k] = mem[k]
    <3>1. QueuesStill(k) BY <1>7, SameQueues DEF QueuesSame, L!vars
    <3>2. AcceptsStill(k) BY <1>7, SameAccepts DEF L!vars
    <3>3. CallsStill(k) BY <1>7, SameCalls DEF L!vars
    <3> QED BY <1>7, <3>1, <3>2, <3>3 DEF Still, L!vars
  <2> QED BY <1>0, <2>1, AllStill DEF Counted
<1> QED BY <1>1, <1>2, <1>3, <1>4, <1>5, <1>6, <1>7 DEF L!Next

-----------------------------------------------------------------------------
(* The quarantine is long enough *)

InQtn(k) == \E u \in Watchers : k \in qtn[u]
Reads(v, k) == k \in lsn_batch[v] \/ accept[v].lsn = k
LineBy(v, k, left) ==
  v \notin exited' => \A i \in DOMAIN queue'[v] : queue'[v][i].lsn = k => i <= left[k][v]

\* The readers and the queues of what is in quarantine already.
ReadsIn == \A k \in Listeners : \A v \in Watchers : InQtn(k) => (Reads(v, k)' => v \in busy'[k])
LinesIn(left) == \A k \in Listeners : \A v \in Watchers : InQtn(k) => LineBy(v, k, left)

\* What the invariant says of a listener in quarantine.
LEMMA GraceSaid ==
  ASSUME LisInv, NEW k \in Listeners, NEW v \in Watchers, InQtn(k)
  PROVE  /\ Reads(v, k) => v \in busy[k]
         /\ v \notin exited => \A i \in DOMAIN queue[v] : queue[v][i].lsn = k => i <= ahead[k][v]
         /\ mem[k] = "live" /\ ~Used(k)
<1>1. mem[k] = "live"
  <2>1. Leads(k) BY DEF InQtn, Leads, L!ReadBy
  <2> QED BY <2>1 DEF LisInv, Reached
<1>2. ~Used(k) BY <1>1, InUse DEF InQtn
<1> QED BY <1>1, <1>2 DEF LisInv, Grace, InQtn, Reads

\* Nothing new is in quarantine.
LEMMA GraceStill ==
  ASSUME LisInv, \A k \in Listeners : InQtn(k)' => InQtn(k), ReadsIn, LinesIn(ahead')
  PROVE  Grace'
<1>1. ASSUME NEW k \in Listeners, NEW w \in Watchers, k \in qtn'[w], NEW v \in Watchers
      PROVE  /\ k \in lsn_batch'[v] \/ accept'[v].lsn = k => v \in busy'[k]
             /\ v \notin exited' =>
                  \A i \in DOMAIN queue'[v] : queue'[v][i].lsn = k => i <= ahead'[k][v]
  <2>1. InQtn(k) BY <1>1 DEF InQtn
  <2> QED BY <2>1 DEF ReadsIn, LinesIn, Reads, LineBy
<1> QED BY <1>1 DEF Grace

LEMMA SameQtn ==
  ASSUME qtn' = qtn
  PROVE  \A k \in Listeners : InQtn(k)' => InQtn(k)
BY DEF InQtn

\* Who reads, in a step that adds no reader,
LEMMA ReadsFew ==
  ASSUME LisInv, busy' = busy,
         \A v \in Watchers : \A k \in Listeners : Reads(v, k)' => Reads(v, k)
  PROVE  ReadsIn
BY GraceSaid DEF ReadsIn

\* as the steps of the accept path are,
LEMMA ReadsSame ==
  ASSUME lsn_batch' = lsn_batch,
         \A v \in Watchers : accept'[v] = accept[v] \/ accept'[v].lsn = accept[v].lsn
                             \/ accept'[v] = L!NoAccept
  PROVE  \A v \in Watchers : \A k \in Listeners : Reads(v, k)' => Reads(v, k)
BY LisSetting DEF Reads, L!NoAccept

\* and what is ahead in a step that leaves the queues alone,
LEMMA LinesSame ==
  ASSUME LisInv, queue' = queue, exited \subseteq exited'
  PROVE  LinesIn(ahead)
BY GraceSaid DEF LinesIn, LineBy

\* that sends,
LEMMA LinesSent ==
  ASSUME LisInv, NEW w \in Watchers, NEW c \in Cmds, QueueSent(w, c), exited' = exited,
         c.lsn \in Listeners => Used(c.lsn)
  PROVE  LinesIn(ahead)
<1>1. ASSUME NEW k \in Listeners, NEW v \in Watchers, InQtn(k), v \notin exited',
             NEW i \in DOMAIN queue'[v], queue'[v][i].lsn = k
      PROVE  i <= ahead[k][v]
  <2>1. c.lsn # k BY <1>1, GraceSaid
  <2>2. i \in DOMAIN queue[v] /\ queue'[v][i] = queue[v][i]
    BY <1>1, <2>1, SentMembers DEF LisInv
  <2> QED BY <1>1, <2>2, GraceSaid
<1> QED BY <1>1 DEF LinesIn, LineBy

\* or that takes.
LEMMA LinesTaken ==
  ASSUME LisInv, NEW w \in Watchers, QueueTaken(w), exited' = exited
  PROVE  LinesIn(L!OneLess(w))
<1>0. L!TypeOK BY DEF LisInv
<1>1. ASSUME NEW k \in Listeners, NEW v \in Watchers, InQtn(k), v \notin exited',
             NEW i \in DOMAIN queue'[v], queue'[v][i].lsn = k
      PROVE  i <= L!OneLess(w)[k][v]
  <2>1. ahead[k] \in [Watchers -> Nat] BY <1>0 DEF L!TypeOK
  <2>2. CASE v # w
    <3>1. L!OneLess(w)[k][v] = ahead[k][v] BY <2>1, <2>2 DEF L!OneLess
    <3>2. queue'[v] = queue[v] BY <1>0, <2>2, TakenMembers
    <3> QED BY <1>1, <3>1, <3>2, GraceSaid
  <2>3. CASE v = w
    <3>1. i \in Nat /\ i + 1 \in DOMAIN queue[v] /\ queue'[v][i] = queue[v][i + 1]
      BY <1>0, <1>1, <2>3, TakenMembers
    <3>2. i + 1 <= ahead[k][v] BY <1>1, <3>1, GraceSaid
    <3>3. L!OneLess(w)[k][v] = IF ahead[k][v] = 0 THEN 0 ELSE ahead[k][v] - 1
      BY <2>1, <2>3 DEF L!OneLess
    <3> QED BY <2>1, <3>1, <3>2, <3>3
  <2> QED BY <2>2, <2>3
<1> QED BY <1>1 DEF LinesIn, LineBy

\* The last reference goes: whoever may read has not exited, and all queues are counted.
LEMMA UnrefGrace ==
  ASSUME LisInv, L!TypeOK', NEW w \in Watchers, NEW l \in Listeners, mem[l] = "live", Used(l),
         NEW left, left \in [Listeners -> [Watchers -> Nat]], L!Unref(w, l, left),
         exited' = exited, LinesIn(left),
         \A v \in Watchers : \A k \in Listeners : Reads(v, k)' => Reads(v, k)
  PROVE  Grace'
<1>0. L!TypeOK BY DEF LisInv
<1>1. CASE ref[l] # 1
  <2>1. ahead' = left /\ qtn' = qtn /\ busy' = busy BY <1>1 DEF L!Unref
  <2> QED BY <2>1, GraceStill, SameQtn, ReadsFew
<1>2. CASE ref[l] = 1
  <2>1. /\ qtn'[w] = qtn[w] \cup {l} /\ \A v \in Watchers : v # w => qtn'[v] = qtn[v]
        /\ busy'[l] = Watchers \ exited /\ \A k \in Listeners : k # l => busy'[k] = busy[k]
    BY <1>0, <1>2 DEF L!Unref, L!TypeOK
  <2>2. /\ \A v \in Watchers : ahead'[l][v] = Len(queue'[v])
        /\ \A k \in Listeners : k # l => ahead'[k] = left[k]
    BY <1>2 DEF L!Unref
  <2>3. ASSUME NEW k \in Listeners, NEW u \in Watchers, k \in qtn'[u], NEW v \in Watchers
        PROVE  /\ k \in lsn_batch'[v] \/ accept'[v].lsn = k => v \in busy'[k]
               /\ v \notin exited' =>
                    \A i \in DOMAIN queue'[v] : queue'[v][i].lsn = k => i <= ahead'[k][v]
    <3>1. CASE k # l
      <4>1. InQtn(k) BY <2>1, <2>3, <3>1 DEF InQtn
      <4>2. Reads(v, k)' => v \in busy'[k] BY <2>1, <3>1, <4>1, GraceSaid
      <4>3. LineBy(v, k, left) BY <4>1 DEF LinesIn
      <4>4. ahead'[k][v] = left[k][v] BY <2>2, <3>1
      <4> QED BY <4>2, <4>3, <4>4 DEF Reads, LineBy
    <3>2. CASE k = l
      <4>1. Reads(v, l) => v \notin exited
        BY LisSetting DEF LisInv, Outside, Reads, L!NoAccept
      <4>2. Reads(v, l)' => v \in busy'[l] BY <2>1, <4>1
      <4>3. queue'[v] \in Seq(Cmds) BY DEF L!TypeOK, Cmds
      <4>4. \A i \in DOMAIN queue'[v] : i <= Len(queue'[v]) BY <4>3
      <4>5. ahead'[l][v] = Len(queue'[v]) BY <2>2
      <4> QED BY <3>2, <4>2, <4>4, <4>5 DEF Reads
    <3> QED BY <3>1, <3>2
  <2> QED BY <2>3 DEF Grace
<1> QED BY <1>1, <1>2

\* The quarantine waits for every reader.
LEMMA GraceStep ==
  ASSUME LisInv, [L!Next]_(L!vars)
  PROVE  Grace'
<1> USE DEF L!lsnsock, L!grace, L!ending
<1>0. LisInv /\ L!TypeOK /\ L!TypeOK' BY TypeStep DEF LisInv
<1>1. ASSUME NEW a \in L!Actors, L!Listen(a) PROVE Grace'
  <2>1. ASSUME NEW l \in Listeners, NEW ws \in (SUBSET Watchers) \ {{}},
               L!ListenStart(a, l, ws)
        PROVE Grace'
    <3>1. \A k \in Listeners : InQtn(k)' => InQtn(k) BY <2>1, SameQtn DEF L!ListenStart
    <3>2. ReadsIn
      <4>1. \A v \in Watchers : \A k \in Listeners : Reads(v, k)' => Reads(v, k)
        BY <2>1, ReadsSame DEF L!ListenStart
      <4>2. busy' = busy BY <2>1 DEF L!ListenStart
      <4> QED BY <1>0, <4>1, <4>2, ReadsFew
    <3>3. LinesIn(ahead')
      <4>1. LinesIn(ahead) BY <1>0, <2>1, LinesSame DEF L!ListenStart
      <4>2. ahead' = ahead BY <2>1 DEF L!ListenStart
      <4> QED BY <4>1, <4>2
    <3> QED BY <1>0, <3>1, <3>2, <3>3, GraceStill
  <2>2. ASSUME NEW w \in Watchers, L!ListenSend(a, w) PROVE Grace'
    <3>5. PICK l, c : l = Callee(a) /\ c = L!Cmd("LSN", l) OBVIOUS
    <3>6. l \in Listeners /\ mem[l] = "live" /\ Used(l)
      <4>1. InCall(a) BY <2>2 DEF L!ListenSend, InCall
      <4> QED BY <1>0, <3>5, <4>1, Calling DEF InCall, Callee
    <3>7. CASE a # w
      <4>10. \A k \in Listeners : InQtn(k)' => InQtn(k) BY <2>2, <3>7, SameQtn DEF L!ListenSend
      <4>11. ReadsIn
        <5>1. \A v \in Watchers : \A k \in Listeners : Reads(v, k)' => Reads(v, k)
          BY <2>2, ReadsSame DEF L!ListenSend
        <5>2. busy' = busy BY <2>2, <3>7 DEF L!ListenSend
        <5> QED BY <1>0, <5>1, <5>2, ReadsFew
      <4>1. QueueSent(w, c) BY <2>2, <3>5, <3>7, SendForm DEF L!ListenSend, Callee
      <4>2. c \in Cmds /\ c.lsn = l BY <3>5, <3>6, CmdNames
      <4>3. LinesIn(ahead) BY <1>0, <2>2, <3>6, <4>1, <4>2, LisSetting, LinesSent DEF L!ListenSend
      <4>4. ahead' = ahead BY <2>2, <3>7 DEF L!ListenSend
      <4> QED BY <1>0, <4>10, <4>11, <4>3, <4>4, GraceStill
    <3>8. CASE a = w
      <4>1. \A k \in Listeners : InQtn(k)' => InQtn(k) BY <2>2, SameQtn DEF L!ListenSend
      <4>2. ReadsIn
        <5>1. \A v \in Watchers : \A k \in Listeners : Reads(v, k)' => Reads(v, k)
          BY <2>2, ReadsSame DEF L!ListenSend
        <5>2. busy' = busy BY <2>2 DEF L!ListenSend
        <5> QED BY <1>0, <5>1, <5>2, ReadsFew
      <4>3. LinesIn(ahead) BY <1>0, <2>2, <3>8, LinesSame DEF L!ListenSend
      <4>4. ahead' = ahead BY <2>2 DEF L!ListenSend
      <4> QED BY <1>0, <4>1, <4>2, <4>3, <4>4, GraceStill
    <3> QED BY <3>7, <3>8
  <2>3. CASE L!ListenEnd(a)
    <3>1. \A k \in Listeners : InQtn(k)' => InQtn(k) BY <2>3, SameQtn DEF L!ListenEnd
    <3>2. ReadsIn
      <4>1. \A v \in Watchers : \A k \in Listeners : Reads(v, k)' => Reads(v, k)
        BY <2>3, ReadsSame DEF L!ListenEnd
      <4>2. busy' = busy BY <2>3 DEF L!ListenEnd
      <4> QED BY <1>0, <4>1, <4>2, ReadsFew
    <3>3. LinesIn(ahead')
      <4>1. LinesIn(ahead) BY <1>0, <2>3, LinesSame DEF L!ListenEnd
      <4>2. ahead' = ahead BY <2>3 DEF L!ListenEnd
      <4> QED BY <4>1, <4>2
    <3> QED BY <1>0, <3>1, <3>2, <3>3, GraceStill
  <2> QED BY <1>1, <2>1, <2>2, <2>3 DEF L!Listen
<1>2. ASSUME NEW a \in L!Actors, L!Unlisten(a) PROVE Grace'
  <2>1. ASSUME NEW l \in Listeners, L!UnlistenTake(a, l) PROVE Grace'
    <3>1. \A k \in Listeners : InQtn(k)' => InQtn(k) BY <2>1, SameQtn DEF L!UnlistenTake
    <3>2. ReadsIn
      <4>1. \A v \in Watchers : \A k \in Listeners : Reads(v, k)' => Reads(v, k)
        BY <2>1, ReadsSame DEF L!UnlistenTake
      <4>2. busy' = busy BY <2>1 DEF L!UnlistenTake
      <4> QED BY <1>0, <4>1, <4>2, ReadsFew
    <3>3. LinesIn(ahead')
      <4>1. LinesIn(ahead) BY <1>0, <2>1, LinesSame DEF L!UnlistenTake
      <4>2. ahead' = ahead BY <2>1 DEF L!UnlistenTake
      <4> QED BY <4>1, <4>2
    <3> QED BY <1>0, <3>1, <3>2, <3>3, GraceStill
  <2>2. ASSUME NEW w \in Watchers, L!UnlistenSend(a, w) PROVE Grace'
    <3>5. PICK l, c : l = Callee(a) /\ c = L!Cmd("UNLSN", l) OBVIOUS
    <3>6. l \in Listeners /\ mem[l] = "live" /\ Used(l)
      <4>1. InCall(a) BY <2>2 DEF L!UnlistenSend, InCall
      <4> QED BY <1>0, <3>5, <4>1, Calling DEF InCall, Callee
    <3>7. CASE a # w
      <4>10. \A k \in Listeners : InQtn(k)' => InQtn(k) BY <2>2, <3>7, SameQtn DEF L!UnlistenSend
      <4>11. ReadsIn
        <5>1. \A v \in Watchers : \A k \in Listeners : Reads(v, k)' => Reads(v, k)
          BY <2>2, ReadsSame DEF L!UnlistenSend
        <5>2. busy' = busy BY <2>2, <3>7 DEF L!UnlistenSend
        <5> QED BY <1>0, <5>1, <5>2, ReadsFew
      <4>1. QueueSent(w, c) BY <2>2, <3>5, <3>7, SendForm DEF L!UnlistenSend, Callee
      <4>2. c \in Cmds /\ c.lsn = l BY <3>5, <3>6, CmdNames
      <4>3. LinesIn(ahead) BY <1>0, <2>2, <3>6, <4>1, <4>2, LisSetting, LinesSent DEF L!UnlistenSend
      <4>4. ahead' = ahead BY <2>2, <3>7 DEF L!UnlistenSend
      <4> QED BY <1>0, <4>10, <4>11, <4>3, <4>4, GraceStill
    <3>8. CASE a = w
      <4>1. L!Unref(w, l, ahead) BY <2>2, <3>5, <3>8 DEF L!UnlistenSend, L!RemoveLsn, Callee
      <4>2. LinesIn(ahead) BY <1>0, <2>2, <3>8, LinesSame DEF L!UnlistenSend
      <4>3. \A v \in Watchers : \A k \in Listeners : Reads(v, k)' => Reads(v, k)
        BY <2>2, ReadsSame DEF L!UnlistenSend
      <4>4. ahead \in [Listeners -> [Watchers -> Nat]] BY <1>0 DEF L!TypeOK
      <4>5. exited' = exited BY <2>2 DEF L!UnlistenSend
      <4> QED BY <1>0, <3>6, <4>1, <4>2, <4>3, <4>4, <4>5, LisSetting, UnrefGrace
    <3> QED BY <3>7, <3>8
  <2>3. CASE L!UnlistenMark(a)
    <3>1. \A k \in Listeners : InQtn(k)' => InQtn(k) BY <2>3, SameQtn DEF L!UnlistenMark
    <3>2. ReadsIn
      <4>1. \A v \in Watchers : \A k \in Listeners : Reads(v, k)' => Reads(v, k)
        BY <2>3, ReadsSame DEF L!UnlistenMark
      <4>2. busy' = busy BY <2>3 DEF L!UnlistenMark
      <4> QED BY <1>0, <4>1, <4>2, ReadsFew
    <3>3. LinesIn(ahead')
      <4>1. LinesIn(ahead) BY <1>0, <2>3, LinesSame DEF L!UnlistenMark
      <4>2. ahead' = ahead BY <2>3 DEF L!UnlistenMark
      <4> QED BY <4>1, <4>2
    <3> QED BY <1>0, <3>1, <3>2, <3>3, GraceStill
  <2>4. CASE L!UnlistenEnd(a)
    <3>5. PICK l, c : l = Callee(a) /\ c = L!Cmd("LSN_UNREF", l) OBVIOUS
    <3>6. l \in Listeners /\ mem[l] = "live" /\ Used(l)
      <4>1. InCall(a) BY <2>4 DEF L!UnlistenEnd, InCall
      <4> QED BY <1>0, <3>5, <4>1, Calling DEF InCall, Callee
    <3>7. CASE a # Zero
      <4>10. \A k \in Listeners : InQtn(k)' => InQtn(k) BY <2>4, <3>7, SameQtn DEF L!UnlistenEnd
      <4>11. ReadsIn
        <5>1. \A v \in Watchers : \A k \in Listeners : Reads(v, k)' => Reads(v, k)
          BY <2>4, ReadsSame DEF L!UnlistenEnd
        <5>2. busy' = busy BY <2>4, <3>7 DEF L!UnlistenEnd
        <5> QED BY <1>0, <5>1, <5>2, ReadsFew
      <4>1. QueueSent(Zero, c) BY <2>4, <3>5, <3>7, SendForm DEF L!UnlistenEnd, Callee
      <4>2. c \in Cmds /\ c.lsn = l BY <3>5, <3>6, CmdNames
      <4>3. LinesIn(ahead) BY <1>0, <2>4, <3>6, <4>1, <4>2, LisSetting, LinesSent DEF L!UnlistenEnd
      <4>4. ahead' = ahead BY <2>4, <3>7 DEF L!UnlistenEnd
      <4> QED BY <1>0, <4>10, <4>11, <4>3, <4>4, GraceStill
    <3>8. CASE a = Zero
      <4>1. L!Unref(Zero, l, ahead) BY <2>4, <3>5, <3>8 DEF L!UnlistenEnd, Callee
      <4>2. LinesIn(ahead) BY <1>0, <2>4, <3>8, LinesSame DEF L!UnlistenEnd
      <4>3. \A v \in Watchers : \A k \in Listeners : Reads(v, k)' => Reads(v, k)
        BY <2>4, ReadsSame DEF L!UnlistenEnd
      <4>4. ahead \in [Listeners -> [Watchers -> Nat]] BY <1>0 DEF L!TypeOK
      <4>5. exited' = exited BY <2>4 DEF L!UnlistenEnd
      <4> QED BY <1>0, <3>6, <4>1, <4>2, <4>3, <4>4, <4>5, LisSetting, UnrefGrace
    <3> QED BY <3>7, <3>8
  <2> QED BY <1>2, <2>1, <2>2, <2>3, <2>4 DEF L!Unlisten
<1>3. ASSUME NEW w \in Watchers, L!Loop(w) PROVE Grace'
  <2>1. CASE L!Poll(w)
    <3>1. \A k \in Listeners : InQtn(k)' => InQtn(k) BY <2>1, SameQtn DEF L!Poll
    <3>2. ReadsIn
      <4>1. /\ w \notin exited /\ accept[w] = L!NoAccept /\ accept' = accept
            /\ \A k \in Listeners : k \in lsn_batch'[w] => w \in reg[k]
            /\ \A v \in Watchers : v # w => lsn_batch'[v] = lsn_batch[v]
            /\ \A k \in Listeners : busy'[k] = busy[k] \ {w}
        BY <1>0, <2>1 DEF L!Poll, L!InLoop, L!TypeOK
      <4>2. ASSUME NEW k \in Listeners, NEW v \in Watchers, InQtn(k), Reads(v, k)'
            PROVE  v \in busy'[k]
        <5>1. w \in reg[k] => Used(k) BY <4>1 DEF Used
        <5>2. v # w BY <1>0, <4>1, <4>2, <5>1, GraceSaid, LisSetting DEF Reads, L!NoAccept
        <5>3. Reads(v, k) BY <4>1, <4>2, <5>2 DEF Reads
        <5> QED BY <1>0, <4>1, <4>2, <5>2, <5>3, GraceSaid
      <4> QED BY <4>2 DEF ReadsIn
    <3>3. LinesIn(ahead')
      <4>1. LinesIn(ahead) BY <1>0, <2>1, LinesSame DEF L!Poll
      <4>2. ahead' = ahead BY <2>1 DEF L!Poll
      <4> QED BY <4>1, <4>2
    <3> QED BY <1>0, <3>1, <3>2, <3>3, GraceStill
  <2>2. ASSUME NEW l \in Listeners, L!Dispatch(w, l) PROVE Grace'
    <3>1. \A k \in Listeners : InQtn(k)' => InQtn(k) BY <2>2, SameQtn DEF L!Dispatch
    <3>2. ReadsIn
      <4>1. \A v \in Watchers : \A k \in Listeners : Reads(v, k)' => Reads(v, k)
        <5>1. /\ l \in lsn_batch[w]
              /\ \A v \in Watchers : lsn_batch'[v] \subseteq lsn_batch[v]
              /\ \A v \in Watchers : v # w => accept'[v] = accept[v]
              /\ accept'[w] = accept[w] \/ accept'[w].lsn = l
          BY <1>0, <2>2 DEF L!Dispatch, L!TypeOK
        <5> QED BY <5>1 DEF Reads
      <4>2. busy' = busy BY <2>2 DEF L!Dispatch
      <4> QED BY <1>0, <4>1, <4>2, ReadsFew
    <3>3. LinesIn(ahead')
      <4>1. LinesIn(ahead) BY <1>0, <2>2, LinesSame DEF L!Dispatch
      <4>2. ahead' = ahead BY <2>2 DEF L!Dispatch
      <4> QED BY <4>1, <4>2
    <3> QED BY <1>0, <3>1, <3>2, <3>3, GraceStill
  <2>3. ASSUME NEW l \in Listeners, L!BackoffOver(w, l) PROVE Grace'
    <3>1. \A k \in Listeners : InQtn(k)' => InQtn(k) BY <2>3, SameQtn DEF L!BackoffOver
    <3>2. ReadsIn
      <4>1. \A v \in Watchers : \A k \in Listeners : Reads(v, k)' => Reads(v, k)
        BY <2>3, ReadsSame DEF L!BackoffOver
      <4>2. busy' = busy BY <2>3 DEF L!BackoffOver
      <4> QED BY <1>0, <4>1, <4>2, ReadsFew
    <3>3. LinesIn(ahead')
      <4>1. LinesIn(ahead) BY <1>0, <2>3, LinesSame DEF L!BackoffOver
      <4>2. ahead' = ahead BY <2>3 DEF L!BackoffOver
      <4> QED BY <4>1, <4>2
    <3> QED BY <1>0, <3>1, <3>2, <3>3, GraceStill
  <2>4. ASSUME NEW l \in Listeners, L!Release(w, l) PROVE Grace'
    <3>1. \A v \in Watchers : qtn'[v] \subseteq qtn[v] BY <1>0, <2>4 DEF L!Release, L!TypeOK
    <3>2. \A k \in Listeners : InQtn(k)' => InQtn(k) BY <3>1 DEF InQtn
    <3>3. ReadsIn
      <4>1. \A v \in Watchers : \A k \in Listeners : Reads(v, k)' => Reads(v, k)
        BY <2>4, ReadsSame DEF L!Release
      <4>2. busy' = busy BY <2>4 DEF L!Release
      <4> QED BY <1>0, <4>1, <4>2, ReadsFew
    <3>4. LinesIn(ahead')
      <4>1. LinesIn(ahead) BY <1>0, <2>4, LinesSame DEF L!Release
      <4>2. ahead' = ahead BY <2>4 DEF L!Release
      <4> QED BY <4>1, <4>2
    <3> QED BY <1>0, <3>2, <3>3, <3>4, GraceStill
  <2> QED BY <1>3, <2>1, <2>2, <2>3, <2>4 DEF L!Loop
<1>4. ASSUME NEW w \in Watchers, L!Accept(w) PROVE Grace'
  <2>1. CASE L!AcceptOne(w)
    <3>1. \A k \in Listeners : InQtn(k)' => InQtn(k) BY <2>1, SameQtn DEF L!AcceptOne
    <3>2. ReadsIn
      <4>1. \A v \in Watchers : accept'[v].lsn = accept[v].lsn \/ accept'[v] = L!NoAccept
        <5>1. PICK at : L!AcceptTo(w, at) /\ accept[w].at \in L!Phases
          BY <2>1, AcceptFrom DEF L!AcceptOne, L!Phases
        <5>2. /\ accept'[w] = [lsn |-> accept[w].lsn, at |-> at]
              /\ \A v \in Watchers : v # w => accept'[v] = accept[v]
          BY <1>0, <5>1, AcceptGoes
        <5>3. accept'[w].lsn = accept[w].lsn BY <5>2
        <5> QED BY <5>2, <5>3
      <4>2. \A v \in Watchers : \A k \in Listeners : Reads(v, k)' => Reads(v, k)
        BY <2>1, <4>1, ReadsSame DEF L!AcceptOne
      <4>3. busy' = busy BY <2>1 DEF L!AcceptOne
      <4> QED BY <1>0, <4>2, <4>3, ReadsFew
    <3>3. LinesIn(ahead')
      <4>1. LinesIn(ahead) BY <1>0, <2>1, LinesSame DEF L!AcceptOne
      <4>2. ahead' = ahead BY <2>1 DEF L!AcceptOne
      <4> QED BY <4>1, <4>2
    <3> QED BY <1>0, <3>1, <3>2, <3>3, GraceStill
  <2>2. CASE L!AcceptOwn(w)
    <3>1. \A k \in Listeners : InQtn(k)' => InQtn(k) BY <2>2, SameQtn DEF L!AcceptOwn
    <3>2. ReadsIn
      <4>1. \A v \in Watchers : accept'[v].lsn = accept[v].lsn \/ accept'[v] = L!NoAccept
        <5>1. PICK at : L!AcceptTo(w, at) /\ accept[w].at \in L!Phases
          BY <2>2, AcceptFrom DEF L!AcceptOwn, L!Phases
        <5>2. /\ accept'[w] = [lsn |-> accept[w].lsn, at |-> at]
              /\ \A v \in Watchers : v # w => accept'[v] = accept[v]
          BY <1>0, <5>1, AcceptGoes
        <5>3. accept'[w].lsn = accept[w].lsn BY <5>2
        <5> QED BY <5>2, <5>3
      <4>2. \A v \in Watchers : \A k \in Listeners : Reads(v, k)' => Reads(v, k)
        BY <2>2, <4>1, ReadsSame DEF L!AcceptOwn
      <4>3. busy' = busy BY <2>2 DEF L!AcceptOwn
      <4> QED BY <1>0, <4>2, <4>3, ReadsFew
    <3>3. LinesIn(ahead')
      <4>1. LinesIn(ahead) BY <1>0, <2>2, LinesSame DEF L!AcceptOwn
      <4>2. ahead' = ahead BY <2>2 DEF L!AcceptOwn
      <4> QED BY <4>1, <4>2
    <3> QED BY <1>0, <3>1, <3>2, <3>3, GraceStill
  <2>3. CASE L!AcceptBack(w)
    <3>1. \A k \in Listeners : InQtn(k)' => InQtn(k) BY <2>3, SameQtn DEF L!AcceptBack
    <3>2. ReadsIn
      <4>1. \A v \in Watchers : accept'[v].lsn = accept[v].lsn \/ accept'[v] = L!NoAccept
        <5>1. PICK at : L!AcceptTo(w, at) /\ accept[w].at \in L!Phases
          BY <2>3, AcceptFrom DEF L!AcceptBack, L!Phases
        <5>2. /\ accept'[w] = [lsn |-> accept[w].lsn, at |-> at]
              /\ \A v \in Watchers : v # w => accept'[v] = accept[v]
          BY <1>0, <5>1, AcceptGoes
        <5>3. accept'[w].lsn = accept[w].lsn BY <5>2
        <5> QED BY <5>2, <5>3
      <4>2. \A v \in Watchers : \A k \in Listeners : Reads(v, k)' => Reads(v, k)
        BY <2>3, <4>1, ReadsSame DEF L!AcceptBack
      <4>3. busy' = busy BY <2>3 DEF L!AcceptBack
      <4> QED BY <1>0, <4>2, <4>3, ReadsFew
    <3>3. LinesIn(ahead')
      <4>1. LinesIn(ahead) BY <1>0, <2>3, LinesSame DEF L!AcceptBack
      <4>2. ahead' = ahead BY <2>3 DEF L!AcceptBack
      <4> QED BY <4>1, <4>2
    <3> QED BY <1>0, <3>1, <3>2, <3>3, GraceStill
  <2>4. CASE L!AcceptEnd(w)
    <3>1. \A k \in Listeners : InQtn(k)' => InQtn(k) BY <2>4, SameQtn DEF L!AcceptEnd
    <3>2. ReadsIn
      <4>1. \A v \in Watchers : accept'[v].lsn = accept[v].lsn \/ accept'[v] = L!NoAccept
        BY <1>0, <2>4 DEF L!AcceptEnd, L!TypeOK
      <4>2. \A v \in Watchers : \A k \in Listeners : Reads(v, k)' => Reads(v, k)
        BY <2>4, <4>1, ReadsSame DEF L!AcceptEnd
      <4>3. busy' = busy BY <2>4 DEF L!AcceptEnd
      <4> QED BY <1>0, <4>2, <4>3, ReadsFew
    <3>3. LinesIn(ahead')
      <4>1. LinesIn(ahead) BY <1>0, <2>4, LinesSame DEF L!AcceptEnd
      <4>2. ahead' = ahead BY <2>4 DEF L!AcceptEnd
      <4> QED BY <4>1, <4>2
    <3> QED BY <1>0, <3>1, <3>2, <3>3, GraceStill
  <2>5. CASE L!AcceptPause(w)
    <3>1. \A k \in Listeners : InQtn(k)' => InQtn(k) BY <2>5, SameQtn DEF L!AcceptPause
    <3>2. ReadsIn
      <4>1. \A v \in Watchers : accept'[v].lsn = accept[v].lsn \/ accept'[v] = L!NoAccept
        BY <1>0, <2>5 DEF L!AcceptPause, L!TypeOK
      <4>2. \A v \in Watchers : \A k \in Listeners : Reads(v, k)' => Reads(v, k)
        BY <2>5, <4>1, ReadsSame DEF L!AcceptPause
      <4>3. busy' = busy BY <2>5 DEF L!AcceptPause
      <4> QED BY <1>0, <4>2, <4>3, ReadsFew
    <3>3. LinesIn(ahead')
      <4>1. LinesIn(ahead) BY <1>0, <2>5, LinesSame DEF L!AcceptPause
      <4>2. ahead' = ahead BY <2>5 DEF L!AcceptPause
      <4> QED BY <4>1, <4>2
    <3> QED BY <1>0, <3>1, <3>2, <3>3, GraceStill
  <2>6. CASE L!AcceptLost(w)
    <3>1. \A k \in Listeners : InQtn(k)' => InQtn(k) BY <2>6, SameQtn DEF L!AcceptLost
    <3>2. ReadsIn
      <4>1. \A v \in Watchers : accept'[v].lsn = accept[v].lsn \/ accept'[v] = L!NoAccept
        BY <1>0, <2>6 DEF L!AcceptLost, L!TypeOK
      <4>2. \A v \in Watchers : \A k \in Listeners : Reads(v, k)' => Reads(v, k)
        BY <2>6, <4>1, ReadsSame DEF L!AcceptLost
      <4>3. busy' = busy BY <2>6 DEF L!AcceptLost
      <4> QED BY <1>0, <4>2, <4>3, ReadsFew
    <3>3. LinesIn(ahead')
      <4>1. LinesIn(ahead) BY <1>0, <2>6, LinesSame DEF L!AcceptLost
      <4>2. ahead' = ahead BY <2>6 DEF L!AcceptLost
      <4> QED BY <4>1, <4>2
    <3> QED BY <1>0, <3>1, <3>2, <3>3, GraceStill
  <2>7. ASSUME NEW to \in Watchers, L!AcceptGive(w, to) PROVE Grace'
    <3>1. \A k \in Listeners : InQtn(k)' => InQtn(k) BY <2>7, SameQtn DEF L!AcceptGive
    <3>2. ReadsIn
      <4>1. \A v \in Watchers : accept'[v].lsn = accept[v].lsn \/ accept'[v] = L!NoAccept
        <5>1. PICK at : L!AcceptTo(w, at) /\ accept[w].at \in L!Phases
          BY <2>7, AcceptFrom DEF L!AcceptGive, L!Phases
        <5>2. /\ accept'[w] = [lsn |-> accept[w].lsn, at |-> at]
              /\ \A v \in Watchers : v # w => accept'[v] = accept[v]
          BY <1>0, <5>1, AcceptGoes
        <5>3. accept'[w].lsn = accept[w].lsn BY <5>2
        <5> QED BY <5>2, <5>3
      <4>2. \A v \in Watchers : \A k \in Listeners : Reads(v, k)' => Reads(v, k)
        BY <2>7, <4>1, ReadsSame DEF L!AcceptGive
      <4>3. busy' = busy BY <2>7 DEF L!AcceptGive
      <4> QED BY <1>0, <4>2, <4>3, ReadsFew
    <3>3. LinesIn(ahead')
      <4>1. PICK l, c : l = accept[w].lsn /\ c = L!Cmd("ADDACP", l) OBVIOUS
      <4>2. l \in Listeners /\ Used(l)
        <5>1. accept[w].at = "got" BY <2>7, AcceptFrom
        <5> QED BY <1>0, <4>1, <5>1, AcceptingOn DEF L!Phases, Used
      <4>3. QueueSent(to, c) BY <2>7, <4>1, SendForm DEF L!AcceptGive
      <4>4. c \in Cmds /\ c.lsn = l BY <4>1, <4>2, CmdNames
      <4>5. LinesIn(ahead) BY <1>0, <2>7, <4>2, <4>3, <4>4, LinesSent DEF L!AcceptGive
      <4>6. ahead' = ahead BY <2>7 DEF L!AcceptGive
      <4> QED BY <4>5, <4>6
    <3> QED BY <1>0, <3>1, <3>2, <3>3, GraceStill
  <2> QED BY <1>4, <2>1, <2>2, <2>3, <2>4, <2>5, <2>6, <2>7 DEF L!Accept
<1>5. ASSUME NEW w \in Watchers, L!Commanded(w) PROVE Grace'
  <2>1. CASE L!CmdLsn(w)
    <3>1. \A k \in Listeners : InQtn(k)' => InQtn(k) BY <2>1, SameQtn DEF L!CmdLsn
    <3>2. ReadsIn
      <4>1. \A v \in Watchers : \A k \in Listeners : Reads(v, k)' => Reads(v, k)
        BY <2>1, ReadsSame DEF L!CmdLsn
      <4>2. busy' = busy BY <2>1 DEF L!CmdLsn
      <4> QED BY <1>0, <4>1, <4>2, ReadsFew
    <3>3. LinesIn(ahead')
      <4>1. QueueTaken(w) BY <2>1, TakeForm DEF L!CmdLsn
      <4>2. LinesIn(L!OneLess(w)) BY <1>0, <2>1, <4>1, LinesTaken DEF L!CmdLsn
      <4>3. ahead' = L!OneLess(w) BY <2>1 DEF L!CmdLsn
      <4> QED BY <4>2, <4>3
    <3> QED BY <1>0, <3>1, <3>2, <3>3, GraceStill
  <2>2. CASE L!CmdUnlsn(w)
    <3>5. PICK l : l = Head(queue[w]).lsn OBVIOUS
    <3>1. QueueTaken(w) /\ Head(queue[w]).cmd = "UNLSN" BY <2>2, TakeForm DEF L!CmdUnlsn
    <3>2. l \in Listeners /\ mem[l] = "live" /\ Used(l)
      BY <1>0, <3>1, <3>5, Heads DEF QueueTaken, Counting
    <3>3. L!Unref(w, l, L!OneLess(w)) BY <2>2, <3>5 DEF L!CmdUnlsn, L!RemoveLsn
    <3>4. LinesIn(L!OneLess(w)) BY <1>0, <2>2, <3>1, LinesTaken DEF L!CmdUnlsn
    <3>6. \A v \in Watchers : \A k \in Listeners : Reads(v, k)' => Reads(v, k)
      BY <2>2, ReadsSame DEF L!CmdUnlsn
    <3>7. L!OneLess(w) \in [Listeners -> [Watchers -> Nat]] BY <1>0, QueueTypes
    <3>8. exited' = exited BY <2>2 DEF L!CmdUnlsn
    <3> QED BY <1>0, <3>2, <3>3, <3>4, <3>6, <3>7, <3>8, UnrefGrace
  <2>3. CASE L!CmdLsnUnref(w)
    <3>5. PICK l : l = Head(queue[w]).lsn OBVIOUS
    <3>1. QueueTaken(w) /\ Head(queue[w]).cmd = "LSN_UNREF" BY <2>3, TakeForm DEF L!CmdLsnUnref
    <3>2. l \in Listeners /\ mem[l] = "live" /\ Used(l)
      BY <1>0, <3>1, <3>5, Heads DEF QueueTaken, Counting
    <3>3. L!Unref(w, l, L!OneLess(w)) BY <2>3, <3>5 DEF L!CmdLsnUnref
    <3>4. LinesIn(L!OneLess(w)) BY <1>0, <2>3, <3>1, LinesTaken DEF L!CmdLsnUnref
    <3>6. \A v \in Watchers : \A k \in Listeners : Reads(v, k)' => Reads(v, k)
      BY <2>3, ReadsSame DEF L!CmdLsnUnref
    <3>7. L!OneLess(w) \in [Listeners -> [Watchers -> Nat]] BY <1>0, QueueTypes
    <3>8. exited' = exited BY <2>3 DEF L!CmdLsnUnref
    <3> QED BY <1>0, <3>2, <3>3, <3>4, <3>6, <3>7, <3>8, UnrefGrace
  <2>4. CASE L!CmdAddAcp(w)
    <3>1. \A k \in Listeners : InQtn(k)' => InQtn(k) BY <2>4, SameQtn DEF L!CmdAddAcp
    <3>2. ReadsIn
      <4>1. QueueTaken(w) /\ Head(queue[w]).cmd = "ADDACP" BY <2>4, TakeForm DEF L!CmdAddAcp
      <4>2. Used(Head(queue[w]).lsn) BY <1>0, <4>1, Heads DEF QueueTaken, Counting
      <4>3. /\ accept'[w].lsn = Head(queue[w]).lsn
            /\ \A v \in Watchers : v # w => accept'[v] = accept[v]
        BY <1>0, <2>4 DEF L!CmdAddAcp, L!TypeOK
      <4>4. lsn_batch' = lsn_batch /\ busy' = busy BY <2>4 DEF L!CmdAddAcp
      <4>5. ASSUME NEW k \in Listeners, NEW v \in Watchers, InQtn(k), Reads(v, k)'
            PROVE  v \in busy'[k]
        <5>1. Head(queue[w]).lsn # k BY <1>0, <4>2, <4>5, GraceSaid
        <5>2. Reads(v, k) BY <4>3, <4>4, <4>5, <5>1 DEF Reads
        <5> QED BY <1>0, <4>4, <4>5, <5>2, GraceSaid
      <4> QED BY <4>5 DEF ReadsIn
    <3>3. LinesIn(ahead')
      <4>1. QueueTaken(w) BY <2>4, TakeForm DEF L!CmdAddAcp
      <4>2. LinesIn(L!OneLess(w)) BY <1>0, <2>4, <4>1, LinesTaken DEF L!CmdAddAcp
      <4>3. ahead' = L!OneLess(w) BY <2>4 DEF L!CmdAddAcp
      <4> QED BY <4>2, <4>3
    <3> QED BY <1>0, <3>1, <3>2, <3>3, GraceStill
  <2>5. CASE L!AddedEnd(w)
    <3>5. PICK l : l = accept[w].lsn OBVIOUS
    <3>2. l \in Listeners /\ mem[l] = "live" /\ Used(l)
      <4>1. accept[w].at = "added" BY <2>5, AcceptFrom
      <4> QED BY <1>0, <3>5, <4>1, AcceptingOn DEF L!Phases, Used
    <3>3. L!Unref(w, l, ahead) BY <2>5, <3>5 DEF L!AddedEnd
    <3>4. LinesIn(ahead) BY <1>0, <2>5, LinesSame DEF L!AddedEnd
    <3>6. \A v \in Watchers : \A k \in Listeners : Reads(v, k)' => Reads(v, k)
      <4>1. \A v \in Watchers : accept'[v] = accept[v] \/ accept'[v] = L!NoAccept
        BY <1>0, <2>5 DEF L!AddedEnd, L!TypeOK
      <4> QED BY <2>5, <4>1, ReadsSame DEF L!AddedEnd
    <3>7. ahead \in [Listeners -> [Watchers -> Nat]] BY <1>0 DEF L!TypeOK
    <3>8. exited' = exited BY <2>5 DEF L!AddedEnd
    <3> QED BY <1>0, <3>2, <3>3, <3>4, <3>6, <3>7, <3>8, UnrefGrace
  <2>6. CASE L!CmdStop(w)
    <3>1. \A k \in Listeners : InQtn(k)' => InQtn(k) BY <2>6, SameQtn DEF L!CmdStop
    <3>2. ReadsIn
      <4>1. \A v \in Watchers : \A k \in Listeners : Reads(v, k)' => Reads(v, k)
        BY <2>6, ReadsSame DEF L!CmdStop
      <4>2. busy' = busy BY <2>6 DEF L!CmdStop
      <4> QED BY <1>0, <4>1, <4>2, ReadsFew
    <3>3. LinesIn(ahead')
      <4>1. QueueTaken(w) BY <2>6, TakeForm DEF L!CmdStop
      <4>2. LinesIn(L!OneLess(w)) BY <1>0, <2>6, <4>1, LinesTaken DEF L!CmdStop
      <4>3. ahead' = L!OneLess(w) BY <2>6 DEF L!CmdStop
      <4> QED BY <4>2, <4>3
    <3> QED BY <1>0, <3>1, <3>2, <3>3, GraceStill
  <2> QED BY <1>5, <2>1, <2>2, <2>3, <2>4, <2>5, <2>6 DEF L!Commanded
<1>6. CASE L!Free
  <2>1. CASE L!FreeStart
    <3>1. \A k \in Listeners : InQtn(k)' => InQtn(k) BY <2>1, SameQtn DEF L!FreeStart
    <3>2. ReadsIn
      <4>1. \A v \in Watchers : \A k \in Listeners : Reads(v, k)' => Reads(v, k)
        BY <2>1, ReadsSame DEF L!FreeStart
      <4>2. busy' = busy BY <2>1 DEF L!FreeStart
      <4> QED BY <1>0, <4>1, <4>2, ReadsFew
    <3>3. LinesIn(ahead')
      <4>1. ASSUME NEW k \in Listeners, NEW v \in Watchers, InQtn(k), v \notin exited',
                   NEW i \in DOMAIN queue'[v], queue'[v][i].lsn = k
            PROVE  i <= ahead[k][v]
        <5>1. queue'[v] = Append(queue[v], L!Cmd("STOP", Nil)) /\ queue[v] \in Seq(Cmds)
          BY <1>0, <2>1 DEF L!FreeStart, L!TypeOK, Cmds
        <5>2. L!Cmd("STOP", Nil).lsn # k BY CmdNames, LisSetting
        <5>3. i \in DOMAIN queue[v] /\ queue'[v][i] = queue[v][i]
          BY <4>1, <5>1, <5>2, CmdNames, Sent
        <5>4. v \notin exited BY <2>1, <4>1 DEF L!FreeStart
        <5> QED BY <1>0, <4>1, <5>3, <5>4, GraceSaid
      <4>2. ahead' = ahead BY <2>1 DEF L!FreeStart
      <4> QED BY <4>1, <4>2 DEF LinesIn, LineBy
    <3> QED BY <1>0, <3>1, <3>2, <3>3, GraceStill
  <2>2. CASE L!FreeAll
    <3>1. \A k \in Listeners : InQtn(k)' => InQtn(k) BY <2>2, SameQtn DEF L!FreeAll
    <3>2. ReadsIn
      <4>1. \A v \in Watchers : \A k \in Listeners : Reads(v, k)' => Reads(v, k)
        BY <2>2, ReadsSame DEF L!FreeAll
      <4>2. busy' = busy BY <2>2 DEF L!FreeAll
      <4> QED BY <1>0, <4>1, <4>2, ReadsFew
    <3>3. LinesIn(ahead')
      <4>1. LinesIn(ahead) BY <1>0, <2>2, LinesSame DEF L!FreeAll
      <4>2. ahead' = ahead BY <2>2 DEF L!FreeAll
      <4> QED BY <4>1, <4>2
    <3> QED BY <1>0, <3>1, <3>2, <3>3, GraceStill
  <2>3. ASSUME NEW w \in Watchers, L!Exit(w) PROVE Grace'
    <3>1. \A k \in Listeners : InQtn(k)' => InQtn(k) BY <2>3, SameQtn DEF L!Exit
    <3>2. ReadsIn
      <4>1. /\ accept[w] = L!NoAccept /\ lsn_batch[w] = {}
            /\ UNCHANGED <<accept, lsn_batch>>
            /\ \A k \in Listeners : busy'[k] = busy[k] \ {w}
        BY <1>0, <2>3 DEF L!Exit, L!InLoop, L!TypeOK
      <4>2. ASSUME NEW k \in Listeners, NEW v \in Watchers, InQtn(k), Reads(v, k)'
            PROVE  v \in busy'[k]
        <5>1. Reads(v, k) BY <4>1, <4>2 DEF Reads
        <5>2. v # w BY <4>1, <5>1, LisSetting DEF Reads, L!NoAccept
        <5> QED BY <1>0, <4>1, <4>2, <5>1, <5>2, GraceSaid
      <4> QED BY <4>2 DEF ReadsIn
    <3>3. LinesIn(ahead')
      <4>1. LinesIn(ahead) BY <1>0, <2>3, LinesSame DEF L!Exit
      <4>2. ahead' = ahead BY <2>3 DEF L!Exit
      <4> QED BY <4>1, <4>2
    <3> QED BY <1>0, <3>1, <3>2, <3>3, GraceStill
  <2>4. ASSUME NEW w \in Watchers, L!Drain(w) PROVE Grace'
    <3>1. \A k \in Listeners : InQtn(k)' => InQtn(k) BY <2>4, SameQtn DEF L!Drain
    <3>2. ReadsIn
      <4>1. \A v \in Watchers : \A k \in Listeners : Reads(v, k)' => Reads(v, k)
        BY <2>4, ReadsSame DEF L!Drain
      <4>2. busy' = busy BY <2>4 DEF L!Drain
      <4> QED BY <1>0, <4>1, <4>2, ReadsFew
    <3>3. LinesIn(ahead')
      <4>1. exited' = exited /\ exited = Watchers BY <2>4 DEF L!Drain
      <4> QED BY <4>1 DEF LinesIn, LineBy
    <3> QED BY <1>0, <3>1, <3>2, <3>3, GraceStill
  <2>5. ASSUME NEW w \in Watchers, L!Flush(w) PROVE Grace'
    <3>1. \A v \in Watchers : qtn'[v] \subseteq qtn[v] BY <1>0, <2>5 DEF L!Flush, L!TypeOK
    <3>2. \A k \in Listeners : InQtn(k)' => InQtn(k) BY <3>1 DEF InQtn
    <3>3. ReadsIn
      <4>1. \A v \in Watchers : \A k \in Listeners : Reads(v, k)' => Reads(v, k)
        BY <2>5, ReadsSame DEF L!Flush
      <4>2. busy' = busy BY <2>5 DEF L!Flush
      <4> QED BY <1>0, <4>1, <4>2, ReadsFew
    <3>4. LinesIn(ahead')
      <4>1. LinesIn(ahead) BY <1>0, <2>5, LinesSame DEF L!Flush
      <4>2. ahead' = ahead BY <2>5 DEF L!Flush
      <4> QED BY <4>1, <4>2
    <3> QED BY <1>0, <3>2, <3>3, <3>4, GraceStill
  <2> QED BY <1>6, <2>1, <2>2, <2>3, <2>4, <2>5 DEF L!Free
<1>7. CASE UNCHANGED L!vars BY <1>0, <1>7 DEF LisInv, Grace, L!vars
<1> QED BY <1>1, <1>2, <1>3, <1>4, <1>5, <1>6, <1>7 DEF L!Next

-----------------------------------------------------------------------------
(* A socket goes before its reference *)

Got(w, l) == accept[w].lsn = l /\ accept[w].at = "got"
Open(w, l) == w \in fd[l] \cup reg[l] \cup backoff[l]
Serves(w, l) == l \in lsn_batch[w] \/ (accept[w].lsn = l /\ accept[w].at # "added")
Holds(w, l) == w \in Unsent(l) \/ Told(w, l)
UnsentKept == \A l \in Listeners : Unsent(l)' = Unsent(l)
ToldKept == \A l \in Listeners : \A w \in Watchers : Told(w, l) => Told(w, l)'

\* What the invariant says of the sockets,
LEMMA HeldSaid ==
  ASSUME LisInv, NEW l \in Listeners, NEW w \in Watchers \ exited, mem[l] = "live"
  PROVE  /\ Got(w, l) \/ Open(w, l) => Holds(w, l)
         /\ Serves(w, l) \/ Open(w, l) => w \in on[l]
         /\ ~remove[l] /\ w \in on[l] => w \in Unsent(l)
BY DEF LisInv, Held, Got, Open, Serves, Holds, Unsent

\* and what it is to say after a step.
LEMMA HeldForm ==
  ASSUME \A l \in Listeners : \A w \in Watchers \ exited' : mem'[l] = "live" =>
           /\ (Got(w, l)' => Holds(w, l)') /\ (Open(w, l)' => Holds(w, l)')
           /\ (Serves(w, l)' => w \in on'[l]) /\ (Open(w, l)' => w \in on'[l])
  PROVE  Held'
BY DEF Held, Got, Open, Serves, Holds

\* Nothing new to hold, and nothing is let go.
LEMMA HeldStill ==
  ASSUME LisInv, exited \subseteq exited', UnsentKept, ToldKept,
         \A l \in Listeners : mem'[l] = "live" => mem[l] = "live" /\ on'[l] = on[l],
         \A l \in Listeners : \A w \in Watchers \ exited :
           /\ Got(w, l)' => Got(w, l)
           /\ Open(w, l)' => Open(w, l)
           /\ Serves(w, l)' => Serves(w, l) \/ Open(w, l)
  PROVE  Held'
<1>1. ASSUME NEW l \in Listeners, NEW w \in Watchers \ exited', mem'[l] = "live"
      PROVE  /\ (Got(w, l)' => Holds(w, l)') /\ (Open(w, l)' => Holds(w, l)')
             /\ (Serves(w, l)' => w \in on'[l]) /\ (Open(w, l)' => w \in on'[l])
  <2>1. w \in Watchers \ exited /\ mem[l] = "live" /\ on'[l] = on[l] BY <1>1
  <2>2. Holds(w, l) => Holds(w, l)' BY DEF Holds, UnsentKept, ToldKept
  <2>3. Got(w, l) \/ Open(w, l) => Holds(w, l) BY <2>1, HeldSaid
  <2>4. Serves(w, l) \/ Open(w, l) => w \in on[l] BY <2>1, HeldSaid
  <2>5. /\ Got(w, l)' => Got(w, l)
        /\ Open(w, l)' => Open(w, l)
        /\ Serves(w, l)' => Serves(w, l) \/ Open(w, l)
    BY <2>1
  <2> QED BY <2>1, <2>2, <2>3, <2>4, <2>5
<1> QED BY <1>1, HeldForm

\* Who was told stays told.
LEMMA ToldSame ==
  ASSUME queue' = queue
  PROVE  ToldKept
BY DEF ToldKept, Told

LEMMA ToldSent ==
  ASSUME L!TypeOK, NEW w \in Watchers, NEW c \in Cmds, QueueSent(w, c)
  PROVE  ToldKept
<1>1. ASSUME NEW l \in Listeners, NEW v \in Watchers, Told(v, l) PROVE Told(v, l)'
  <2>1. PICK i \in DOMAIN queue[v] : queue[v][i] = L!Cmd("UNLSN", l) BY <1>1 DEF Told
  <2>2. i \in DOMAIN queue'[v] /\ queue'[v][i] = queue[v][i] BY SentMembers
  <2> QED BY <2>1, <2>2 DEF Told, L!Cmd
<1> QED BY <1>1 DEF ToldKept

LEMMA ToldTaken ==
  ASSUME L!TypeOK, NEW w \in Watchers, QueueTaken(w), NEW l \in Listeners, NEW v \in Watchers,
         Told(v, l), v # w \/ Head(queue[w]).cmd # "UNLSN" \/ Head(queue[w]).lsn # l
  PROVE  Told(v, l)'
<1>1. PICK i \in DOMAIN queue[v] : queue[v][i] = L!Cmd("UNLSN", l) BY DEF Told
<1>2. CASE v # w
  <2>1. queue'[v] = queue[v] BY <1>2, TakenMembers
  <2> QED BY <1>1, <2>1 DEF Told, L!Cmd
<1>3. CASE v = w
  <2>1. queue[w][i] # Head(queue[w]) BY <1>1, <1>3, CmdNames
  <2>2. i - 1 \in DOMAIN queue'[w] /\ queue'[w][i - 1] = queue[w][i]
    BY <1>1, <1>3, <2>1, TakenMembers
  <2> QED BY <1>1, <1>3, <2>2 DEF Told, L!Cmd
<1> QED BY <1>2, <1>3

LEMMA ToldStops ==
  ASSUME L!TypeOK, queue' = [w \in Watchers |-> Append(queue[w], L!Cmd("STOP", Nil))]
  PROVE  ToldKept
<1>1. ASSUME NEW l \in Listeners, NEW v \in Watchers, Told(v, l) PROVE Told(v, l)'
  <2>1. PICK i \in DOMAIN queue[v] : queue[v][i] = L!Cmd("UNLSN", l) BY <1>1 DEF Told
  <2>2. queue'[v] = Append(queue[v], L!Cmd("STOP", Nil)) /\ queue[v] \in Seq(Cmds)
    BY DEF L!TypeOK, Cmds
  <2>3. i \in DOMAIN queue'[v] /\ queue'[v][i] = queue[v][i] BY <2>1, <2>2, CmdNames, Sent
  <2> QED BY <2>1, <2>3 DEF Told, L!Cmd
<1> QED BY <1>1 DEF ToldKept

\* What is unsent stays unsent, whatever is not a call.
LEMMA UnsentSame ==
  ASSUME UNCHANGED <<call, remove, on>>
  PROVE  UnsentKept
BY SameCalls DEF UnsentKept, CallsStill

\* The calls that leave alone what is unsent.
LEMMA UnsentCalls ==
  ASSUME LisInv, NEW a \in L!Actors,
         \/ \E w \in Watchers : L!ListenSend(a, w)
         \/ \E l \in Listeners : L!UnlistenTake(a, l)
         \/ L!ListenEnd(a) \/ L!UnlistenMark(a) \/ L!UnlistenEnd(a)
  PROVE  UnsentKept
<1>0. L!TypeOK BY DEF LisInv
<1>1. ASSUME UNCHANGED <<remove, on>>,
             \A b \in L!Actors : b # a => call'[b] = call[b],
             call[a].op # "unlisten", call'[a].op # "unlisten"
      PROVE  UnsentKept
  <2>1. ASSUME NEW k \in Listeners PROVE Unsent(k)' = Unsent(k)
    <3>1. \A b \in L!Actors : call'[b] = call[b] \/ (~Asks(b, k) /\ ~Asks(b, k)')
      BY <1>1 DEF Asks
    <3> QED BY <1>1, <3>1, SameCalls DEF CallsStill
  <2> QED BY <2>1 DEF UnsentKept
<1>2. ASSUME NEW w \in Watchers, L!ListenSend(a, w) PROVE UnsentKept
  <2>1. CallNow(a, call[a].op, call[a].todo \ {w}) /\ call[a].op = "listen" BY <1>2, CallSends
  <2>2. call'[a].op = "listen" /\ \A b \in L!Actors : b # a => call'[b] = call[b]
    BY <2>1 DEF CallNow
  <2> QED BY <1>1, <1>2, <2>1, <2>2 DEF L!ListenSend
<1>3. ASSUME NEW l \in Listeners, L!UnlistenTake(a, l) PROVE UnsentKept
  <2>1. call[a] = L!NoCall /\ \A b \in L!Actors : b # a => call'[b] = call[b] BY <1>3, CallStarts
  <2>2. call'[a].op = "hold" BY <1>0, <1>3 DEF L!UnlistenTake, L!TypeOK
  <2> QED BY <1>1, <1>3, <2>1, <2>2 DEF L!UnlistenTake, L!NoCall
<1>4. CASE L!ListenEnd(a)
  <2>1. call'[a] = L!NoCall /\ \A b \in L!Actors : b # a => call'[b] = call[b] BY <1>4, CallEnds
  <2> QED BY <1>1, <1>4, <2>1 DEF L!ListenEnd, L!NoCall
<1>5. CASE L!UnlistenMark(a)
  <2>1. PICK l : l = Callee(a) OBVIOUS
  <2>2. /\ call'[a].lsn = l /\ call'[a].op = "unlisten" /\ call'[a].todo = on[l]
        /\ \A b \in L!Actors : b # a => call'[b] = call[b]
    <3>1. CallNow(a, "unlisten", on[Callee(a)]) BY <1>5, CallMarks
    <3> QED BY <2>1, <3>1 DEF CallNow
  <2>3. l \in Listeners /\ call[a].op = "hold" BY <1>5, <2>1, CallMarks, Calling DEF InCall, Callee
  <2>4. ~remove[l] /\ \A b \in L!Actors : call[b].lsn = l => b = a
    BY <2>1, <2>3 DEF LisInv, OneCaller, Marked, Callee
  <2>5. on' = on /\ remove'[l] /\ \A k \in Listeners : k # l => remove'[k] = remove[k]
    BY <1>0, <1>5, <2>1, <2>3 DEF L!UnlistenMark, L!TypeOK, Callee
  <2>6. Unsent(l)' = Unsent(l)
    <3>1. \A b \in L!Actors : Asks(b, l)' <=> b = a BY <2>2, <2>4 DEF Asks
    <3> QED BY <2>2, <2>4, <2>5, <3>1 DEF Unsent, L!Actors
  <2>7. ASSUME NEW k \in Listeners, k # l PROVE Unsent(k)' = Unsent(k)
    <3>1. \A b \in L!Actors : call'[b] = call[b] \/ (~Asks(b, k) /\ ~Asks(b, k)')
      BY <2>1, <2>2, <2>7 DEF Asks, Callee
    <3> QED BY <2>5, <2>7, <3>1, SameCalls DEF CallsStill
  <2> QED BY <2>6, <2>7 DEF UnsentKept
<1>6. CASE L!UnlistenEnd(a)
  <2>1. PICK l : l = Callee(a) OBVIOUS
  <2>2. call'[a] = L!NoCall /\ \A b \in L!Actors : b # a => call'[b] = call[b] BY <1>6, CallEnds
  <2>3. l \in Listeners /\ call[a].op = "unlisten" /\ call[a].todo = {} /\ UNCHANGED <<remove, on>>
    BY <1>6, <2>1, CallEnds DEF L!UnlistenEnd, Callee
  <2>4. Unsent(l) = {} /\ remove[l] /\ \A b \in L!Actors : call[b].lsn = l => b = a
    BY <2>1, <2>3, Asking
  <2>5. Unsent(l)' = {}
    <3>1. \A b \in L!Actors : ~Asks(b, l)' BY <2>2, <2>4 DEF Asks, L!NoCall
    <3> QED BY <2>3, <2>4, <3>1 DEF Unsent, L!Actors
  <2>6. ASSUME NEW k \in Listeners, k # l PROVE Unsent(k)' = Unsent(k)
    <3>1. \A b \in L!Actors : call'[b] = call[b] \/ (~Asks(b, k) /\ ~Asks(b, k)')
      BY <2>1, <2>2, <2>6 DEF Asks, Callee, L!NoCall
    <3> QED BY <2>3, <2>6, <3>1, SameCalls DEF CallsStill
  <2> QED BY <2>4, <2>5, <2>6 DEF UnsentKept
<1> QED BY <1>2, <1>3, <1>4, <1>5, <1>6

\* ev_unlisten sends to one watcher.
LEMMA UnsentSend ==
  ASSUME LisInv, NEW a \in L!Actors, NEW w \in Watchers, L!UnlistenSend(a, w)
  PROVE  /\ \A k \in Listeners : k # Callee(a) => Unsent(k)' = Unsent(k)
         /\ \A k \in Listeners : \A v \in Unsent(k) : v # w => v \in Unsent(k)'
<1>1. PICK l : l = Callee(a) OBVIOUS
<1>2. /\ call'[a].lsn = l /\ call'[a].op = "unlisten" /\ call'[a].todo = call[a].todo \ {w}
      /\ call[a].op = "unlisten" /\ w \in call[a].todo
      /\ \A b \in L!Actors : b # a => call'[b] = call[b]
  <2>1. CallNow(a, call[a].op, call[a].todo \ {w}) /\ call[a].op = "unlisten"
        /\ w \in call[a].todo
    BY CallSends
  <2> QED BY <1>1, <2>1 DEF CallNow
<1>3. UNCHANGED <<remove, on>> BY DEF L!UnlistenSend
<1>4. Unsent(l) = call[a].todo /\ remove[l] /\ \A b \in L!Actors : call[b].lsn = l => b = a
  BY <1>1, <1>2, Asking
<1>5. \A v \in Unsent(l) : v # w => v \in Unsent(l)'
  <2>1. Asks(a, l)' BY <1>2 DEF Asks
  <2>2. ASSUME NEW v \in Unsent(l), v # w PROVE v \in Unsent(l)'
    <3>1. v \in Watchers /\ v \in call'[a].todo BY <1>2, <1>4, <2>2 DEF Unsent
    <3> QED BY <1>3, <1>4, <2>1, <3>1 DEF Unsent, L!Actors
  <2> QED BY <2>2
<1>6. ASSUME NEW k \in Listeners, k # l PROVE Unsent(k)' = Unsent(k)
  <2>1. \A b \in L!Actors : call'[b] = call[b] \/ (~Asks(b, k) /\ ~Asks(b, k)')
    BY <1>1, <1>2, <1>6 DEF Asks, Callee
  <2> QED BY <1>3, <1>6, <2>1, SameCalls DEF CallsStill
<1> QED BY <1>1, <1>5, <1>6

\* What a removal and an addition do to the sockets.
LEMMA RemoveSockets ==
  ASSUME L!TypeOK, NEW w \in Watchers, NEW l \in Listeners, NEW left, L!RemoveLsn(w, l, left)
  PROVE  /\ \A k \in Listeners : /\ fd'[k] \subseteq fd[k] /\ reg'[k] \subseteq reg[k]
                                 /\ backoff'[k] \subseteq backoff[k]
         /\ w \notin fd'[l] \cup reg'[l] \cup backoff'[l]
<1>1. /\ \A k \in Listeners : fd'[k] = IF k = l THEN fd[k] \ {w} ELSE fd[k]
      /\ \A k \in Listeners : reg'[k] = IF k = l THEN reg[k] \ {w} ELSE reg[k]
      /\ \A k \in Listeners : backoff'[k] = IF k = l THEN backoff[k] \ {w} ELSE backoff[k]
  BY DEF L!TypeOK, L!RemoveLsn
<1> QED BY <1>1

LEMMA AddSockets ==
  ASSUME L!TypeOK, NEW w \in Watchers, NEW l \in Listeners, L!AddLsn(w, l)
  PROVE  \A k \in Listeners : fd'[k] \subseteq fd[k] /\ reg'[k] \subseteq reg[k] \cup fd[k]
<1>1. CASE w \in fd[l] /\ reg' = [reg EXCEPT ![l] = @ \cup {w}] /\ fd' = fd
  <2>1. \A k \in Listeners : reg'[k] = IF k = l THEN reg[k] \cup {w} ELSE reg[k]
    BY <1>1 DEF L!TypeOK
  <2> QED BY <1>1, <2>1
<1>2. CASE fd' = [fd EXCEPT ![l] = @ \ {w}] /\ reg' = reg
  <2>1. \A k \in Listeners : fd'[k] = IF k = l THEN fd[k] \ {w} ELSE fd[k]
    BY <1>2 DEF L!TypeOK
  <2> QED BY <1>2, <2>1
<1>3. CASE UNCHANGED <<fd, reg>> BY <1>3
<1> QED BY <1>1, <1>2, <1>3 DEF L!AddLsn

\* The sockets go before the references.
LEMMA HeldStep ==
  ASSUME LisInv, [L!Next]_(L!vars)
  PROVE  Held'
<1> USE DEF L!lsnsock, L!grace, L!ending
<1>0. LisInv /\ L!TypeOK /\ L!TypeOK' BY TypeStep DEF LisInv
<1>1. ASSUME NEW a \in L!Actors, L!Listen(a) PROVE Held'
  <2>1. ASSUME NEW l \in Listeners, NEW ws \in (SUBSET Watchers) \ {{}},
               L!ListenStart(a, l, ws)
        PROVE Held'
    <3>1. mem[l] # "live" /\ ~Leads(l) /\ ~remove[l]
      BY <1>0, <2>1 DEF L!ListenStart, LisInv, Reached, Marked
    <3>2. /\ on'[l] = ws /\ fd'[l] = ws /\ ws \subseteq Watchers
          /\ \A k \in Listeners : k # l => on'[k] = on[k] /\ fd'[k] = fd[k] /\ mem'[k] = mem[k]
      BY <1>0, <2>1 DEF L!ListenStart, L!TypeOK
    <3>3. UNCHANGED <<remove, reg, backoff, queue, lsn_batch, accept, exited>>
      BY <2>1 DEF L!ListenStart
    <3>4. /\ call'[a].op = "listen" /\ \A b \in L!Actors : b # a => call'[b] = call[b]
          /\ call[a] = L!NoCall
      BY <1>0, <2>1, CallStarts, StartsListen
    <3>20. ASSUME NEW k \in Listeners, NEW v \in Watchers \ exited', mem'[k] = "live"
          PROVE  /\ (Got(v, k)' => Holds(v, k)') /\ (Open(v, k)' => Holds(v, k)')
                 /\ (Serves(v, k)' => v \in on'[k]) /\ (Open(v, k)' => v \in on'[k])
      <4>1. CASE k = l
        <5>1. Unsent(l)' = ws BY <3>1, <3>2, <3>3 DEF Unsent
        <5>2. ~Got(v, l) /\ ~Serves(v, l) /\ v \notin reg[l] \cup backoff[l]
          BY <3>1, <3>3, <3>20 DEF Leads, L!ReadBy, Got, Serves
        <5>3. ~Got(v, l)' /\ ~Serves(v, l)' BY <3>3, <5>2 DEF Got, Serves
        <5>4. Open(v, l)' => v \in ws BY <3>2, <3>3, <5>2 DEF Open
        <5> QED BY <3>2, <4>1, <5>1, <5>3, <5>4 DEF Holds
      <4>2. CASE k # l
        <5>1. \A b \in L!Actors : call'[b] = call[b] \/ (~Asks(b, k) /\ ~Asks(b, k)')
          BY <3>4 DEF Asks, L!NoCall
        <5>2. Unsent(k)' = Unsent(k) BY <3>2, <3>3, <4>2, <5>1, SameCalls DEF CallsStill
        <5>3. Told(v, k)' = Told(v, k) BY <3>3 DEF Told, L!Cmd
        <5>4. Holds(v, k)' = Holds(v, k) BY <5>2, <5>3 DEF Holds
        <5>5. /\ Got(v, k)' = Got(v, k) /\ Serves(v, k)' = Serves(v, k)
              /\ Open(v, k)' = Open(v, k)
          BY <3>2, <3>3, <4>2 DEF Got, Serves, Open
        <5>6. /\ Got(v, k) \/ Open(v, k) => Holds(v, k)
              /\ Serves(v, k) \/ Open(v, k) => v \in on[k]
          BY <1>0, <3>2, <3>3, <3>20, <4>2, HeldSaid
        <5> QED BY <3>2, <4>2, <5>4, <5>5, <5>6
      <4> QED BY <4>1, <4>2
    <3> QED BY <3>20, HeldForm
  <2>2. ASSUME NEW w \in Watchers, L!ListenSend(a, w) PROVE Held'
    <3>1. exited \subseteq exited' BY <2>2 DEF L!ListenSend
    <3>2. UnsentKept
      BY <1>0, <2>2, UnsentCalls
    <3>3. ToldKept
      <4>1. call[a].lsn \in Listeners
        <5>1. InCall(a) BY <2>2 DEF L!ListenSend, InCall
        <5> QED BY <1>0, <5>1, Calling DEF InCall
      <4>2. L!Cmd("LSN", call[a].lsn) \in Cmds BY <4>1, CmdNames
      <4>3. CASE a # w
        <5>1. QueueSent(w, L!Cmd("LSN", call[a].lsn)) BY <2>2, <4>3, SendForm DEF L!ListenSend
        <5> QED BY <1>0, <4>2, <5>1, ToldSent
      <4>4. CASE a = w BY <2>2, <4>4, ToldSame DEF L!ListenSend
      <4> QED BY <4>3, <4>4
    <3>4. \A k \in Listeners : mem'[k] = "live" => mem[k] = "live" /\ on'[k] = on[k]
      BY <1>0, <2>2 DEF L!ListenSend, L!TypeOK
    <3>5. \A k \in Listeners : \A v \in Watchers \ exited :
            /\ Got(v, k)' => Got(v, k)
            /\ Open(v, k)' => Open(v, k)
            /\ Serves(v, k)' => Serves(v, k) \/ Open(v, k)
      <4>1. UNCHANGED <<lsn_batch, backoff, accept>> BY <2>2 DEF L!ListenSend, L!AddLsn
      <4>2. \A k \in Listeners : fd'[k] \subseteq fd[k] /\ reg'[k] \subseteq reg[k] \cup fd[k]
        <5>1. PICK l : l = call[a].lsn OBVIOUS
        <5>2. L!AddLsn(w, l) \/ UNCHANGED <<fd, reg>> BY <2>2, <5>1 DEF L!ListenSend
        <5>6. l \in Listeners
          <6>1. InCall(a) BY <2>2 DEF L!ListenSend, InCall
          <6> QED BY <1>0, <5>1, <6>1, Calling DEF InCall
        <5>3. CASE L!AddLsn(w, l) BY <1>0, <5>3, <5>6, AddSockets
        <5>4. CASE UNCHANGED <<fd, reg>> BY <5>4
        <5> QED BY <5>2, <5>3, <5>4
      <4> QED BY <4>1, <4>2 DEF Got, Open, Serves
    <3> QED BY <1>0, <3>1, <3>2, <3>3, <3>4, <3>5, HeldStill
  <2>3. CASE L!ListenEnd(a)
    <3>1. exited \subseteq exited' BY <2>3 DEF L!ListenEnd
    <3>2. UnsentKept
      BY <1>0, <2>3, UnsentCalls
    <3>3. ToldKept
      BY <2>3, ToldSame DEF L!ListenEnd
    <3>4. \A k \in Listeners : mem'[k] = "live" => mem[k] = "live" /\ on'[k] = on[k]
      BY <1>0, <2>3 DEF L!ListenEnd, L!TypeOK
    <3>5. \A k \in Listeners : \A v \in Watchers \ exited :
            /\ Got(v, k)' => Got(v, k)
            /\ Open(v, k)' => Open(v, k)
            /\ Serves(v, k)' => Serves(v, k) \/ Open(v, k)
      BY <1>0, <2>3 DEF Got, Open, Serves, L!TypeOK, L!ListenEnd
    <3> QED BY <1>0, <3>1, <3>2, <3>3, <3>4, <3>5, HeldStill
  <2> QED BY <1>1, <2>1, <2>2, <2>3 DEF L!Listen
<1>2. ASSUME NEW a \in L!Actors, L!Unlisten(a) PROVE Held'
  <2>1. ASSUME NEW l \in Listeners, L!UnlistenTake(a, l) PROVE Held'
    <3>1. exited \subseteq exited' BY <2>1 DEF L!UnlistenTake
    <3>2. UnsentKept
      BY <1>0, <2>1, UnsentCalls
    <3>3. ToldKept
      BY <2>1, ToldSame DEF L!UnlistenTake
    <3>4. \A k \in Listeners : mem'[k] = "live" => mem[k] = "live" /\ on'[k] = on[k]
      BY <1>0, <2>1 DEF L!UnlistenTake, L!TypeOK
    <3>5. \A k \in Listeners : \A v \in Watchers \ exited :
            /\ Got(v, k)' => Got(v, k)
            /\ Open(v, k)' => Open(v, k)
            /\ Serves(v, k)' => Serves(v, k) \/ Open(v, k)
      BY <1>0, <2>1 DEF Got, Open, Serves, L!TypeOK, L!UnlistenTake, L!MayCall
    <3> QED BY <1>0, <3>1, <3>2, <3>3, <3>4, <3>5, HeldStill
  <2>2. ASSUME NEW w \in Watchers, L!UnlistenSend(a, w) PROVE Held'
    <3>0. PICK l : l = Callee(a) OBVIOUS
    <3>1. /\ \A k \in Listeners : k # l => Unsent(k)' = Unsent(k)
          /\ \A k \in Listeners : \A v \in Unsent(k) : v # w => v \in Unsent(k)'
      BY <1>0, <2>2, <3>0, UnsentSend
    <3>3. UNCHANGED <<mem, on, accept, lsn_batch, exited>> BY <2>2 DEF L!UnlistenSend
    <3>4. l \in Listeners /\ call[a] # L!NoCall
      <4>1. InCall(a) BY <2>2 DEF L!UnlistenSend, InCall
      <4> QED BY <1>0, <3>0, <4>1, Calling DEF InCall, Callee, L!NoCall
    <3>5. a # w => QueueSent(w, L!Cmd("UNLSN", l))
      BY <2>2, <3>0, SendForm DEF L!UnlistenSend, Callee
    <3>2. ToldKept
      <4>1. CASE a # w
        <5>1. L!Cmd("UNLSN", l) \in Cmds BY <3>4, CmdNames
        <5> QED BY <1>0, <3>5, <4>1, <5>1, ToldSent
      <4>2. CASE a = w BY <2>2, <4>2, ToldSame DEF L!UnlistenSend
      <4> QED BY <4>1, <4>2
    <3>6. /\ \A k \in Listeners : /\ fd'[k] \subseteq fd[k] /\ reg'[k] \subseteq reg[k]
                                     /\ backoff'[k] \subseteq backoff[k]
          /\ a = w => w \notin fd'[l] \cup reg'[l] \cup backoff'[l]
      <4>1. CASE a = w
        <5>1. L!RemoveLsn(w, l, ahead) BY <2>2, <3>0, <4>1 DEF L!UnlistenSend, Callee
        <5> QED BY <1>0, <3>4, <5>1, RemoveSockets
      <4>2. CASE a # w BY <2>2, <4>2 DEF L!UnlistenSend
      <4> QED BY <4>1, <4>2
    <3>7. a # w => Told(w, l)'
      <4>1. L!Cmd("UNLSN", l) \in Cmds BY <3>4, CmdNames
      <4> QED BY <1>0, <3>5, <4>1, SentMembers DEF Told, L!Cmd
    <3>8. a = w => accept[w].at \notin {"loop", "got"} BY <1>0, <3>4 DEF LisInv, Alone
    <3>20. ASSUME NEW k \in Listeners, NEW v \in Watchers \ exited', mem'[k] = "live"
          PROVE  /\ (Got(v, k)' => Holds(v, k)') /\ (Open(v, k)' => Holds(v, k)')
                 /\ (Serves(v, k)' => v \in on'[k]) /\ (Open(v, k)' => v \in on'[k])
      <4>1. /\ Got(v, k) \/ Open(v, k) => Holds(v, k)
            /\ Serves(v, k) \/ Open(v, k) => v \in on[k]
        BY <1>0, <3>3, <3>20, HeldSaid
      <4>2. Got(v, k)' = Got(v, k) /\ Serves(v, k)' = Serves(v, k) BY <3>3 DEF Got, Serves
      <4>3. Open(v, k)' => Open(v, k) BY <3>6, <3>20 DEF Open
      <4>4. CASE v = w /\ k = l
        <5>1. CASE a # w
          <6>1. Holds(v, k)' BY <3>7, <4>4, <5>1 DEF Holds
          <6> QED BY <3>3, <4>1, <4>2, <4>3, <6>1
        <5>2. CASE a = w
          <6>1. ~Open(v, k)' BY <3>6, <4>4, <5>2 DEF Open
          <6>2. ~Got(v, k) BY <3>8, <4>4, <5>2 DEF Got
          <6> QED BY <3>3, <4>1, <4>2, <6>1, <6>2
        <5> QED BY <5>1, <5>2
      <4>5. CASE v # w \/ k # l
        <5>1. v \in Unsent(k) => v \in Unsent(k)' BY <3>1, <4>5
        <5>2. Holds(v, k) => Holds(v, k)' BY <3>2, <5>1 DEF Holds, ToldKept
        <5> QED BY <3>3, <4>1, <4>2, <4>3, <5>2
      <4> QED BY <4>4, <4>5
    <3> QED BY <3>20, HeldForm
  <2>3. CASE L!UnlistenMark(a)
    <3>1. exited \subseteq exited' BY <2>3 DEF L!UnlistenMark
    <3>2. UnsentKept
      BY <1>0, <2>3, UnsentCalls
    <3>3. ToldKept
      BY <2>3, ToldSame DEF L!UnlistenMark
    <3>4. \A k \in Listeners : mem'[k] = "live" => mem[k] = "live" /\ on'[k] = on[k]
      BY <1>0, <2>3 DEF L!UnlistenMark, L!TypeOK
    <3>5. \A k \in Listeners : \A v \in Watchers \ exited :
            /\ Got(v, k)' => Got(v, k)
            /\ Open(v, k)' => Open(v, k)
            /\ Serves(v, k)' => Serves(v, k) \/ Open(v, k)
      BY <1>0, <2>3 DEF Got, Open, Serves, L!TypeOK, L!UnlistenMark
    <3> QED BY <1>0, <3>1, <3>2, <3>3, <3>4, <3>5, HeldStill
  <2>4. CASE L!UnlistenEnd(a)
    <3>1. exited \subseteq exited' BY <2>4 DEF L!UnlistenEnd
    <3>2. UnsentKept
      BY <1>0, <2>4, UnsentCalls
    <3>3. ToldKept
      <4>1. call[a].lsn \in Listeners BY <1>0, <2>4, CallEnds DEF Callee
      <4>2. L!Cmd("LSN_UNREF", call[a].lsn) \in Cmds BY <4>1, CmdNames
      <4>3. CASE a # Zero
        <5>1. QueueSent(Zero, L!Cmd("LSN_UNREF", call[a].lsn)) BY <2>4, <4>3, SendForm
          DEF L!UnlistenEnd
        <5> QED BY <1>0, <4>2, <5>1, LisSetting, ToldSent
      <4>4. CASE a = Zero BY <2>4, <4>4, ToldSame DEF L!UnlistenEnd
      <4> QED BY <4>3, <4>4
    <3>4. \A k \in Listeners : mem'[k] = "live" => mem[k] = "live" /\ on'[k] = on[k]
      BY <1>0, <2>4 DEF L!UnlistenEnd, L!TypeOK
    <3>5. \A k \in Listeners : \A v \in Watchers \ exited :
            /\ Got(v, k)' => Got(v, k)
            /\ Open(v, k)' => Open(v, k)
            /\ Serves(v, k)' => Serves(v, k) \/ Open(v, k)
      BY <2>4 DEF Got, Open, Serves, L!UnlistenEnd
    <3> QED BY <1>0, <3>1, <3>2, <3>3, <3>4, <3>5, HeldStill
  <2> QED BY <1>2, <2>1, <2>2, <2>3, <2>4 DEF L!Unlisten
<1>3. ASSUME NEW w \in Watchers, L!Loop(w) PROVE Held'
  <2>1. CASE L!Poll(w)
    <3>1. exited \subseteq exited' BY <2>1 DEF L!Poll
    <3>2. UnsentKept
      BY <2>1, UnsentSame DEF L!Poll
    <3>3. ToldKept
      BY <2>1, ToldSame DEF L!Poll
    <3>4. \A k \in Listeners : mem'[k] = "live" => mem[k] = "live" /\ on'[k] = on[k]
      BY <1>0, <2>1 DEF L!Poll, L!TypeOK
    <3>5. \A k \in Listeners : \A v \in Watchers \ exited :
            /\ Got(v, k)' => Got(v, k)
            /\ Open(v, k)' => Open(v, k)
            /\ Serves(v, k)' => Serves(v, k) \/ Open(v, k)
      <4>1. /\ UNCHANGED <<accept, fd, reg, backoff>>
            /\ \A v \in Watchers : \A k \in Listeners :
                 k \in lsn_batch'[v] => k \in lsn_batch[v] \/ v \in reg[k]
        BY <1>0, <2>1 DEF L!Poll, L!TypeOK
      <4> QED BY <4>1 DEF Got, Open, Serves
    <3> QED BY <1>0, <3>1, <3>2, <3>3, <3>4, <3>5, HeldStill
  <2>2. ASSUME NEW l \in Listeners, L!Dispatch(w, l) PROVE Held'
    <3>1. exited \subseteq exited' BY <2>2 DEF L!Dispatch
    <3>2. UnsentKept
      BY <2>2, UnsentSame DEF L!Dispatch
    <3>3. ToldKept
      BY <2>2, ToldSame DEF L!Dispatch
    <3>4. \A k \in Listeners : mem'[k] = "live" => mem[k] = "live" /\ on'[k] = on[k]
      BY <1>0, <2>2 DEF L!Dispatch, L!TypeOK
    <3>5. \A k \in Listeners : \A v \in Watchers \ exited :
            /\ Got(v, k)' => Got(v, k)
            /\ Open(v, k)' => Open(v, k)
            /\ Serves(v, k)' => Serves(v, k) \/ Open(v, k)
      BY <1>0, <2>2 DEF Got, Open, Serves, L!TypeOK, L!Dispatch, L!InLoop
    <3> QED BY <1>0, <3>1, <3>2, <3>3, <3>4, <3>5, HeldStill
  <2>3. ASSUME NEW l \in Listeners, L!BackoffOver(w, l) PROVE Held'
    <3>1. exited \subseteq exited' BY <2>3 DEF L!BackoffOver
    <3>2. UnsentKept
      BY <2>3, UnsentSame DEF L!BackoffOver
    <3>3. ToldKept
      BY <2>3, ToldSame DEF L!BackoffOver
    <3>4. \A k \in Listeners : mem'[k] = "live" => mem[k] = "live" /\ on'[k] = on[k]
      BY <1>0, <2>3 DEF L!BackoffOver, L!TypeOK
    <3>5. \A k \in Listeners : \A v \in Watchers \ exited :
            /\ Got(v, k)' => Got(v, k)
            /\ Open(v, k)' => Open(v, k)
            /\ Serves(v, k)' => Serves(v, k) \/ Open(v, k)
      BY <1>0, <2>3 DEF Got, Open, Serves, L!TypeOK, L!BackoffOver, L!InLoop
    <3> QED BY <1>0, <3>1, <3>2, <3>3, <3>4, <3>5, HeldStill
  <2>4. ASSUME NEW l \in Listeners, L!Release(w, l) PROVE Held'
    <3>1. exited \subseteq exited' BY <2>4 DEF L!Release
    <3>2. UnsentKept
      BY <2>4, UnsentSame DEF L!Release
    <3>3. ToldKept
      BY <2>4, ToldSame DEF L!Release
    <3>4. \A k \in Listeners : mem'[k] = "live" => mem[k] = "live" /\ on'[k] = on[k]
      BY <1>0, <2>4 DEF L!Release, L!TypeOK
    <3>5. \A k \in Listeners : \A v \in Watchers \ exited :
            /\ Got(v, k)' => Got(v, k)
            /\ Open(v, k)' => Open(v, k)
            /\ Serves(v, k)' => Serves(v, k) \/ Open(v, k)
      BY <1>0, <2>4 DEF Got, Open, Serves, L!TypeOK, L!Release, L!InLoop
    <3> QED BY <1>0, <3>1, <3>2, <3>3, <3>4, <3>5, HeldStill
  <2> QED BY <1>3, <2>1, <2>2, <2>3, <2>4 DEF L!Loop
<1>4. ASSUME NEW w \in Watchers, L!Accept(w) PROVE Held'
  <2>1. CASE L!AcceptOne(w)
    <3>1. UnsentKept BY <2>1, UnsentSame DEF L!AcceptOne
    <3>2. ToldKept BY <2>1, ToldSame DEF L!AcceptOne
    <3>3. UNCHANGED <<mem, on, fd, reg, backoff, lsn_batch, exited>> BY <2>1 DEF L!AcceptOne
    <3>4. ~remove[accept[w].lsn] BY <2>1 DEF L!AcceptOne
    <3>5. /\ accept'[w].lsn = accept[w].lsn /\ accept'[w].at = "got" /\ accept[w].at = "loop"
          /\ \A v \in Watchers : v # w => accept'[v] = accept[v]
      <4>1. L!AcceptTo(w, "got") /\ accept[w].at = "loop" BY <2>1, AcceptFrom DEF L!AcceptOne
      <4>2. /\ accept'[w] = [lsn |-> accept[w].lsn, at |-> "got"]
            /\ \A v \in Watchers : v # w => accept'[v] = accept[v]
        BY <1>0, <4>1, AcceptGoes DEF L!Phases
      <4> QED BY <4>1, <4>2
    <3>20. ASSUME NEW k \in Listeners, NEW v \in Watchers \ exited', mem'[k] = "live"
          PROVE  /\ (Got(v, k)' => Holds(v, k)') /\ (Open(v, k)' => Holds(v, k)')
                 /\ (Serves(v, k)' => v \in on'[k]) /\ (Open(v, k)' => v \in on'[k])
      <4>1. Holds(v, k) => Holds(v, k)' BY <3>1, <3>2, <3>20 DEF Holds, UnsentKept, ToldKept
      <4>2. /\ Got(v, k) \/ Open(v, k) => Holds(v, k)
            /\ Serves(v, k) \/ Open(v, k) => v \in on[k]
            /\ ~remove[k] /\ v \in on[k] => v \in Unsent(k)
        BY <1>0, <3>3, <3>20, HeldSaid
      <4>3. Open(v, k)' = Open(v, k) BY <3>3 DEF Open
      <4>4. Serves(v, k)' => Serves(v, k) BY <3>3, <3>5 DEF Serves
      <4>5. Got(v, k)' => Got(v, k) \/ (~remove[k] /\ Serves(v, k)) BY <3>4, <3>5 DEF Got, Serves
      <4> QED BY <3>3, <4>1, <4>2, <4>3, <4>4, <4>5 DEF Holds
    <3> QED BY <3>20, HeldForm
  <2>2. CASE L!AcceptOwn(w)
    <3>1. exited \subseteq exited' BY <2>2 DEF L!AcceptOwn
    <3>2. UnsentKept
      BY <2>2, UnsentSame DEF L!AcceptOwn
    <3>3. ToldKept
      BY <2>2, ToldSame DEF L!AcceptOwn
    <3>4. \A k \in Listeners : mem'[k] = "live" => mem[k] = "live" /\ on'[k] = on[k]
      BY <1>0, <2>2 DEF L!AcceptOwn, L!TypeOK
    <3>5. \A k \in Listeners : \A v \in Watchers \ exited :
            /\ Got(v, k)' => Got(v, k)
            /\ Open(v, k)' => Open(v, k)
            /\ Serves(v, k)' => Serves(v, k) \/ Open(v, k)
      <4>1. /\ accept'[w].lsn = accept[w].lsn /\ accept'[w].at = "cb" /\ accept[w].at = "got"
            /\ \A v \in Watchers : v # w => accept'[v] = accept[v]
        <5>1. L!AcceptTo(w, "cb") /\ accept[w].at = "got" BY <2>2, AcceptFrom DEF L!AcceptOwn
        <5>2. /\ accept'[w] = [lsn |-> accept[w].lsn, at |-> "cb"]
              /\ \A v \in Watchers : v # w => accept'[v] = accept[v]
          BY <1>0, <5>1, AcceptGoes DEF L!Phases
        <5> QED BY <5>1, <5>2
      <4> QED BY <2>2, <4>1 DEF Got, Open, Serves, L!AcceptOwn
    <3> QED BY <1>0, <3>1, <3>2, <3>3, <3>4, <3>5, HeldStill
  <2>3. CASE L!AcceptBack(w)
    <3>1. exited \subseteq exited' BY <2>3 DEF L!AcceptBack
    <3>2. UnsentKept
      BY <2>3, UnsentSame DEF L!AcceptBack
    <3>3. ToldKept
      BY <2>3, ToldSame DEF L!AcceptBack
    <3>4. \A k \in Listeners : mem'[k] = "live" => mem[k] = "live" /\ on'[k] = on[k]
      BY <1>0, <2>3 DEF L!AcceptBack, L!TypeOK
    <3>5. \A k \in Listeners : \A v \in Watchers \ exited :
            /\ Got(v, k)' => Got(v, k)
            /\ Open(v, k)' => Open(v, k)
            /\ Serves(v, k)' => Serves(v, k) \/ Open(v, k)
      <4>1. /\ accept'[w].lsn = accept[w].lsn /\ accept'[w].at = "loop" /\ accept[w].at = "cb"
            /\ \A v \in Watchers : v # w => accept'[v] = accept[v]
        <5>1. L!AcceptTo(w, "loop") /\ accept[w].at = "cb" BY <2>3, AcceptFrom DEF L!AcceptBack
        <5>2. /\ accept'[w] = [lsn |-> accept[w].lsn, at |-> "loop"]
              /\ \A v \in Watchers : v # w => accept'[v] = accept[v]
          BY <1>0, <5>1, AcceptGoes DEF L!Phases
        <5> QED BY <5>1, <5>2
      <4> QED BY <2>3, <4>1 DEF Got, Open, Serves, L!AcceptBack
    <3> QED BY <1>0, <3>1, <3>2, <3>3, <3>4, <3>5, HeldStill
  <2>4. CASE L!AcceptEnd(w)
    <3>1. exited \subseteq exited' BY <2>4 DEF L!AcceptEnd
    <3>2. UnsentKept
      BY <2>4, UnsentSame DEF L!AcceptEnd
    <3>3. ToldKept
      BY <2>4, ToldSame DEF L!AcceptEnd
    <3>4. \A k \in Listeners : mem'[k] = "live" => mem[k] = "live" /\ on'[k] = on[k]
      BY <1>0, <2>4 DEF L!AcceptEnd, L!TypeOK
    <3>5. \A k \in Listeners : \A v \in Watchers \ exited :
            /\ Got(v, k)' => Got(v, k)
            /\ Open(v, k)' => Open(v, k)
            /\ Serves(v, k)' => Serves(v, k) \/ Open(v, k)
      <4>1. /\ accept'[w] = L!NoAccept /\ accept'[w].at = "none" /\ accept'[w].lsn \notin Listeners
            /\ \A v \in Watchers : v # w => accept'[v] = accept[v]
        BY <1>0, <2>4, LisSetting DEF L!AcceptEnd, L!TypeOK, L!NoAccept
      <4> QED BY <2>4, <4>1 DEF Got, Open, Serves, L!AcceptEnd
    <3> QED BY <1>0, <3>1, <3>2, <3>3, <3>4, <3>5, HeldStill
  <2>5. CASE L!AcceptPause(w)
    <3>1. UnsentKept BY <2>5, UnsentSame DEF L!AcceptPause
    <3>2. ToldKept BY <2>5, ToldSame DEF L!AcceptPause
    <3>3. UNCHANGED <<mem, on, fd, lsn_batch, exited>> BY <2>5 DEF L!AcceptPause
    <3>4. ~remove[accept[w].lsn] /\ accept[w].at = "loop" BY <2>5, AcceptFrom DEF L!AcceptPause
    <3>6. /\ \A k \in Listeners : reg'[k] \subseteq reg[k]
          /\ \A k \in Listeners : k # accept[w].lsn => backoff'[k] = backoff[k]
          /\ \A k \in Listeners : backoff'[k] \subseteq backoff[k] \cup {w}
      BY <1>0, <2>5 DEF L!AcceptPause, L!TypeOK
    <3>5. /\ accept'[w].at = "none" /\ accept'[w].lsn \notin Listeners
          /\ \A v \in Watchers : v # w => accept'[v] = accept[v]
      BY <1>0, <2>5, LisSetting DEF L!AcceptPause, L!TypeOK, L!NoAccept
    <3>20. ASSUME NEW k \in Listeners, NEW v \in Watchers \ exited', mem'[k] = "live"
          PROVE  /\ (Got(v, k)' => Holds(v, k)') /\ (Open(v, k)' => Holds(v, k)')
                 /\ (Serves(v, k)' => v \in on'[k]) /\ (Open(v, k)' => v \in on'[k])
      <4>1. Holds(v, k) => Holds(v, k)' BY <3>1, <3>2, <3>20 DEF Holds, UnsentKept, ToldKept
      <4>2. /\ Got(v, k) \/ Open(v, k) => Holds(v, k)
            /\ Serves(v, k) \/ Open(v, k) => v \in on[k]
            /\ ~remove[k] /\ v \in on[k] => v \in Unsent(k)
        BY <1>0, <3>3, <3>20, HeldSaid
      <4>3. Open(v, k)' => Open(v, k) \/ (~remove[k] /\ Serves(v, k))
        BY <3>3, <3>4, <3>6 DEF Open, Serves
      <4>4. Serves(v, k)' => Serves(v, k) BY <3>3, <3>5 DEF Serves
      <4>5. Got(v, k)' => Got(v, k) BY <3>5 DEF Got
      <4> QED BY <3>3, <4>1, <4>2, <4>3, <4>4, <4>5 DEF Holds
    <3> QED BY <3>20, HeldForm
  <2>6. CASE L!AcceptLost(w)
    <3>1. exited \subseteq exited' BY <2>6 DEF L!AcceptLost
    <3>2. UnsentKept
      BY <2>6, UnsentSame DEF L!AcceptLost
    <3>3. ToldKept
      BY <2>6, ToldSame DEF L!AcceptLost
    <3>4. \A k \in Listeners : mem'[k] = "live" => mem[k] = "live" /\ on'[k] = on[k]
      BY <1>0, <2>6 DEF L!AcceptLost, L!TypeOK
    <3>5. \A k \in Listeners : \A v \in Watchers \ exited :
            /\ Got(v, k)' => Got(v, k)
            /\ Open(v, k)' => Open(v, k)
            /\ Serves(v, k)' => Serves(v, k) \/ Open(v, k)
      <4>1. /\ accept'[w] = L!NoAccept /\ accept'[w].at = "none" /\ accept'[w].lsn \notin Listeners
            /\ \A v \in Watchers : v # w => accept'[v] = accept[v]
        BY <1>0, <2>6, LisSetting DEF L!AcceptLost, L!TypeOK, L!NoAccept
      <4>2. /\ UNCHANGED <<lsn_batch, backoff>>
            /\ \A k \in Listeners : fd'[k] \subseteq fd[k] /\ reg'[k] \subseteq reg[k]
        BY <1>0, <2>6 DEF L!AcceptLost, L!TypeOK
      <4> QED BY <4>1, <4>2 DEF Got, Open, Serves
    <3> QED BY <1>0, <3>1, <3>2, <3>3, <3>4, <3>5, HeldStill
  <2>7. ASSUME NEW to \in Watchers, L!AcceptGive(w, to) PROVE Held'
    <3>1. exited \subseteq exited' BY <2>7 DEF L!AcceptGive
    <3>2. UnsentKept
      BY <2>7, UnsentSame DEF L!AcceptGive
    <3>3. ToldKept
      <4>1. accept[w].lsn \in Listeners
        <5>1. accept[w].at = "got" BY <2>7, AcceptFrom
        <5> QED BY <1>0, <5>1, AcceptingOn DEF L!Phases
      <4>2. L!Cmd("ADDACP", accept[w].lsn) \in Cmds BY <4>1, CmdNames
      <4>3. QueueSent(to, L!Cmd("ADDACP", accept[w].lsn)) BY <2>7, SendForm DEF L!AcceptGive
      <4> QED BY <1>0, <4>2, <4>3, ToldSent
    <3>4. \A k \in Listeners : mem'[k] = "live" => mem[k] = "live" /\ on'[k] = on[k]
      BY <1>0, <2>7 DEF L!AcceptGive, L!TypeOK
    <3>5. \A k \in Listeners : \A v \in Watchers \ exited :
            /\ Got(v, k)' => Got(v, k)
            /\ Open(v, k)' => Open(v, k)
            /\ Serves(v, k)' => Serves(v, k) \/ Open(v, k)
      <4>1. /\ accept'[w].lsn = accept[w].lsn /\ accept'[w].at = "loop" /\ accept[w].at = "got"
            /\ \A v \in Watchers : v # w => accept'[v] = accept[v]
        <5>1. L!AcceptTo(w, "loop") /\ accept[w].at = "got" BY <2>7, AcceptFrom DEF L!AcceptGive
        <5>2. /\ accept'[w] = [lsn |-> accept[w].lsn, at |-> "loop"]
              /\ \A v \in Watchers : v # w => accept'[v] = accept[v]
          BY <1>0, <5>1, AcceptGoes DEF L!Phases
        <5> QED BY <5>1, <5>2
      <4> QED BY <2>7, <4>1 DEF Got, Open, Serves, L!AcceptGive
    <3> QED BY <1>0, <3>1, <3>2, <3>3, <3>4, <3>5, HeldStill
  <2> QED BY <1>4, <2>1, <2>2, <2>3, <2>4, <2>5, <2>6, <2>7 DEF L!Accept
<1>5. ASSUME NEW w \in Watchers, L!Commanded(w) PROVE Held'
  <2>1. CASE L!CmdLsn(w)
    <3>1. exited \subseteq exited' BY <2>1 DEF L!CmdLsn
    <3>2. UnsentKept
      BY <2>1, UnsentSame DEF L!CmdLsn
    <3>3. ToldKept
      <4>1. QueueTaken(w) /\ Head(queue[w]).cmd = "LSN" BY <2>1, TakeForm DEF L!CmdLsn
      <4> QED BY <1>0, <4>1, ToldTaken DEF ToldKept
    <3>4. \A k \in Listeners : mem'[k] = "live" => mem[k] = "live" /\ on'[k] = on[k]
      BY <1>0, <2>1 DEF L!CmdLsn, L!TypeOK
    <3>5. \A k \in Listeners : \A v \in Watchers \ exited :
            /\ Got(v, k)' => Got(v, k)
            /\ Open(v, k)' => Open(v, k)
            /\ Serves(v, k)' => Serves(v, k) \/ Open(v, k)
      <4>1. UNCHANGED <<lsn_batch, backoff, accept>> BY <2>1 DEF L!CmdLsn, L!AddLsn
      <4>2. \A k \in Listeners : fd'[k] \subseteq fd[k] /\ reg'[k] \subseteq reg[k] \cup fd[k]
        <5>1. PICK l : l = Head(queue[w]).lsn OBVIOUS
        <5>2. L!AddLsn(w, l) BY <2>1, <5>1 DEF L!CmdLsn
        <5>6. l \in Listeners
          <6>1. queue[w] # <<>> /\ Head(queue[w]).cmd = "LSN" /\ w \notin exited
            BY <2>1, TakeForm DEF L!CmdLsn, QueueTaken
          <6> QED BY <1>0, <5>1, <6>1, Heads
        <5>3. CASE L!AddLsn(w, l) BY <1>0, <5>3, <5>6, AddSockets
        <5>4. CASE UNCHANGED <<fd, reg>> BY <5>4
        <5> QED BY <5>2, <5>3, <5>4
      <4> QED BY <4>1, <4>2 DEF Got, Open, Serves
    <3> QED BY <1>0, <3>1, <3>2, <3>3, <3>4, <3>5, HeldStill
  <2>2. CASE L!CmdUnlsn(w)
    <3>0. PICK l : l = Head(queue[w]).lsn OBVIOUS
    <3>1. UnsentKept BY <2>2, UnsentSame DEF L!CmdUnlsn
    <3>2. QueueTaken(w) /\ Head(queue[w]).cmd = "UNLSN" /\ accept[w] = L!NoAccept
      BY <2>2, TakeForm DEF L!CmdUnlsn
    <3>3. UNCHANGED <<mem, on, accept, lsn_batch, exited>> BY <2>2 DEF L!CmdUnlsn
    <3>4. l \in Listeners BY <1>0, <3>0, <3>2, Heads DEF QueueTaken, Counting
    <3>6. /\ \A k \in Listeners : /\ fd'[k] \subseteq fd[k] /\ reg'[k] \subseteq reg[k]
                                     /\ backoff'[k] \subseteq backoff[k]
          /\ w \notin fd'[l] \cup reg'[l] \cup backoff'[l]
      <4>1. L!RemoveLsn(w, l, L!OneLess(w)) BY <2>2, <3>0 DEF L!CmdUnlsn
      <4> QED BY <1>0, <3>4, <4>1, RemoveSockets
    <3>20. ASSUME NEW k \in Listeners, NEW v \in Watchers \ exited', mem'[k] = "live"
          PROVE  /\ (Got(v, k)' => Holds(v, k)') /\ (Open(v, k)' => Holds(v, k)')
                 /\ (Serves(v, k)' => v \in on'[k]) /\ (Open(v, k)' => v \in on'[k])
      <4>1. /\ Got(v, k) \/ Open(v, k) => Holds(v, k)
            /\ Serves(v, k) \/ Open(v, k) => v \in on[k]
        BY <1>0, <3>3, <3>20, HeldSaid
      <4>2. Got(v, k)' = Got(v, k) /\ Serves(v, k)' = Serves(v, k) BY <3>3 DEF Got, Serves
      <4>3. Open(v, k)' => Open(v, k) BY <3>6, <3>20 DEF Open
      <4>4. CASE v = w /\ k = l
        <5>1. ~Open(v, k)' BY <3>6, <4>4 DEF Open
        <5>2. ~Got(v, k) BY <3>2, <4>4 DEF Got, L!NoAccept
        <5> QED BY <3>3, <4>1, <4>2, <5>1, <5>2
      <4>5. CASE v # w \/ k # l
        <5>1. Told(v, k) => Told(v, k)' BY <1>0, <3>0, <3>2, <4>5, ToldTaken
        <5>2. Holds(v, k) => Holds(v, k)' BY <3>1, <5>1 DEF Holds, UnsentKept
        <5> QED BY <3>3, <4>1, <4>2, <4>3, <5>2
      <4> QED BY <4>4, <4>5
    <3> QED BY <3>20, HeldForm
  <2>3. CASE L!CmdLsnUnref(w)
    <3>1. exited \subseteq exited' BY <2>3 DEF L!CmdLsnUnref
    <3>2. UnsentKept
      BY <2>3, UnsentSame DEF L!CmdLsnUnref
    <3>3. ToldKept
      <4>1. QueueTaken(w) /\ Head(queue[w]).cmd = "LSN_UNREF" BY <2>3, TakeForm DEF L!CmdLsnUnref
      <4> QED BY <1>0, <4>1, ToldTaken DEF ToldKept
    <3>4. \A k \in Listeners : mem'[k] = "live" => mem[k] = "live" /\ on'[k] = on[k]
      BY <1>0, <2>3 DEF L!CmdLsnUnref, L!TypeOK
    <3>5. \A k \in Listeners : \A v \in Watchers \ exited :
            /\ Got(v, k)' => Got(v, k)
            /\ Open(v, k)' => Open(v, k)
            /\ Serves(v, k)' => Serves(v, k) \/ Open(v, k)
      BY <2>3 DEF Got, Open, Serves, L!CmdLsnUnref
    <3> QED BY <1>0, <3>1, <3>2, <3>3, <3>4, <3>5, HeldStill
  <2>4. CASE L!CmdAddAcp(w)
    <3>1. exited \subseteq exited' BY <2>4 DEF L!CmdAddAcp
    <3>2. UnsentKept
      BY <2>4, UnsentSame DEF L!CmdAddAcp
    <3>3. ToldKept
      <4>1. QueueTaken(w) /\ Head(queue[w]).cmd = "ADDACP" BY <2>4, TakeForm DEF L!CmdAddAcp
      <4> QED BY <1>0, <4>1, ToldTaken DEF ToldKept
    <3>4. \A k \in Listeners : mem'[k] = "live" => mem[k] = "live" /\ on'[k] = on[k]
      BY <1>0, <2>4 DEF L!CmdAddAcp, L!TypeOK
    <3>5. \A k \in Listeners : \A v \in Watchers \ exited :
            /\ Got(v, k)' => Got(v, k)
            /\ Open(v, k)' => Open(v, k)
            /\ Serves(v, k)' => Serves(v, k) \/ Open(v, k)
      <4>1. /\ accept'[w].at = "added" /\ \A v \in Watchers : v # w => accept'[v] = accept[v]
        BY <1>0, <2>4 DEF L!CmdAddAcp, L!TypeOK
      <4> QED BY <2>4, <4>1 DEF Got, Open, Serves, L!CmdAddAcp
    <3> QED BY <1>0, <3>1, <3>2, <3>3, <3>4, <3>5, HeldStill
  <2>5. CASE L!AddedEnd(w)
    <3>1. exited \subseteq exited' BY <2>5 DEF L!AddedEnd
    <3>2. UnsentKept
      BY <2>5, UnsentSame DEF L!AddedEnd
    <3>3. ToldKept
      BY <2>5, ToldSame DEF L!AddedEnd
    <3>4. \A k \in Listeners : mem'[k] = "live" => mem[k] = "live" /\ on'[k] = on[k]
      BY <1>0, <2>5 DEF L!AddedEnd, L!TypeOK
    <3>5. \A k \in Listeners : \A v \in Watchers \ exited :
            /\ Got(v, k)' => Got(v, k)
            /\ Open(v, k)' => Open(v, k)
            /\ Serves(v, k)' => Serves(v, k) \/ Open(v, k)
      <4>1. /\ accept'[w] = L!NoAccept /\ accept'[w].at = "none" /\ accept'[w].lsn \notin Listeners
            /\ \A v \in Watchers : v # w => accept'[v] = accept[v]
        BY <1>0, <2>5, LisSetting DEF L!AddedEnd, L!TypeOK, L!NoAccept
      <4> QED BY <2>5, <4>1 DEF Got, Open, Serves, L!AddedEnd
    <3> QED BY <1>0, <3>1, <3>2, <3>3, <3>4, <3>5, HeldStill
  <2>6. CASE L!CmdStop(w)
    <3>1. exited \subseteq exited' BY <2>6 DEF L!CmdStop
    <3>2. UnsentKept
      BY <2>6, UnsentSame DEF L!CmdStop
    <3>3. ToldKept
      <4>1. QueueTaken(w) /\ Head(queue[w]).cmd = "STOP" BY <2>6, TakeForm DEF L!CmdStop
      <4> QED BY <1>0, <4>1, ToldTaken DEF ToldKept
    <3>4. \A k \in Listeners : mem'[k] = "live" => mem[k] = "live" /\ on'[k] = on[k]
      BY <1>0, <2>6 DEF L!CmdStop, L!TypeOK
    <3>5. \A k \in Listeners : \A v \in Watchers \ exited :
            /\ Got(v, k)' => Got(v, k)
            /\ Open(v, k)' => Open(v, k)
            /\ Serves(v, k)' => Serves(v, k) \/ Open(v, k)
      BY <2>6 DEF Got, Open, Serves, L!CmdStop
    <3> QED BY <1>0, <3>1, <3>2, <3>3, <3>4, <3>5, HeldStill
  <2> QED BY <1>5, <2>1, <2>2, <2>3, <2>4, <2>5, <2>6 DEF L!Commanded
<1>6. CASE L!Free
  <2>1. CASE L!FreeStart
    <3>1. exited \subseteq exited' BY <2>1 DEF L!FreeStart
    <3>2. UnsentKept
      BY <2>1, UnsentSame DEF L!FreeStart
    <3>3. ToldKept
      BY <1>0, <2>1, ToldStops DEF L!FreeStart
    <3>4. \A k \in Listeners : mem'[k] = "live" => mem[k] = "live" /\ on'[k] = on[k]
      BY <1>0, <2>1 DEF L!FreeStart, L!TypeOK
    <3>5. \A k \in Listeners : \A v \in Watchers \ exited :
            /\ Got(v, k)' => Got(v, k)
            /\ Open(v, k)' => Open(v, k)
            /\ Serves(v, k)' => Serves(v, k) \/ Open(v, k)
      BY <2>1 DEF Got, Open, Serves, L!FreeStart
    <3> QED BY <1>0, <3>1, <3>2, <3>3, <3>4, <3>5, HeldStill
  <2>2. CASE L!FreeAll
    <3>1. exited \subseteq exited' BY <2>2 DEF L!FreeAll
    <3>2. UnsentKept
      BY <2>2, UnsentSame DEF L!FreeAll
    <3>3. ToldKept
      BY <2>2, ToldSame DEF L!FreeAll
    <3>4. \A k \in Listeners : mem'[k] = "live" => mem[k] = "live" /\ on'[k] = on[k]
      BY <1>0, <2>2 DEF L!FreeAll, L!TypeOK
    <3>5. \A k \in Listeners : \A v \in Watchers \ exited :
            /\ Got(v, k)' => Got(v, k)
            /\ Open(v, k)' => Open(v, k)
            /\ Serves(v, k)' => Serves(v, k) \/ Open(v, k)
      BY <1>0, <2>2 DEF Got, Open, Serves, L!TypeOK, L!FreeAll
    <3> QED BY <1>0, <3>1, <3>2, <3>3, <3>4, <3>5, HeldStill
  <2>3. ASSUME NEW w \in Watchers, L!Exit(w) PROVE Held'
    <3>1. exited \subseteq exited' BY <2>3 DEF L!Exit
    <3>2. UnsentKept
      BY <2>3, UnsentSame DEF L!Exit
    <3>3. ToldKept
      BY <2>3, ToldSame DEF L!Exit
    <3>4. \A k \in Listeners : mem'[k] = "live" => mem[k] = "live" /\ on'[k] = on[k]
      BY <1>0, <2>3 DEF L!Exit, L!TypeOK
    <3>5. \A k \in Listeners : \A v \in Watchers \ exited :
            /\ Got(v, k)' => Got(v, k)
            /\ Open(v, k)' => Open(v, k)
            /\ Serves(v, k)' => Serves(v, k) \/ Open(v, k)
      BY <1>0, <2>3 DEF Got, Open, Serves, L!TypeOK, L!Exit, L!InLoop
    <3> QED BY <1>0, <3>1, <3>2, <3>3, <3>4, <3>5, HeldStill
  <2>4. ASSUME NEW w \in Watchers, L!Drain(w) PROVE Held'
    BY <2>4 DEF L!Drain, Held
  <2>5. ASSUME NEW w \in Watchers, L!Flush(w) PROVE Held'
    <3>1. exited \subseteq exited' BY <2>5 DEF L!Flush
    <3>2. UnsentKept
      BY <2>5, UnsentSame DEF L!Flush
    <3>3. ToldKept
      BY <2>5, ToldSame DEF L!Flush
    <3>4. \A k \in Listeners : mem'[k] = "live" => mem[k] = "live" /\ on'[k] = on[k]
      BY <1>0, <2>5 DEF L!Flush, L!TypeOK
    <3>5. \A k \in Listeners : \A v \in Watchers \ exited :
            /\ Got(v, k)' => Got(v, k)
            /\ Open(v, k)' => Open(v, k)
            /\ Serves(v, k)' => Serves(v, k) \/ Open(v, k)
      BY <1>0, <2>5 DEF Got, Open, Serves, L!TypeOK, L!Flush
    <3> QED BY <1>0, <3>1, <3>2, <3>3, <3>4, <3>5, HeldStill
  <2> QED BY <1>6, <2>1, <2>2, <2>3, <2>4, <2>5 DEF L!Free
<1>7. CASE UNCHANGED L!vars
  <2>1. exited \subseteq exited' BY <1>7 DEF L!vars
  <2>2. UnsentKept
    BY <1>7, UnsentSame DEF L!vars
  <2>3. ToldKept
    BY <1>7, ToldSame DEF L!vars
  <2>4. \A k \in Listeners : mem'[k] = "live" => mem[k] = "live" /\ on'[k] = on[k]
    BY <1>0, <1>7 DEF L!vars, L!TypeOK
  <2>5. \A k \in Listeners : \A v \in Watchers \ exited :
          /\ Got(v, k)' => Got(v, k)
          /\ Open(v, k)' => Open(v, k)
          /\ Serves(v, k)' => Serves(v, k) \/ Open(v, k)
    BY <1>7 DEF Got, Open, Serves, L!vars
  <2> QED BY <1>0, <2>1, <2>2, <2>3, <2>4, <2>5, HeldStill
<1> QED BY <1>1, <1>2, <1>3, <1>4, <1>5, <1>6, <1>7 DEF L!Next

-----------------------------------------------------------------------------
(* Nothing leads to a listener that was freed *)

Known(l) == l \in arrlsn
Called(l) == \E a \in L!Actors : call[a].lsn = l
Polled(l) ==
  \E w \in Watchers : w \notin exited /\ (w \in reg[l] \/ l \in lsn_batch[w] \/ w \in backoff[l])
Kept(l) == \E w \in Watchers : accept[w].lsn = l \/ l \in qtn[w]
Queued(l) ==
  \E w \in Watchers : \E i \in DOMAIN queue[w] :
    queue[w][i].lsn = l /\ (w \notin exited \/ queue[w][i].cmd # "LSN")

\* The ways to a listener, one by one.
LEMMA LeadForm ==
  ASSUME NEW l
  PROVE  Leads(l) <=> Known(l) \/ Called(l) \/ Polled(l) \/ Kept(l) \/ Queued(l)
BY DEF Leads, L!ReadBy, Known, Called, Polled, Kept, Queued

LEMMA LeadFormNext ==
  ASSUME NEW l
  PROVE  Leads(l)' <=> Known(l)' \/ Called(l)' \/ Polled(l)' \/ Kept(l)' \/ Queued(l)'
BY DEF Leads, L!ReadBy, Known, Called, Polled, Kept, Queued

\* What the invariant says of them.
LEMMA LiveSaid ==
  ASSUME LisInv, NEW l \in Listeners,
         Known(l) \/ Called(l) \/ Polled(l) \/ Kept(l) \/ Queued(l)
  PROVE  mem[l] = "live"
BY LeadForm DEF LisInv, Reached

\* No new way leads to a listener that does not live.
LEMMA ReachedStill ==
  ASSUME LisInv, mem' = mem,
         \A l \in Listeners :
           /\ Known(l)' => Known(l) \/ mem[l] = "live"
           /\ Called(l)' => Called(l) \/ mem[l] = "live"
           /\ Polled(l)' => Polled(l) \/ mem[l] = "live"
           /\ Kept(l)' => Kept(l) \/ mem[l] = "live"
           /\ Queued(l)' => Queued(l) \/ mem[l] = "live"
  PROVE  Reached'
<1>1. ASSUME NEW l \in Listeners, Leads(l)' PROVE mem'[l] = "live"
  BY <1>1, LeadFormNext, LiveSaid
<1> QED BY <1>1 DEF Reached

\* The commands that name a listener, in a step that leaves the queues alone,
LEMMA QueuedSame ==
  ASSUME queue' = queue, exited \subseteq exited', NEW l
  PROVE  Queued(l)' => Queued(l)
BY DEF Queued

\* that sends,
LEMMA QueuedSent ==
  ASSUME L!TypeOK, NEW w \in Watchers, NEW c \in Cmds, QueueSent(w, c), exited' = exited, NEW l,
         Queued(l)'
  PROVE  Queued(l) \/ c.lsn = l
<1>1. PICK v \in Watchers : \E i \in DOMAIN queue'[v] :
        queue'[v][i].lsn = l /\ (v \notin exited' \/ queue'[v][i].cmd # "LSN")
  BY DEF Queued
<1>2. PICK i \in DOMAIN queue'[v] :
        queue'[v][i].lsn = l /\ (v \notin exited' \/ queue'[v][i].cmd # "LSN")
  BY <1>1
<1>3. \/ i \in DOMAIN queue[v] /\ queue'[v][i] = queue[v][i]
      \/ queue'[v][i] = c
  BY SentMembers
<1> QED BY <1>2, <1>3 DEF Queued

\* or that takes.
LEMMA QueuedTaken ==
  ASSUME L!TypeOK, NEW w \in Watchers, QueueTaken(w), exited' = exited, NEW l, Queued(l)'
  PROVE  Queued(l)
<1>1. PICK v \in Watchers : \E i \in DOMAIN queue'[v] :
        queue'[v][i].lsn = l /\ (v \notin exited' \/ queue'[v][i].cmd # "LSN")
  BY DEF Queued
<1>2. PICK i \in DOMAIN queue'[v] :
        queue'[v][i].lsn = l /\ (v \notin exited' \/ queue'[v][i].cmd # "LSN")
  BY <1>1
<1>3. \E j \in DOMAIN queue[v] : queue'[v][i] = queue[v][j]
  <2>1. CASE v = w BY <1>2, <2>1, TakenMembers
  <2>2. CASE v # w BY <1>2, <2>2, TakenMembers
  <2> QED BY <2>1, <2>2
<1> QED BY <1>2, <1>3 DEF Queued

\* A command that names a listener and that counts after the end holds a reference.
LEMMA QueuedCounts ==
  ASSUME L!TypeOK, NEW l \in Listeners, NEW w \in Watchers, NEW i \in DOMAIN queue[w],
         queue[w][i].lsn = l, queue[w][i].cmd # "LSN"
  PROVE  Mentions(queue[w][i], l) /\ Used(l)
<1>1. queue[w] \in Seq(Cmds) BY DEF L!TypeOK, Cmds
<1>2. queue[w][i] \in Cmds BY <1>1
<1>3. queue[w][i].cmd \in Counting BY <1>2, LisSetting DEF Cmds, L!Commands, L!Cmd, Counting
<1>4. Mentions(queue[w][i], l) BY <1>3 DEF Mentions
<1> QED BY <1>4 DEF Used

\* When all watchers have exited, nobody is in a call or in an accept.
LEMMA AllOut ==
  ASSUME LisInv, exited = Watchers
  PROVE  /\ \A w \in Watchers : accept[w] = L!NoAccept
         /\ \A a \in L!Actors : call[a] = L!NoCall
         /\ \A l \in Listeners : ~Called(l) /\ ~Polled(l)
         /\ \A l \in Listeners : \A w \in Watchers : accept[w].lsn # l
<1>1. \A w \in Watchers : accept[w] = L!NoAccept /\ call[w] = L!NoCall BY DEF LisInv, Outside
<1>2. stage # "no" BY LisSetting DEF LisInv, Stopping
<1>3. \A u \in Users : call[u] = L!NoCall BY <1>2 DEF LisInv, Stopping
<1>4. \A a \in L!Actors : call[a] = L!NoCall BY <1>1, <1>3 DEF L!Actors
<1> QED BY <1>1, <1>4, LisSetting DEF Called, Polled, L!NoCall, L!NoAccept

\* When the last command that counts is taken, no other is left.
LEMMA LastTaken ==
  ASSUME L!TypeOK, NEW w \in Watchers, QueueTaken(w), NEW l \in Listeners,
         Mentions(Head(queue[w]), l), Cardinality(InQueues(l)) = 1, NEW v \in Watchers,
         NEW i \in DOMAIN queue'[v], queue'[v][i].lsn = l, queue'[v][i].cmd # "LSN"
  PROVE  FALSE
<1>1. queue[w] \in Seq(Cmds) /\ queue[w] # <<>> BY DEF L!TypeOK, Cmds, QueueTaken
<1>2. 1 \in DOMAIN queue[w] /\ Head(queue[w]) = queue[w][1] BY <1>1, Taken
<1>3. <<w, 1>> \in InQueues(l)
  <2>1. 1 \in Owes(queue[w], l) BY <1>2 DEF Owes, Mentions
  <2> QED BY <2>1, InQueue
<1>4. PICK j \in DOMAIN queue[v] : queue[v][j] = queue'[v][i] /\ <<v, j>> # <<w, 1>>
  <2>1. CASE v = w
    <3>1. i \in Nat \ {0} /\ i + 1 \in DOMAIN queue[w] /\ queue'[w][i] = queue[w][i + 1]
      BY <2>1, TakenMembers
    <3>2. i + 1 # 1 BY <3>1
    <3> QED BY <2>1, <3>1, <3>2
  <2>2. CASE v # w BY <2>2, TakenMembers
  <2> QED BY <2>1, <2>2
<1>5. Mentions(queue[v][j], l) BY <1>4, QueuedCounts
<1>6. <<v, j>> \in InQueues(l)
  <2>1. j \in Owes(queue[v], l) BY <1>5 DEF Owes, Mentions
  <2> QED BY <2>1, InQueue
<1>7. IsFiniteSet(InQueues(l)) BY Terms
<1>8. Cardinality(InQueues(l) \ {<<w, 1>>}) = 0 /\ IsFiniteSet(InQueues(l) \ {<<w, 1>>})
  BY <1>3, <1>7, OneOut, FS_RemoveElement
<1>9. InQueues(l) \ {<<w, 1>>} = {} BY <1>8, FS_EmptySet
<1> QED BY <1>4, <1>6, <1>9

\* A reference that goes puts one listener in quarantine.
LEMMA UnrefQtn ==
  ASSUME L!TypeOK, NEW w \in Watchers, NEW l, NEW left, L!Unref(w, l, left)
  PROVE  \A v \in Watchers : qtn'[v] \subseteq qtn[v] \cup {l}
<1>1. CASE ref[l] = 1
  <2>1. qtn' = [qtn EXCEPT ![w] = @ \cup {l}] BY <1>1 DEF L!Unref
  <2>2. \A v \in Watchers : qtn'[v] = IF v = w THEN qtn[v] \cup {l} ELSE qtn[v]
    BY <2>1 DEF L!TypeOK
  <2> QED BY <2>2
<1>2. CASE ref[l] # 1 BY <1>2 DEF L!Unref
<1> QED BY <1>1, <1>2

\* Nothing leads to a listener that is gone.
LEMMA ReachedStep ==
  ASSUME LisInv, [L!Next]_(L!vars)
  PROVE  Reached'
<1> USE DEF L!lsnsock, L!grace, L!ending
<1>0. LisInv /\ L!TypeOK /\ L!TypeOK' BY TypeStep DEF LisInv
<1>1. ASSUME NEW a \in L!Actors, L!Listen(a) PROVE Reached'
  <2>1. ASSUME NEW l \in Listeners, NEW ws \in (SUBSET Watchers) \ {{}},
               L!ListenStart(a, l, ws)
        PROVE Reached'
    <3>1. /\ mem'[l] = "live" /\ \A k \in Listeners : k # l => mem'[k] = mem[k]
          /\ UNCHANGED <<arrlsn, reg, lsn_batch, backoff, accept, qtn, queue, exited>>
      BY <1>0, <2>1 DEF L!ListenStart, L!TypeOK
    <3>2. call'[a].lsn = l /\ \A b \in L!Actors : b # a => call'[b] = call[b]
      BY <1>0, <2>1, CallStarts
    <3>3. ASSUME NEW k \in Listeners, k # l, Leads(k)' PROVE mem'[k] = "live"
      <4>1. Known(k)' \/ Called(k)' \/ Polled(k)' \/ Kept(k)' \/ Queued(k)'
        BY <3>3, LeadFormNext
      <4>2. /\ (Known(k)' => Known(k)) /\ (Polled(k)' => Polled(k)) /\ (Kept(k)' => Kept(k))
            /\ (Queued(k)' => Queued(k))
        BY <3>1 DEF Known, Polled, Kept, Queued
      <4>3. Called(k)' => Called(k) BY <3>2, <3>3 DEF Called
      <4>4. mem[k] = "live" BY <1>0, <4>1, <4>2, <4>3, LiveSaid
      <4> QED BY <3>1, <3>3, <4>4
    <3> QED BY <3>1, <3>3 DEF Reached
  <2>2. ASSUME NEW w \in Watchers, L!ListenSend(a, w) PROVE Reached'
    <3>1. ASSUME NEW k \in Listeners
          PROVE  /\ Known(k)' => Known(k) \/ mem[k] = "live"
                 /\ Called(k)' => Called(k) \/ mem[k] = "live"
                 /\ Polled(k)' => Polled(k) \/ mem[k] = "live"
                 /\ Kept(k)' => Kept(k) \/ mem[k] = "live"
                 /\ Queued(k)' => Queued(k) \/ mem[k] = "live"
      <4>1. Known(k)' => Known(k) \/ mem[k] = "live"
        BY <2>2 DEF Known, L!ListenSend
      <4>2. Called(k)' => Called(k) \/ mem[k] = "live"
        <5>1. \A b \in L!Actors : call'[b].lsn = call[b].lsn \/ call'[b] = L!NoCall
          <6>1. CallNow(a, call[a].op, call[a].todo \ {w}) BY <1>0, <2>2, CallSends
          <6> QED BY <6>1 DEF CallNow, Callee
        <5> QED BY <5>1, LisSetting DEF Called, L!NoCall
      <4>3. Polled(k)' => Polled(k) \/ mem[k] = "live"
        <5>1. call[a].lsn \in Listeners /\ mem[call[a].lsn] = "live"
          <6>1. InCall(a) BY <2>2 DEF L!ListenSend, InCall
          <6> QED BY <1>0, <6>1, Calling DEF InCall
        <5>2. UNCHANGED <<lsn_batch, backoff, exited>> /\ (L!AddLsn(w, call[a].lsn) \/ reg' = reg)
          BY <2>2 DEF L!ListenSend, L!AddLsn
        <5>3. \A j \in Listeners : j # call[a].lsn => reg'[j] = reg[j]
          <6>1. CASE L!AddLsn(w, call[a].lsn) BY <1>0, <6>1 DEF L!AddLsn, L!TypeOK
          <6>2. CASE reg' = reg BY <6>2
          <6> QED BY <5>2, <6>1, <6>2
        <5> QED BY <5>1, <5>2, <5>3 DEF Polled
      <4>4. Kept(k)' => Kept(k) \/ mem[k] = "live"
        BY <1>0, <2>2 DEF Kept, L!TypeOK, L!ListenSend
      <4>5. Queued(k)' => Queued(k) \/ mem[k] = "live"
        <5>1. call[a].lsn \in Listeners /\ mem[call[a].lsn] = "live"
          <6>1. InCall(a) BY <2>2 DEF L!ListenSend, InCall
          <6> QED BY <1>0, <6>1, Calling DEF InCall
        <5>2. L!Cmd("LSN", call[a].lsn) \in Cmds /\ L!Cmd("LSN", call[a].lsn).lsn = call[a].lsn
          BY <5>1, CmdNames
        <5>3. CASE a # w
          <6>1. QueueSent(w, L!Cmd("LSN", call[a].lsn)) /\ exited' = exited BY <2>2, <5>3, SendForm
            DEF L!ListenSend
          <6> QED BY <1>0, <5>1, <5>2, <6>1, LisSetting, QueuedSent
        <5>4. CASE a = w BY <2>2, <5>4, QueuedSame DEF L!ListenSend
        <5> QED BY <5>3, <5>4
      <4> QED BY <4>1, <4>2, <4>3, <4>4, <4>5
    <3>2. mem' = mem BY <2>2 DEF L!ListenSend
    <3> QED BY <1>0, <3>1, <3>2, ReachedStill
  <2>3. CASE L!ListenEnd(a)
    <3>1. ASSUME NEW k \in Listeners
          PROVE  /\ Known(k)' => Known(k) \/ mem[k] = "live"
                 /\ Called(k)' => Called(k) \/ mem[k] = "live"
                 /\ Polled(k)' => Polled(k) \/ mem[k] = "live"
                 /\ Kept(k)' => Kept(k) \/ mem[k] = "live"
                 /\ Queued(k)' => Queued(k) \/ mem[k] = "live"
      <4>1. Known(k)' => Known(k) \/ mem[k] = "live"
        <5>1. arrlsn' = arrlsn \cup {call[a].lsn} BY <2>3 DEF L!ListenEnd
        <5>2. call[a].lsn \in Listeners /\ mem[call[a].lsn] = "live"
          <6>1. InCall(a) BY <2>3 DEF L!ListenEnd, InCall
          <6> QED BY <1>0, <6>1, Calling DEF InCall
        <5> QED BY <5>1, <5>2 DEF Known
      <4>2. Called(k)' => Called(k) \/ mem[k] = "live"
        <5>1. \A b \in L!Actors : call'[b].lsn = call[b].lsn \/ call'[b] = L!NoCall
          BY <1>0, <2>3, CallEnds
        <5> QED BY <5>1, LisSetting DEF Called, L!NoCall
      <4>3. Polled(k)' => Polled(k) \/ mem[k] = "live"
        BY <1>0, <2>3 DEF Polled, L!TypeOK, L!ListenEnd
      <4>4. Kept(k)' => Kept(k) \/ mem[k] = "live"
        BY <1>0, <2>3 DEF Kept, L!TypeOK, L!ListenEnd
      <4>5. Queued(k)' => Queued(k) \/ mem[k] = "live"
        BY <2>3, QueuedSame DEF L!ListenEnd
      <4> QED BY <4>1, <4>2, <4>3, <4>4, <4>5
    <3>2. mem' = mem BY <2>3 DEF L!ListenEnd
    <3> QED BY <1>0, <3>1, <3>2, ReachedStill
  <2> QED BY <1>1, <2>1, <2>2, <2>3 DEF L!Listen
<1>2. ASSUME NEW a \in L!Actors, L!Unlisten(a) PROVE Reached'
  <2>1. ASSUME NEW l \in Listeners, L!UnlistenTake(a, l) PROVE Reached'
    <3>1. ASSUME NEW k \in Listeners
          PROVE  /\ Known(k)' => Known(k) \/ mem[k] = "live"
                 /\ Called(k)' => Called(k) \/ mem[k] = "live"
                 /\ Polled(k)' => Polled(k) \/ mem[k] = "live"
                 /\ Kept(k)' => Kept(k) \/ mem[k] = "live"
                 /\ Queued(k)' => Queued(k) \/ mem[k] = "live"
      <4>1. Known(k)' => Known(k) \/ mem[k] = "live"
        BY <2>1 DEF Known, L!UnlistenTake
      <4>2. Called(k)' => Called(k) \/ mem[k] = "live"
        <5>1. l \in arrlsn BY <2>1 DEF L!UnlistenTake
        <5>2. mem[l] = "live" BY <1>0, <5>1, LiveSaid DEF Known
        <5>3. call'[a].lsn = l /\ \A b \in L!Actors : b # a => call'[b] = call[b]
          BY <1>0, <2>1, CallStarts
        <5> QED BY <5>2, <5>3 DEF Called
      <4>3. Polled(k)' => Polled(k) \/ mem[k] = "live"
        BY <1>0, <2>1 DEF Polled, L!TypeOK, L!UnlistenTake
      <4>4. Kept(k)' => Kept(k) \/ mem[k] = "live"
        BY <1>0, <2>1 DEF Kept, L!TypeOK, L!UnlistenTake
      <4>5. Queued(k)' => Queued(k) \/ mem[k] = "live"
        BY <2>1, QueuedSame DEF L!UnlistenTake
      <4> QED BY <4>1, <4>2, <4>3, <4>4, <4>5
    <3>2. mem' = mem BY <2>1 DEF L!UnlistenTake
    <3> QED BY <1>0, <3>1, <3>2, ReachedStill
  <2>2. ASSUME NEW w \in Watchers, L!UnlistenSend(a, w) PROVE Reached'
    <3>1. ASSUME NEW k \in Listeners
          PROVE  /\ Known(k)' => Known(k) \/ mem[k] = "live"
                 /\ Called(k)' => Called(k) \/ mem[k] = "live"
                 /\ Polled(k)' => Polled(k) \/ mem[k] = "live"
                 /\ Kept(k)' => Kept(k) \/ mem[k] = "live"
                 /\ Queued(k)' => Queued(k) \/ mem[k] = "live"
      <4>1. Known(k)' => Known(k) \/ mem[k] = "live"
        BY <2>2 DEF Known, L!UnlistenSend
      <4>2. Called(k)' => Called(k) \/ mem[k] = "live"
        <5>1. \A b \in L!Actors : call'[b].lsn = call[b].lsn \/ call'[b] = L!NoCall
          <6>1. CallNow(a, call[a].op, call[a].todo \ {w}) BY <1>0, <2>2, CallSends
          <6> QED BY <6>1 DEF CallNow, Callee
        <5> QED BY <5>1, LisSetting DEF Called, L!NoCall
      <4>3. Polled(k)' => Polled(k) \/ mem[k] = "live"
        <5>1. UNCHANGED <<lsn_batch, exited>> BY <2>2 DEF L!UnlistenSend
        <5>2. reg'[k] \subseteq reg[k] /\ backoff'[k] \subseteq backoff[k]
          <6>1. CASE a = w
            <7>1. call[a].lsn \in Listeners
              <8>1. InCall(a) BY <2>2 DEF L!UnlistenSend, InCall
              <8> QED BY <1>0, <8>1, Calling DEF InCall
            <7>2. L!RemoveLsn(w, call[a].lsn, ahead) BY <2>2, <6>1 DEF L!UnlistenSend
            <7> QED BY <1>0, <7>1, <7>2, RemoveSockets
          <6>2. CASE a # w BY <2>2, <6>2 DEF L!UnlistenSend
          <6> QED BY <6>1, <6>2
        <5> QED BY <5>1, <5>2 DEF Polled
      <4>4. Kept(k)' => Kept(k) \/ mem[k] = "live"
        <5>1. call[a].lsn \in Listeners /\ mem[call[a].lsn] = "live"
          <6>1. InCall(a) BY <2>2 DEF L!UnlistenSend, InCall
          <6> QED BY <1>0, <6>1, Calling DEF InCall
        <5>2. L!Unref(w, call[a].lsn, ahead) \/ qtn' = qtn BY <2>2 DEF L!UnlistenSend, L!RemoveLsn
        <5>3. \A v \in Watchers : qtn'[v] \subseteq qtn[v] \cup {call[a].lsn}
          <6>1. CASE L!Unref(w, call[a].lsn, ahead) BY <1>0, <6>1, LisSetting, UnrefQtn
          <6>2. CASE qtn' = qtn BY <6>2
          <6> QED BY <5>2, <6>1, <6>2
        <5>4. accept' = accept BY <2>2 DEF L!UnlistenSend
        <5> QED BY <5>1, <5>3, <5>4 DEF Kept
      <4>5. Queued(k)' => Queued(k) \/ mem[k] = "live"
        <5>1. call[a].lsn \in Listeners /\ mem[call[a].lsn] = "live"
          <6>1. InCall(a) BY <2>2 DEF L!UnlistenSend, InCall
          <6> QED BY <1>0, <6>1, Calling DEF InCall
        <5>2. L!Cmd("UNLSN", call[a].lsn) \in Cmds /\ L!Cmd("UNLSN", call[a].lsn).lsn = call[a].lsn
          BY <5>1, CmdNames
        <5>3. CASE a # w
          <6>1. QueueSent(w, L!Cmd("UNLSN", call[a].lsn)) /\ exited' = exited
            BY <2>2, <5>3, SendForm DEF L!UnlistenSend
          <6> QED BY <1>0, <5>1, <5>2, <6>1, LisSetting, QueuedSent
        <5>4. CASE a = w BY <2>2, <5>4, QueuedSame DEF L!UnlistenSend
        <5> QED BY <5>3, <5>4
      <4> QED BY <4>1, <4>2, <4>3, <4>4, <4>5
    <3>2. mem' = mem BY <2>2 DEF L!UnlistenSend
    <3> QED BY <1>0, <3>1, <3>2, ReachedStill
  <2>3. CASE L!UnlistenMark(a)
    <3>1. ASSUME NEW k \in Listeners
          PROVE  /\ Known(k)' => Known(k) \/ mem[k] = "live"
                 /\ Called(k)' => Called(k) \/ mem[k] = "live"
                 /\ Polled(k)' => Polled(k) \/ mem[k] = "live"
                 /\ Kept(k)' => Kept(k) \/ mem[k] = "live"
                 /\ Queued(k)' => Queued(k) \/ mem[k] = "live"
      <4>1. Known(k)' => Known(k) \/ mem[k] = "live"
        BY <2>3 DEF Known, L!UnlistenMark
      <4>2. Called(k)' => Called(k) \/ mem[k] = "live"
        <5>1. \A b \in L!Actors : call'[b].lsn = call[b].lsn \/ call'[b] = L!NoCall
          <6>1. CallNow(a, "unlisten", on[Callee(a)]) BY <1>0, <2>3, CallMarks
          <6> QED BY <6>1 DEF CallNow, Callee
        <5> QED BY <5>1, LisSetting DEF Called, L!NoCall
      <4>3. Polled(k)' => Polled(k) \/ mem[k] = "live"
        BY <1>0, <2>3 DEF Polled, L!TypeOK, L!UnlistenMark
      <4>4. Kept(k)' => Kept(k) \/ mem[k] = "live"
        BY <1>0, <2>3 DEF Kept, L!TypeOK, L!UnlistenMark
      <4>5. Queued(k)' => Queued(k) \/ mem[k] = "live"
        BY <2>3, QueuedSame DEF L!UnlistenMark
      <4> QED BY <4>1, <4>2, <4>3, <4>4, <4>5
    <3>2. mem' = mem BY <2>3 DEF L!UnlistenMark
    <3> QED BY <1>0, <3>1, <3>2, ReachedStill
  <2>4. CASE L!UnlistenEnd(a)
    <3>1. ASSUME NEW k \in Listeners
          PROVE  /\ Known(k)' => Known(k) \/ mem[k] = "live"
                 /\ Called(k)' => Called(k) \/ mem[k] = "live"
                 /\ Polled(k)' => Polled(k) \/ mem[k] = "live"
                 /\ Kept(k)' => Kept(k) \/ mem[k] = "live"
                 /\ Queued(k)' => Queued(k) \/ mem[k] = "live"
      <4>1. Known(k)' => Known(k) \/ mem[k] = "live"
        BY <2>4 DEF Known, L!UnlistenEnd
      <4>2. Called(k)' => Called(k) \/ mem[k] = "live"
        <5>1. \A b \in L!Actors : call'[b].lsn = call[b].lsn \/ call'[b] = L!NoCall
          BY <1>0, <2>4, CallEnds
        <5> QED BY <5>1, LisSetting DEF Called, L!NoCall
      <4>3. Polled(k)' => Polled(k) \/ mem[k] = "live"
        BY <1>0, <2>4 DEF Polled, L!TypeOK, L!UnlistenEnd
      <4>4. Kept(k)' => Kept(k) \/ mem[k] = "live"
        <5>1. call[a].lsn \in Listeners /\ mem[call[a].lsn] = "live"
          <6>1. InCall(a) BY <2>4 DEF L!UnlistenEnd, InCall
          <6> QED BY <1>0, <6>1, Calling DEF InCall
        <5>2. L!Unref(Zero, call[a].lsn, ahead) \/ qtn' = qtn BY <2>4 DEF L!UnlistenEnd
        <5>3. \A v \in Watchers : qtn'[v] \subseteq qtn[v] \cup {call[a].lsn}
          <6>1. CASE L!Unref(Zero, call[a].lsn, ahead) BY <1>0, <6>1, LisSetting, UnrefQtn
          <6>2. CASE qtn' = qtn BY <6>2
          <6> QED BY <5>2, <6>1, <6>2
        <5>4. accept' = accept BY <2>4 DEF L!UnlistenEnd
        <5> QED BY <5>1, <5>3, <5>4 DEF Kept
      <4>5. Queued(k)' => Queued(k) \/ mem[k] = "live"
        <5>1. call[a].lsn \in Listeners /\ mem[call[a].lsn] = "live"
          <6>1. InCall(a) BY <2>4 DEF L!UnlistenEnd, InCall
          <6> QED BY <1>0, <6>1, Calling DEF InCall
        <5>2. /\ L!Cmd("LSN_UNREF", call[a].lsn) \in Cmds
              /\ L!Cmd("LSN_UNREF", call[a].lsn).lsn = call[a].lsn
          BY <5>1, CmdNames
        <5>3. CASE a # Zero
          <6>1. QueueSent(Zero, L!Cmd("LSN_UNREF", call[a].lsn)) /\ exited' = exited
            BY <2>4, <5>3, SendForm DEF L!UnlistenEnd
          <6> QED BY <1>0, <5>1, <5>2, <6>1, LisSetting, QueuedSent
        <5>4. CASE a = Zero BY <2>4, <5>4, QueuedSame DEF L!UnlistenEnd
        <5> QED BY <5>3, <5>4
      <4> QED BY <4>1, <4>2, <4>3, <4>4, <4>5
    <3>2. mem' = mem BY <2>4 DEF L!UnlistenEnd
    <3> QED BY <1>0, <3>1, <3>2, ReachedStill
  <2> QED BY <1>2, <2>1, <2>2, <2>3, <2>4 DEF L!Unlisten
<1>3. ASSUME NEW w \in Watchers, L!Loop(w) PROVE Reached'
  <2>1. CASE L!Poll(w)
    <3>1. ASSUME NEW k \in Listeners
          PROVE  /\ Known(k)' => Known(k) \/ mem[k] = "live"
                 /\ Called(k)' => Called(k) \/ mem[k] = "live"
                 /\ Polled(k)' => Polled(k) \/ mem[k] = "live"
                 /\ Kept(k)' => Kept(k) \/ mem[k] = "live"
                 /\ Queued(k)' => Queued(k) \/ mem[k] = "live"
      <4>1. Known(k)' => Known(k) \/ mem[k] = "live"
        BY <2>1 DEF Known, L!Poll
      <4>2. Called(k)' => Called(k) \/ mem[k] = "live"
        BY <2>1 DEF Called, L!Poll
      <4>3. Polled(k)' => Polled(k) \/ mem[k] = "live"
        <5>1. /\ UNCHANGED <<reg, backoff, exited>> /\ w \notin exited
              /\ \A v \in Watchers : v # w => lsn_batch'[v] = lsn_batch[v]
              /\ k \in lsn_batch'[w] => w \in reg[k]
          BY <1>0, <2>1 DEF L!Poll, L!InLoop, L!TypeOK
        <5> QED BY <5>1 DEF Polled
      <4>4. Kept(k)' => Kept(k) \/ mem[k] = "live"
        BY <1>0, <2>1 DEF Kept, L!TypeOK, L!Poll
      <4>5. Queued(k)' => Queued(k) \/ mem[k] = "live"
        BY <2>1, QueuedSame DEF L!Poll
      <4> QED BY <4>1, <4>2, <4>3, <4>4, <4>5
    <3>2. mem' = mem BY <2>1 DEF L!Poll
    <3> QED BY <1>0, <3>1, <3>2, ReachedStill
  <2>2. ASSUME NEW l \in Listeners, L!Dispatch(w, l) PROVE Reached'
    <3>1. ASSUME NEW k \in Listeners
          PROVE  /\ Known(k)' => Known(k) \/ mem[k] = "live"
                 /\ Called(k)' => Called(k) \/ mem[k] = "live"
                 /\ Polled(k)' => Polled(k) \/ mem[k] = "live"
                 /\ Kept(k)' => Kept(k) \/ mem[k] = "live"
                 /\ Queued(k)' => Queued(k) \/ mem[k] = "live"
      <4>1. Known(k)' => Known(k) \/ mem[k] = "live"
        BY <2>2 DEF Known, L!Dispatch
      <4>2. Called(k)' => Called(k) \/ mem[k] = "live"
        BY <2>2 DEF Called, L!Dispatch
      <4>3. Polled(k)' => Polled(k) \/ mem[k] = "live"
        BY <1>0, <2>2 DEF Polled, L!TypeOK, L!Dispatch
      <4>4. Kept(k)' => Kept(k) \/ mem[k] = "live"
        <5>1. l \in lsn_batch[w] /\ w \notin exited BY <2>2 DEF L!Dispatch, L!InLoop
        <5>2. mem[l] = "live" BY <1>0, <5>1, LiveSaid DEF Polled
        <5>3. /\ qtn' = qtn /\ \A v \in Watchers : v # w => accept'[v] = accept[v]
              /\ accept'[w] = accept[w] \/ accept'[w].lsn = l
          BY <1>0, <2>2 DEF L!Dispatch, L!TypeOK
        <5> QED BY <5>2, <5>3 DEF Kept
      <4>5. Queued(k)' => Queued(k) \/ mem[k] = "live"
        BY <2>2, QueuedSame DEF L!Dispatch
      <4> QED BY <4>1, <4>2, <4>3, <4>4, <4>5
    <3>2. mem' = mem BY <2>2 DEF L!Dispatch
    <3> QED BY <1>0, <3>1, <3>2, ReachedStill
  <2>3. ASSUME NEW l \in Listeners, L!BackoffOver(w, l) PROVE Reached'
    <3>1. ASSUME NEW k \in Listeners
          PROVE  /\ Known(k)' => Known(k) \/ mem[k] = "live"
                 /\ Called(k)' => Called(k) \/ mem[k] = "live"
                 /\ Polled(k)' => Polled(k) \/ mem[k] = "live"
                 /\ Kept(k)' => Kept(k) \/ mem[k] = "live"
                 /\ Queued(k)' => Queued(k) \/ mem[k] = "live"
      <4>1. Known(k)' => Known(k) \/ mem[k] = "live"
        BY <2>3 DEF Known, L!BackoffOver
      <4>2. Called(k)' => Called(k) \/ mem[k] = "live"
        BY <2>3 DEF Called, L!BackoffOver
      <4>3. Polled(k)' => Polled(k) \/ mem[k] = "live"
        BY <1>0, <2>3 DEF Polled, L!TypeOK, L!BackoffOver
      <4>4. Kept(k)' => Kept(k) \/ mem[k] = "live"
        BY <1>0, <2>3 DEF Kept, L!TypeOK, L!BackoffOver
      <4>5. Queued(k)' => Queued(k) \/ mem[k] = "live"
        BY <2>3, QueuedSame DEF L!BackoffOver
      <4> QED BY <4>1, <4>2, <4>3, <4>4, <4>5
    <3>2. mem' = mem BY <2>3 DEF L!BackoffOver
    <3> QED BY <1>0, <3>1, <3>2, ReachedStill
  <2>4. ASSUME NEW l \in Listeners, L!Release(w, l) PROVE Reached'
    <3>1. /\ mem'[l] = "freed" /\ \A k \in Listeners : k # l => mem'[k] = mem[k]
          /\ UNCHANGED <<arrlsn, call, reg, lsn_batch, backoff, accept, queue, exited>>
          /\ l \notin qtn'[w] /\ \A v \in Watchers : qtn'[v] \subseteq qtn[v]
      BY <1>0, <2>4 DEF L!Release, L!TypeOK
    <3>2. l \in qtn[w] /\ busy[l] = {} /\ \A v \in Watchers \ exited : ahead[l][v] = 0
      BY <2>4 DEF L!Release
    <3>3. InQtn(l) BY <3>2 DEF InQtn
    <3>4. ASSUME Leads(l)' PROVE FALSE
      <4>1. \A v \in Watchers : ~Reads(v, l) BY <1>0, <3>2, <3>3, GraceSaid
      <4>2. ~Used(l) BY <1>0, <3>2, <3>3, GraceSaid
      <4>3. ~Known(l)' /\ ~Called(l)' BY <3>1, <4>2 DEF Used, Known, Called
      <4>4. ~Polled(l)' BY <3>1, <4>1, <4>2 DEF Used, Polled, Reads
      <4>5. ~Kept(l)'
        <5>1. \A v \in Watchers : l \in qtn[v] => v = w BY <1>0, <3>2 DEF LisInv, Quarantined
        <5> QED BY <3>1, <4>1, <5>1 DEF Kept, Reads
      <4>6. ~Queued(l)'
        <5>1. ASSUME NEW v \in Watchers, NEW i \in DOMAIN queue[v], queue[v][i].lsn = l,
                     v \notin exited \/ queue[v][i].cmd # "LSN"
              PROVE  FALSE
          <6>1. queue[v][i].cmd = "LSN" BY <1>0, <4>2, <5>1, QueuedCounts
          <6>2. i <= ahead[l][v] /\ ahead[l][v] = 0
            BY <1>0, <3>2, <3>3, <5>1, <6>1, GraceSaid
          <6>3. queue[v] \in Seq(Cmds) BY <1>0 DEF L!TypeOK, Cmds
          <6>4. i \in Nat /\ i # 0 BY <5>1, <6>3
          <6> QED BY <6>2, <6>4
        <5> QED BY <3>1, <5>1 DEF Queued
      <4> QED BY <3>4, <4>3, <4>4, <4>5, <4>6, LeadFormNext
    <3>5. ASSUME NEW k \in Listeners, k # l, Leads(k)' PROVE mem'[k] = "live"
      <4>1. Known(k)' \/ Called(k)' \/ Polled(k)' \/ Kept(k)' \/ Queued(k)'
        BY <3>5, LeadFormNext
      <4>2. /\ (Known(k)' => Known(k)) /\ (Polled(k)' => Polled(k)) /\ (Kept(k)' => Kept(k))
            /\ (Queued(k)' => Queued(k)) /\ (Called(k)' => Called(k))
        BY <3>1 DEF Known, Polled, Kept, Queued, Called
      <4>3. mem[k] = "live" BY <1>0, <4>1, <4>2, LiveSaid
      <4> QED BY <3>1, <3>5, <4>3
    <3> QED BY <3>4, <3>5 DEF Reached
  <2> QED BY <1>3, <2>1, <2>2, <2>3, <2>4 DEF L!Loop
<1>4. ASSUME NEW w \in Watchers, L!Accept(w) PROVE Reached'
  <2>1. CASE L!AcceptOne(w)
    <3>1. ASSUME NEW k \in Listeners
          PROVE  /\ Known(k)' => Known(k) \/ mem[k] = "live"
                 /\ Called(k)' => Called(k) \/ mem[k] = "live"
                 /\ Polled(k)' => Polled(k) \/ mem[k] = "live"
                 /\ Kept(k)' => Kept(k) \/ mem[k] = "live"
                 /\ Queued(k)' => Queued(k) \/ mem[k] = "live"
      <4>1. Known(k)' => Known(k) \/ mem[k] = "live"
        BY <2>1 DEF Known, L!AcceptOne
      <4>2. Called(k)' => Called(k) \/ mem[k] = "live"
        BY <2>1 DEF Called, L!AcceptOne
      <4>3. Polled(k)' => Polled(k) \/ mem[k] = "live"
        BY <1>0, <2>1 DEF Polled, L!TypeOK, L!AcceptOne
      <4>4. Kept(k)' => Kept(k) \/ mem[k] = "live"
        <5>1. /\ qtn' = qtn
              /\ \A v \in Watchers : accept'[v].lsn = accept[v].lsn \/ accept'[v] = L!NoAccept
          <6>1. qtn' = qtn /\ L!AcceptTo(w, "got") /\ accept[w].at \in {"loop", "got", "cb"}
            BY <2>1, AcceptFrom DEF L!AcceptOne
          <6>2. /\ accept'[w] = [lsn |-> accept[w].lsn, at |-> "got"]
                /\ \A v \in Watchers : v # w => accept'[v] = accept[v]
            BY <1>0, <6>1, AcceptGoes DEF L!Phases
          <6> QED BY <6>1, <6>2
        <5> QED BY <5>1, LisSetting DEF Kept, L!NoAccept
      <4>5. Queued(k)' => Queued(k) \/ mem[k] = "live"
        BY <2>1, QueuedSame DEF L!AcceptOne
      <4> QED BY <4>1, <4>2, <4>3, <4>4, <4>5
    <3>2. mem' = mem BY <2>1 DEF L!AcceptOne
    <3> QED BY <1>0, <3>1, <3>2, ReachedStill
  <2>2. CASE L!AcceptOwn(w)
    <3>1. ASSUME NEW k \in Listeners
          PROVE  /\ Known(k)' => Known(k) \/ mem[k] = "live"
                 /\ Called(k)' => Called(k) \/ mem[k] = "live"
                 /\ Polled(k)' => Polled(k) \/ mem[k] = "live"
                 /\ Kept(k)' => Kept(k) \/ mem[k] = "live"
                 /\ Queued(k)' => Queued(k) \/ mem[k] = "live"
      <4>1. Known(k)' => Known(k) \/ mem[k] = "live"
        BY <2>2 DEF Known, L!AcceptOwn
      <4>2. Called(k)' => Called(k) \/ mem[k] = "live"
        BY <2>2 DEF Called, L!AcceptOwn
      <4>3. Polled(k)' => Polled(k) \/ mem[k] = "live"
        BY <1>0, <2>2 DEF Polled, L!TypeOK, L!AcceptOwn
      <4>4. Kept(k)' => Kept(k) \/ mem[k] = "live"
        <5>1. /\ qtn' = qtn
              /\ \A v \in Watchers : accept'[v].lsn = accept[v].lsn \/ accept'[v] = L!NoAccept
          <6>1. qtn' = qtn /\ L!AcceptTo(w, "cb") /\ accept[w].at \in {"loop", "got", "cb"}
            BY <2>2, AcceptFrom DEF L!AcceptOwn
          <6>2. /\ accept'[w] = [lsn |-> accept[w].lsn, at |-> "cb"]
                /\ \A v \in Watchers : v # w => accept'[v] = accept[v]
            BY <1>0, <6>1, AcceptGoes DEF L!Phases
          <6> QED BY <6>1, <6>2
        <5> QED BY <5>1, LisSetting DEF Kept, L!NoAccept
      <4>5. Queued(k)' => Queued(k) \/ mem[k] = "live"
        BY <2>2, QueuedSame DEF L!AcceptOwn
      <4> QED BY <4>1, <4>2, <4>3, <4>4, <4>5
    <3>2. mem' = mem BY <2>2 DEF L!AcceptOwn
    <3> QED BY <1>0, <3>1, <3>2, ReachedStill
  <2>3. CASE L!AcceptBack(w)
    <3>1. ASSUME NEW k \in Listeners
          PROVE  /\ Known(k)' => Known(k) \/ mem[k] = "live"
                 /\ Called(k)' => Called(k) \/ mem[k] = "live"
                 /\ Polled(k)' => Polled(k) \/ mem[k] = "live"
                 /\ Kept(k)' => Kept(k) \/ mem[k] = "live"
                 /\ Queued(k)' => Queued(k) \/ mem[k] = "live"
      <4>1. Known(k)' => Known(k) \/ mem[k] = "live"
        BY <2>3 DEF Known, L!AcceptBack
      <4>2. Called(k)' => Called(k) \/ mem[k] = "live"
        BY <2>3 DEF Called, L!AcceptBack
      <4>3. Polled(k)' => Polled(k) \/ mem[k] = "live"
        BY <1>0, <2>3 DEF Polled, L!TypeOK, L!AcceptBack
      <4>4. Kept(k)' => Kept(k) \/ mem[k] = "live"
        <5>1. /\ qtn' = qtn
              /\ \A v \in Watchers : accept'[v].lsn = accept[v].lsn \/ accept'[v] = L!NoAccept
          <6>1. qtn' = qtn /\ L!AcceptTo(w, "loop") /\ accept[w].at \in {"loop", "got", "cb"}
            BY <2>3, AcceptFrom DEF L!AcceptBack
          <6>2. /\ accept'[w] = [lsn |-> accept[w].lsn, at |-> "loop"]
                /\ \A v \in Watchers : v # w => accept'[v] = accept[v]
            BY <1>0, <6>1, AcceptGoes DEF L!Phases
          <6> QED BY <6>1, <6>2
        <5> QED BY <5>1, LisSetting DEF Kept, L!NoAccept
      <4>5. Queued(k)' => Queued(k) \/ mem[k] = "live"
        BY <2>3, QueuedSame DEF L!AcceptBack
      <4> QED BY <4>1, <4>2, <4>3, <4>4, <4>5
    <3>2. mem' = mem BY <2>3 DEF L!AcceptBack
    <3> QED BY <1>0, <3>1, <3>2, ReachedStill
  <2>4. CASE L!AcceptEnd(w)
    <3>1. ASSUME NEW k \in Listeners
          PROVE  /\ Known(k)' => Known(k) \/ mem[k] = "live"
                 /\ Called(k)' => Called(k) \/ mem[k] = "live"
                 /\ Polled(k)' => Polled(k) \/ mem[k] = "live"
                 /\ Kept(k)' => Kept(k) \/ mem[k] = "live"
                 /\ Queued(k)' => Queued(k) \/ mem[k] = "live"
      <4>1. Known(k)' => Known(k) \/ mem[k] = "live"
        BY <2>4 DEF Known, L!AcceptEnd
      <4>2. Called(k)' => Called(k) \/ mem[k] = "live"
        BY <2>4 DEF Called, L!AcceptEnd
      <4>3. Polled(k)' => Polled(k) \/ mem[k] = "live"
        BY <1>0, <2>4 DEF Polled, L!TypeOK, L!AcceptEnd
      <4>4. Kept(k)' => Kept(k) \/ mem[k] = "live"
        <5>1. /\ qtn' = qtn
              /\ \A v \in Watchers : accept'[v].lsn = accept[v].lsn \/ accept'[v] = L!NoAccept
          BY <1>0, <2>4 DEF L!AcceptEnd, L!TypeOK
        <5> QED BY <5>1, LisSetting DEF Kept, L!NoAccept
      <4>5. Queued(k)' => Queued(k) \/ mem[k] = "live"
        BY <2>4, QueuedSame DEF L!AcceptEnd
      <4> QED BY <4>1, <4>2, <4>3, <4>4, <4>5
    <3>2. mem' = mem BY <2>4 DEF L!AcceptEnd
    <3> QED BY <1>0, <3>1, <3>2, ReachedStill
  <2>5. CASE L!AcceptPause(w)
    <3>1. ASSUME NEW k \in Listeners
          PROVE  /\ Known(k)' => Known(k) \/ mem[k] = "live"
                 /\ Called(k)' => Called(k) \/ mem[k] = "live"
                 /\ Polled(k)' => Polled(k) \/ mem[k] = "live"
                 /\ Kept(k)' => Kept(k) \/ mem[k] = "live"
                 /\ Queued(k)' => Queued(k) \/ mem[k] = "live"
      <4>1. Known(k)' => Known(k) \/ mem[k] = "live"
        BY <2>5 DEF Known, L!AcceptPause
      <4>2. Called(k)' => Called(k) \/ mem[k] = "live"
        BY <2>5 DEF Called, L!AcceptPause
      <4>3. Polled(k)' => Polled(k) \/ mem[k] = "live"
        <5>1. accept[w].lsn \in Listeners /\ mem[accept[w].lsn] = "live"
          BY <1>0, <2>5, AcceptFrom, AcceptingOn DEF L!Phases
        <5>2. /\ UNCHANGED <<lsn_batch, exited>> /\ reg'[k] \subseteq reg[k]
              /\ k # accept[w].lsn => backoff'[k] = backoff[k]
          BY <1>0, <2>5 DEF L!AcceptPause, L!TypeOK
        <5> QED BY <5>1, <5>2 DEF Polled
      <4>4. Kept(k)' => Kept(k) \/ mem[k] = "live"
        <5>1. /\ qtn' = qtn
              /\ \A v \in Watchers : accept'[v].lsn = accept[v].lsn \/ accept'[v] = L!NoAccept
          BY <1>0, <2>5 DEF L!AcceptPause, L!TypeOK
        <5> QED BY <5>1, LisSetting DEF Kept, L!NoAccept
      <4>5. Queued(k)' => Queued(k) \/ mem[k] = "live"
        BY <2>5, QueuedSame DEF L!AcceptPause
      <4> QED BY <4>1, <4>2, <4>3, <4>4, <4>5
    <3>2. mem' = mem BY <2>5 DEF L!AcceptPause
    <3> QED BY <1>0, <3>1, <3>2, ReachedStill
  <2>6. CASE L!AcceptLost(w)
    <3>1. ASSUME NEW k \in Listeners
          PROVE  /\ Known(k)' => Known(k) \/ mem[k] = "live"
                 /\ Called(k)' => Called(k) \/ mem[k] = "live"
                 /\ Polled(k)' => Polled(k) \/ mem[k] = "live"
                 /\ Kept(k)' => Kept(k) \/ mem[k] = "live"
                 /\ Queued(k)' => Queued(k) \/ mem[k] = "live"
      <4>1. Known(k)' => Known(k) \/ mem[k] = "live"
        BY <2>6 DEF Known, L!AcceptLost
      <4>2. Called(k)' => Called(k) \/ mem[k] = "live"
        BY <2>6 DEF Called, L!AcceptLost
      <4>3. Polled(k)' => Polled(k) \/ mem[k] = "live"
        BY <1>0, <2>6 DEF Polled, L!TypeOK, L!AcceptLost
      <4>4. Kept(k)' => Kept(k) \/ mem[k] = "live"
        <5>1. /\ qtn' = qtn
              /\ \A v \in Watchers : accept'[v].lsn = accept[v].lsn \/ accept'[v] = L!NoAccept
          BY <1>0, <2>6 DEF L!AcceptLost, L!TypeOK
        <5> QED BY <5>1, LisSetting DEF Kept, L!NoAccept
      <4>5. Queued(k)' => Queued(k) \/ mem[k] = "live"
        BY <2>6, QueuedSame DEF L!AcceptLost
      <4> QED BY <4>1, <4>2, <4>3, <4>4, <4>5
    <3>2. mem' = mem BY <2>6 DEF L!AcceptLost
    <3> QED BY <1>0, <3>1, <3>2, ReachedStill
  <2>7. ASSUME NEW to \in Watchers, L!AcceptGive(w, to) PROVE Reached'
    <3>1. ASSUME NEW k \in Listeners
          PROVE  /\ Known(k)' => Known(k) \/ mem[k] = "live"
                 /\ Called(k)' => Called(k) \/ mem[k] = "live"
                 /\ Polled(k)' => Polled(k) \/ mem[k] = "live"
                 /\ Kept(k)' => Kept(k) \/ mem[k] = "live"
                 /\ Queued(k)' => Queued(k) \/ mem[k] = "live"
      <4>1. Known(k)' => Known(k) \/ mem[k] = "live"
        BY <2>7 DEF Known, L!AcceptGive
      <4>2. Called(k)' => Called(k) \/ mem[k] = "live"
        BY <2>7 DEF Called, L!AcceptGive
      <4>3. Polled(k)' => Polled(k) \/ mem[k] = "live"
        BY <1>0, <2>7 DEF Polled, L!TypeOK, L!AcceptGive
      <4>4. Kept(k)' => Kept(k) \/ mem[k] = "live"
        <5>1. /\ qtn' = qtn
              /\ \A v \in Watchers : accept'[v].lsn = accept[v].lsn \/ accept'[v] = L!NoAccept
          <6>1. qtn' = qtn /\ L!AcceptTo(w, "loop") /\ accept[w].at \in {"loop", "got", "cb"}
            BY <2>7, AcceptFrom DEF L!AcceptGive
          <6>2. /\ accept'[w] = [lsn |-> accept[w].lsn, at |-> "loop"]
                /\ \A v \in Watchers : v # w => accept'[v] = accept[v]
            BY <1>0, <6>1, AcceptGoes DEF L!Phases
          <6> QED BY <6>1, <6>2
        <5> QED BY <5>1, LisSetting DEF Kept, L!NoAccept
      <4>5. Queued(k)' => Queued(k) \/ mem[k] = "live"
        <5>1. accept[w].lsn \in Listeners /\ mem[accept[w].lsn] = "live"
          <6>1. accept[w].at = "got" BY <2>7, AcceptFrom
          <6> QED BY <1>0, <6>1, AcceptingOn DEF L!Phases
        <5>2. /\ L!Cmd("ADDACP", accept[w].lsn) \in Cmds
              /\ L!Cmd("ADDACP", accept[w].lsn).lsn = accept[w].lsn
          BY <5>1, CmdNames
        <5>3. QueueSent(to, L!Cmd("ADDACP", accept[w].lsn)) /\ exited' = exited BY <2>7, SendForm
          DEF L!AcceptGive
        <5> QED BY <1>0, <5>1, <5>2, <5>3, QueuedSent
      <4> QED BY <4>1, <4>2, <4>3, <4>4, <4>5
    <3>2. mem' = mem BY <2>7 DEF L!AcceptGive
    <3> QED BY <1>0, <3>1, <3>2, ReachedStill
  <2> QED BY <1>4, <2>1, <2>2, <2>3, <2>4, <2>5, <2>6, <2>7 DEF L!Accept
<1>5. ASSUME NEW w \in Watchers, L!Commanded(w) PROVE Reached'
  <2>1. CASE L!CmdLsn(w)
    <3>1. ASSUME NEW k \in Listeners
          PROVE  /\ Known(k)' => Known(k) \/ mem[k] = "live"
                 /\ Called(k)' => Called(k) \/ mem[k] = "live"
                 /\ Polled(k)' => Polled(k) \/ mem[k] = "live"
                 /\ Kept(k)' => Kept(k) \/ mem[k] = "live"
                 /\ Queued(k)' => Queued(k) \/ mem[k] = "live"
      <4>1. Known(k)' => Known(k) \/ mem[k] = "live"
        BY <2>1 DEF Known, L!CmdLsn
      <4>2. Called(k)' => Called(k) \/ mem[k] = "live"
        BY <2>1 DEF Called, L!CmdLsn
      <4>3. Polled(k)' => Polled(k) \/ mem[k] = "live"
        <5>1. Head(queue[w]).lsn \in Listeners /\ mem[Head(queue[w]).lsn] = "live"
          <6>1. QueueTaken(w) /\ Head(queue[w]).cmd = "LSN" /\ w \notin exited
            BY <2>1, TakeForm DEF L!CmdLsn
          <6> QED BY <1>0, <6>1, Heads DEF QueueTaken, Counting
        <5>2. /\ UNCHANGED <<lsn_batch, backoff, exited>>
              /\ (L!AddLsn(w, Head(queue[w]).lsn) \/ reg' = reg)
          BY <2>1 DEF L!CmdLsn, L!AddLsn
        <5>3. \A j \in Listeners : j # Head(queue[w]).lsn => reg'[j] = reg[j]
          <6>1. CASE L!AddLsn(w, Head(queue[w]).lsn) BY <1>0, <6>1 DEF L!AddLsn, L!TypeOK
          <6>2. CASE reg' = reg BY <6>2
          <6> QED BY <5>2, <6>1, <6>2
        <5> QED BY <5>1, <5>2, <5>3 DEF Polled
      <4>4. Kept(k)' => Kept(k) \/ mem[k] = "live"
        BY <1>0, <2>1 DEF Kept, L!TypeOK, L!CmdLsn
      <4>5. Queued(k)' => Queued(k) \/ mem[k] = "live"
        <5>1. QueueTaken(w) /\ exited' = exited BY <2>1, TakeForm DEF L!CmdLsn
        <5> QED BY <1>0, <5>1, QueuedTaken
      <4> QED BY <4>1, <4>2, <4>3, <4>4, <4>5
    <3>2. mem' = mem BY <2>1 DEF L!CmdLsn
    <3> QED BY <1>0, <3>1, <3>2, ReachedStill
  <2>2. CASE L!CmdUnlsn(w)
    <3>1. ASSUME NEW k \in Listeners
          PROVE  /\ Known(k)' => Known(k) \/ mem[k] = "live"
                 /\ Called(k)' => Called(k) \/ mem[k] = "live"
                 /\ Polled(k)' => Polled(k) \/ mem[k] = "live"
                 /\ Kept(k)' => Kept(k) \/ mem[k] = "live"
                 /\ Queued(k)' => Queued(k) \/ mem[k] = "live"
      <4>1. Known(k)' => Known(k) \/ mem[k] = "live"
        BY <2>2 DEF Known, L!CmdUnlsn
      <4>2. Called(k)' => Called(k) \/ mem[k] = "live"
        BY <2>2 DEF Called, L!CmdUnlsn
      <4>3. Polled(k)' => Polled(k) \/ mem[k] = "live"
        <5>1. Head(queue[w]).lsn \in Listeners
          <6>1. QueueTaken(w) /\ Head(queue[w]).cmd = "UNLSN" /\ w \notin exited
            BY <2>2, TakeForm DEF L!CmdUnlsn
          <6> QED BY <1>0, <6>1, Heads DEF QueueTaken, Counting
        <5>2. L!RemoveLsn(w, Head(queue[w]).lsn, L!OneLess(w)) BY <2>2 DEF L!CmdUnlsn
        <5>3. reg'[k] \subseteq reg[k] /\ backoff'[k] \subseteq backoff[k]
          BY <1>0, <5>1, <5>2, RemoveSockets
        <5>4. UNCHANGED <<lsn_batch, exited>> BY <2>2 DEF L!CmdUnlsn
        <5> QED BY <5>3, <5>4 DEF Polled
      <4>4. Kept(k)' => Kept(k) \/ mem[k] = "live"
        <5>1. Head(queue[w]).lsn \in Listeners /\ mem[Head(queue[w]).lsn] = "live"
          <6>1. QueueTaken(w) /\ Head(queue[w]).cmd = "UNLSN" /\ w \notin exited
            BY <2>2, TakeForm DEF L!CmdUnlsn
          <6> QED BY <1>0, <6>1, Heads DEF QueueTaken, Counting
        <5>2. L!Unref(w, Head(queue[w]).lsn, L!OneLess(w)) BY <2>2 DEF L!CmdUnlsn, L!RemoveLsn
        <5>3. \A v \in Watchers : qtn'[v] \subseteq qtn[v] \cup {Head(queue[w]).lsn}
          <6>1. CASE L!Unref(w, Head(queue[w]).lsn, L!OneLess(w))
            BY <1>0, <6>1, LisSetting, UnrefQtn
          <6>2. CASE qtn' = qtn BY <6>2
          <6> QED BY <5>2, <6>1, <6>2
        <5>4. accept' = accept BY <2>2 DEF L!CmdUnlsn
        <5> QED BY <5>1, <5>3, <5>4 DEF Kept
      <4>5. Queued(k)' => Queued(k) \/ mem[k] = "live"
        <5>1. QueueTaken(w) /\ exited' = exited BY <2>2, TakeForm DEF L!CmdUnlsn
        <5> QED BY <1>0, <5>1, QueuedTaken
      <4> QED BY <4>1, <4>2, <4>3, <4>4, <4>5
    <3>2. mem' = mem BY <2>2 DEF L!CmdUnlsn
    <3> QED BY <1>0, <3>1, <3>2, ReachedStill
  <2>3. CASE L!CmdLsnUnref(w)
    <3>1. ASSUME NEW k \in Listeners
          PROVE  /\ Known(k)' => Known(k) \/ mem[k] = "live"
                 /\ Called(k)' => Called(k) \/ mem[k] = "live"
                 /\ Polled(k)' => Polled(k) \/ mem[k] = "live"
                 /\ Kept(k)' => Kept(k) \/ mem[k] = "live"
                 /\ Queued(k)' => Queued(k) \/ mem[k] = "live"
      <4>1. Known(k)' => Known(k) \/ mem[k] = "live"
        BY <2>3 DEF Known, L!CmdLsnUnref
      <4>2. Called(k)' => Called(k) \/ mem[k] = "live"
        BY <2>3 DEF Called, L!CmdLsnUnref
      <4>3. Polled(k)' => Polled(k) \/ mem[k] = "live"
        BY <1>0, <2>3 DEF Polled, L!TypeOK, L!CmdLsnUnref
      <4>4. Kept(k)' => Kept(k) \/ mem[k] = "live"
        <5>1. Head(queue[w]).lsn \in Listeners /\ mem[Head(queue[w]).lsn] = "live"
          <6>1. QueueTaken(w) /\ Head(queue[w]).cmd = "LSN_UNREF" /\ w \notin exited
            BY <2>3, TakeForm DEF L!CmdLsnUnref
          <6> QED BY <1>0, <6>1, Heads DEF QueueTaken, Counting
        <5>2. L!Unref(w, Head(queue[w]).lsn, L!OneLess(w)) BY <2>3 DEF L!CmdLsnUnref
        <5>3. \A v \in Watchers : qtn'[v] \subseteq qtn[v] \cup {Head(queue[w]).lsn}
          <6>1. CASE L!Unref(w, Head(queue[w]).lsn, L!OneLess(w))
            BY <1>0, <6>1, LisSetting, UnrefQtn
          <6>2. CASE qtn' = qtn BY <6>2
          <6> QED BY <5>2, <6>1, <6>2
        <5>4. accept' = accept BY <2>3 DEF L!CmdLsnUnref
        <5> QED BY <5>1, <5>3, <5>4 DEF Kept
      <4>5. Queued(k)' => Queued(k) \/ mem[k] = "live"
        <5>1. QueueTaken(w) /\ exited' = exited BY <2>3, TakeForm DEF L!CmdLsnUnref
        <5> QED BY <1>0, <5>1, QueuedTaken
      <4> QED BY <4>1, <4>2, <4>3, <4>4, <4>5
    <3>2. mem' = mem BY <2>3 DEF L!CmdLsnUnref
    <3> QED BY <1>0, <3>1, <3>2, ReachedStill
  <2>4. CASE L!CmdAddAcp(w)
    <3>1. ASSUME NEW k \in Listeners
          PROVE  /\ Known(k)' => Known(k) \/ mem[k] = "live"
                 /\ Called(k)' => Called(k) \/ mem[k] = "live"
                 /\ Polled(k)' => Polled(k) \/ mem[k] = "live"
                 /\ Kept(k)' => Kept(k) \/ mem[k] = "live"
                 /\ Queued(k)' => Queued(k) \/ mem[k] = "live"
      <4>1. Known(k)' => Known(k) \/ mem[k] = "live"
        BY <2>4 DEF Known, L!CmdAddAcp
      <4>2. Called(k)' => Called(k) \/ mem[k] = "live"
        BY <2>4 DEF Called, L!CmdAddAcp
      <4>3. Polled(k)' => Polled(k) \/ mem[k] = "live"
        BY <1>0, <2>4 DEF Polled, L!TypeOK, L!CmdAddAcp
      <4>4. Kept(k)' => Kept(k) \/ mem[k] = "live"
        <5>1. Head(queue[w]).lsn \in Listeners /\ mem[Head(queue[w]).lsn] = "live"
          <6>1. QueueTaken(w) /\ Head(queue[w]).cmd = "ADDACP" /\ w \notin exited
            BY <2>4, TakeForm DEF L!CmdAddAcp
          <6> QED BY <1>0, <6>1, Heads DEF QueueTaken, Counting
        <5>2. /\ qtn' = qtn /\ accept'[w].lsn = Head(queue[w]).lsn
              /\ \A v \in Watchers : v # w => accept'[v] = accept[v]
          BY <1>0, <2>4 DEF L!CmdAddAcp, L!TypeOK
        <5> QED BY <5>1, <5>2 DEF Kept
      <4>5. Queued(k)' => Queued(k) \/ mem[k] = "live"
        <5>1. QueueTaken(w) /\ exited' = exited BY <2>4, TakeForm DEF L!CmdAddAcp
        <5> QED BY <1>0, <5>1, QueuedTaken
      <4> QED BY <4>1, <4>2, <4>3, <4>4, <4>5
    <3>2. mem' = mem BY <2>4 DEF L!CmdAddAcp
    <3> QED BY <1>0, <3>1, <3>2, ReachedStill
  <2>5. CASE L!AddedEnd(w)
    <3>1. ASSUME NEW k \in Listeners
          PROVE  /\ Known(k)' => Known(k) \/ mem[k] = "live"
                 /\ Called(k)' => Called(k) \/ mem[k] = "live"
                 /\ Polled(k)' => Polled(k) \/ mem[k] = "live"
                 /\ Kept(k)' => Kept(k) \/ mem[k] = "live"
                 /\ Queued(k)' => Queued(k) \/ mem[k] = "live"
      <4>1. Known(k)' => Known(k) \/ mem[k] = "live"
        BY <2>5 DEF Known, L!AddedEnd
      <4>2. Called(k)' => Called(k) \/ mem[k] = "live"
        BY <2>5 DEF Called, L!AddedEnd
      <4>3. Polled(k)' => Polled(k) \/ mem[k] = "live"
        BY <1>0, <2>5 DEF Polled, L!TypeOK, L!AddedEnd
      <4>4. Kept(k)' => Kept(k) \/ mem[k] = "live"
        <5>1. accept[w].lsn \in Listeners /\ mem[accept[w].lsn] = "live"
          <6>1. accept[w].at = "added" BY <2>5, AcceptFrom
          <6> QED BY <1>0, <6>1, AcceptingOn DEF L!Phases
        <5>2. L!Unref(w, accept[w].lsn, ahead) BY <2>5 DEF L!AddedEnd
        <5>3. \A v \in Watchers : qtn'[v] \subseteq qtn[v] \cup {accept[w].lsn}
          <6>1. CASE L!Unref(w, accept[w].lsn, ahead) BY <1>0, <6>1, LisSetting, UnrefQtn
          <6>2. CASE qtn' = qtn BY <6>2
          <6> QED BY <5>2, <6>1, <6>2
        <5>4. \A v \in Watchers : accept'[v] = accept[v] \/ accept'[v] = L!NoAccept
          BY <1>0, <2>5 DEF L!AddedEnd, L!TypeOK
        <5> QED BY <5>1, <5>3, <5>4, LisSetting DEF Kept, L!NoAccept
      <4>5. Queued(k)' => Queued(k) \/ mem[k] = "live"
        BY <2>5, QueuedSame DEF L!AddedEnd
      <4> QED BY <4>1, <4>2, <4>3, <4>4, <4>5
    <3>2. mem' = mem BY <2>5 DEF L!AddedEnd
    <3> QED BY <1>0, <3>1, <3>2, ReachedStill
  <2>6. CASE L!CmdStop(w)
    <3>1. ASSUME NEW k \in Listeners
          PROVE  /\ Known(k)' => Known(k) \/ mem[k] = "live"
                 /\ Called(k)' => Called(k) \/ mem[k] = "live"
                 /\ Polled(k)' => Polled(k) \/ mem[k] = "live"
                 /\ Kept(k)' => Kept(k) \/ mem[k] = "live"
                 /\ Queued(k)' => Queued(k) \/ mem[k] = "live"
      <4>1. Known(k)' => Known(k) \/ mem[k] = "live"
        BY <2>6 DEF Known, L!CmdStop
      <4>2. Called(k)' => Called(k) \/ mem[k] = "live"
        BY <2>6 DEF Called, L!CmdStop
      <4>3. Polled(k)' => Polled(k) \/ mem[k] = "live"
        BY <1>0, <2>6 DEF Polled, L!TypeOK, L!CmdStop
      <4>4. Kept(k)' => Kept(k) \/ mem[k] = "live"
        BY <1>0, <2>6 DEF Kept, L!TypeOK, L!CmdStop
      <4>5. Queued(k)' => Queued(k) \/ mem[k] = "live"
        <5>1. QueueTaken(w) /\ exited' = exited BY <2>6, TakeForm DEF L!CmdStop
        <5> QED BY <1>0, <5>1, QueuedTaken
      <4> QED BY <4>1, <4>2, <4>3, <4>4, <4>5
    <3>2. mem' = mem BY <2>6 DEF L!CmdStop
    <3> QED BY <1>0, <3>1, <3>2, ReachedStill
  <2> QED BY <1>5, <2>1, <2>2, <2>3, <2>4, <2>5, <2>6 DEF L!Commanded
<1>6. CASE L!Free
  <2>1. CASE L!FreeStart
    <3>1. ASSUME NEW k \in Listeners
          PROVE  /\ Known(k)' => Known(k) \/ mem[k] = "live"
                 /\ Called(k)' => Called(k) \/ mem[k] = "live"
                 /\ Polled(k)' => Polled(k) \/ mem[k] = "live"
                 /\ Kept(k)' => Kept(k) \/ mem[k] = "live"
                 /\ Queued(k)' => Queued(k) \/ mem[k] = "live"
      <4>1. Known(k)' => Known(k) \/ mem[k] = "live"
        BY <2>1 DEF Known, L!FreeStart
      <4>2. Called(k)' => Called(k) \/ mem[k] = "live"
        BY <2>1 DEF Called, L!FreeStart
      <4>3. Polled(k)' => Polled(k) \/ mem[k] = "live"
        BY <1>0, <2>1 DEF Polled, L!TypeOK, L!FreeStart
      <4>4. Kept(k)' => Kept(k) \/ mem[k] = "live"
        BY <1>0, <2>1 DEF Kept, L!TypeOK, L!FreeStart
      <4>5. Queued(k)' => Queued(k) \/ mem[k] = "live"
        <5>1. ASSUME NEW v \in Watchers, NEW i \in DOMAIN queue'[v], queue'[v][i].lsn = k
              PROVE  i \in DOMAIN queue[v] /\ queue'[v][i] = queue[v][i]
          <6>1. queue'[v] = Append(queue[v], L!Cmd("STOP", Nil)) /\ queue[v] \in Seq(Cmds)
            BY <1>0, <2>1 DEF L!FreeStart, L!TypeOK, Cmds
          <6>2. L!Cmd("STOP", Nil).lsn # k BY CmdNames, LisSetting
          <6> QED BY <5>1, <6>1, <6>2, CmdNames, Sent
        <5>2. exited' = exited BY <2>1 DEF L!FreeStart
        <5> QED BY <5>1, <5>2 DEF Queued
      <4> QED BY <4>1, <4>2, <4>3, <4>4, <4>5
    <3>2. mem' = mem BY <2>1 DEF L!FreeStart
    <3> QED BY <1>0, <3>1, <3>2, ReachedStill
  <2>2. CASE L!FreeAll
    <3>1. /\ \A k \in Listeners : k \notin arrlsn => mem'[k] = mem[k]
          /\ UNCHANGED <<call, reg, lsn_batch, backoff, accept, qtn, queue, exited>>
          /\ arrlsn' = {} /\ flushed = Watchers /\ exited = Watchers
      BY <1>0, <2>2 DEF L!FreeAll, L!TypeOK
    <3>2. ASSUME NEW k \in Listeners, Leads(k)' PROVE mem'[k] = "live"
      <4>1. Known(k)' \/ Called(k)' \/ Polled(k)' \/ Kept(k)' \/ Queued(k)'
        BY <3>2, LeadFormNext
      <4>2. /\ ~Known(k)' /\ (Polled(k)' => Polled(k)) /\ (Kept(k)' => Kept(k))
            /\ (Queued(k)' => Queued(k)) /\ (Called(k)' => Called(k))
        BY <3>1 DEF Known, Polled, Kept, Queued, Called
      <4>3. mem[k] = "live" BY <1>0, <4>1, <4>2, LiveSaid
      <4>4. CASE k \in arrlsn
        <5>1. \A v \in Watchers : k \notin qtn[v]
          <6>1. Used(k) BY <4>4 DEF Used
          <6> QED BY <1>0, <4>3, <6>1, InUse
        <5>2. ~Called(k) /\ ~Polled(k) /\ \A v \in Watchers : accept[v].lsn # k
          BY <1>0, <3>1, AllOut
        <5>3. ~Queued(k)
          <6>1. \A v \in Watchers : queue[v] = <<>> BY <1>0, <3>1 DEF LisInv, Emptied
          <6> QED BY <6>1 DEF Queued
        <5> QED BY <4>1, <4>2, <5>1, <5>2, <5>3 DEF Kept
      <4>5. CASE k \notin arrlsn BY <3>1, <4>3, <4>5
      <4> QED BY <4>4, <4>5
    <3> QED BY <3>2 DEF Reached
  <2>3. ASSUME NEW w \in Watchers, L!Exit(w) PROVE Reached'
    <3>1. ASSUME NEW k \in Listeners
          PROVE  /\ Known(k)' => Known(k) \/ mem[k] = "live"
                 /\ Called(k)' => Called(k) \/ mem[k] = "live"
                 /\ Polled(k)' => Polled(k) \/ mem[k] = "live"
                 /\ Kept(k)' => Kept(k) \/ mem[k] = "live"
                 /\ Queued(k)' => Queued(k) \/ mem[k] = "live"
      <4>1. Known(k)' => Known(k) \/ mem[k] = "live"
        BY <2>3 DEF Known, L!Exit
      <4>2. Called(k)' => Called(k) \/ mem[k] = "live"
        BY <2>3 DEF Called, L!Exit
      <4>3. Polled(k)' => Polled(k) \/ mem[k] = "live"
        BY <1>0, <2>3 DEF Polled, L!TypeOK, L!Exit
      <4>4. Kept(k)' => Kept(k) \/ mem[k] = "live"
        BY <1>0, <2>3 DEF Kept, L!TypeOK, L!Exit
      <4>5. Queued(k)' => Queued(k) \/ mem[k] = "live"
        BY <2>3, QueuedSame DEF L!Exit
      <4> QED BY <4>1, <4>2, <4>3, <4>4, <4>5
    <3>2. mem' = mem BY <2>3 DEF L!Exit
    <3> QED BY <1>0, <3>1, <3>2, ReachedStill
  <2>4. ASSUME NEW w \in Watchers, L!Drain(w) PROVE Reached'
    <3>40. PICK l : l = Head(queue[w]).lsn OBVIOUS
    <3>1. /\ QueueTaken(w) /\ exited = Watchers
          /\ UNCHANGED <<arrlsn, call, reg, lsn_batch, backoff, accept, qtn, exited, remove, on>>
      BY <2>4 DEF L!Drain, QueueTaken
    <3>2. ASSUME NEW k \in Listeners, Leads(k)' PROVE mem'[k] = "live"
      <4>1. Known(k)' \/ Called(k)' \/ Polled(k)' \/ Kept(k)' \/ Queued(k)'
        BY <3>2, LeadFormNext
      <4>2. /\ (Known(k)' => Known(k)) /\ (Polled(k)' => Polled(k)) /\ (Kept(k)' => Kept(k))
            /\ (Called(k)' => Called(k))
        BY <3>1 DEF Known, Polled, Kept, Called
      <4>3. Queued(k)' => Queued(k) BY <1>0, <3>1, QueuedTaken
      <4>4. mem[k] = "live" BY <1>0, <4>1, <4>2, <4>3, LiveSaid
      <4>5. CASE k = l /\ Head(queue[w]).cmd \in Counting /\ ref[l] = 1
        <5>1. /\ Cardinality(InQueues(k)') \in Nat
              /\ Cardinality(InQueues(k)) = Cardinality(InQueues(k)') + 1
          BY <1>0, <3>1, <3>40, <4>5, CountTaken DEF Mentions
        <5>2. /\ Cardinality(Adding(k)) \in Nat /\ Cardinality(Unsent(k)) \in Nat
              /\ Asked(k) \in Nat
          BY <1>0, Terms
        <5>3. Refs(k) = 1 BY <1>0, <4>4, <4>5 DEF LisInv, Counted
        <5>4. Cardinality(InQueues(k)') = 0 /\ Cardinality(Unsent(k)) = 0
          BY <5>1, <5>2, <5>3 DEF Refs
        <5>6. ~Queued(k)'
          <6>1. Cardinality(InQueues(k)) = 1 BY <5>1, <5>4
          <6>2. Mentions(Head(queue[w]), k) BY <3>40, <4>5 DEF Mentions
          <6> QED BY <1>0, <3>1, <6>1, <6>2, LastTaken DEF Queued
        <5>7. ~Called(k) /\ ~Polled(k) /\ \A v \in Watchers : accept[v].lsn # k
          BY <1>0, <3>1, AllOut
        <5>8. \A v \in Watchers : k \notin qtn[v]
          BY <1>0, <4>5 DEF LisInv, Quarantined
        <5>9. k \notin arrlsn
          <6>1. Unsent(k) = {} BY <1>0, <5>4, Terms
          <6>2. on[k] \subseteq Watchers BY <1>0 DEF L!TypeOK
          <6>3. remove[k] \/ on[k] = {} BY <6>1, <6>2 DEF Unsent
          <6> QED BY <1>0, <4>4, <6>3 DEF LisInv, Marked
        <5> QED BY <4>1, <4>2, <5>6, <5>7, <5>8, <5>9 DEF Kept, Known
      <4>6. CASE ~(k = l /\ Head(queue[w]).cmd \in Counting /\ ref[l] = 1)
        <5>1. mem'[k] = mem[k] BY <1>0, <2>4, <3>40, <4>6 DEF L!Drain, L!TypeOK, Counting
        <5> QED BY <4>4, <5>1
      <4> QED BY <4>5, <4>6
    <3> QED BY <3>2 DEF Reached
  <2>5. ASSUME NEW w \in Watchers, L!Flush(w) PROVE Reached'
    <3>1. /\ \A k \in Listeners : k \notin qtn[w] => mem'[k] = mem[k]
          /\ UNCHANGED <<arrlsn, call, reg, lsn_batch, backoff, accept, queue, exited>>
          /\ qtn'[w] = {} /\ \A v \in Watchers : qtn'[v] \subseteq qtn[v]
          /\ exited = Watchers
      BY <1>0, <2>5 DEF L!Flush, L!TypeOK
    <3>2. ASSUME NEW k \in Listeners, Leads(k)' PROVE mem'[k] = "live"
      <4>1. Known(k)' \/ Called(k)' \/ Polled(k)' \/ Kept(k)' \/ Queued(k)'
        BY <3>2, LeadFormNext
      <4>2. /\ (Known(k)' => Known(k)) /\ (Polled(k)' => Polled(k)) /\ (Kept(k)' => Kept(k))
            /\ (Queued(k)' => Queued(k)) /\ (Called(k)' => Called(k))
        BY <3>1 DEF Known, Polled, Kept, Queued, Called
      <4>3. mem[k] = "live" BY <1>0, <4>1, <4>2, LiveSaid
      <4>4. CASE k \in qtn[w]
        <5>1. InQtn(k) BY <4>4 DEF InQtn
        <5>2. ~Used(k) BY <1>0, <5>1, GraceSaid
        <5>3. ~Known(k)' BY <3>1, <5>2 DEF Used, Known
        <5>4. ~Called(k)' /\ ~Polled(k)' BY <1>0, <3>1, <4>2, AllOut
        <5>5. ~Kept(k)'
          <6>1. \A v \in Watchers : k \in qtn[v] => v = w BY <1>0, <4>4 DEF LisInv, Quarantined
          <6>2. \A v \in Watchers : accept[v].lsn # k BY <1>0, <3>1, AllOut
          <6> QED BY <3>1, <6>1, <6>2 DEF Kept
        <5>6. ~Queued(k)' BY <1>0, <3>1, <5>2, QueuedCounts DEF Queued
        <5> QED BY <4>1, <5>3, <5>4, <5>5, <5>6
      <4>5. CASE k \notin qtn[w] BY <3>1, <4>3, <4>5
      <4> QED BY <4>4, <4>5
    <3> QED BY <3>2 DEF Reached
  <2> QED BY <1>6, <2>1, <2>2, <2>3, <2>4, <2>5 DEF L!Free
<1>7. CASE UNCHANGED L!vars BY <1>0, <1>7 DEF LisInv, Reached, Leads, L!ReadBy, L!vars
<1> QED BY <1>1, <1>2, <1>3, <1>4, <1>5, <1>6, <1>7 DEF L!Next

-----------------------------------------------------------------------------
(* The invariant, and what it says *)

\* The invariant at the start,
LEMMA LisStarts == L!Init => LisInv
<1> SUFFICES ASSUME L!Init PROVE LisInv OBVIOUS
<1>1. L!TypeOK BY LisInit
<1>2. /\ \A l \in Listeners : mem[l] = "new" /\ l \notin arrlsn /\ ~remove[l] /\ reg[l] = {}
      /\ \A l \in Listeners : backoff[l] = {} /\ fd[l] = {}
      /\ \A w \in Watchers : /\ queue[w] = <<>> /\ lsn_batch[w] = {} /\ accept[w] = L!NoAccept
                             /\ qtn[w] = {} /\ ~stop[w]
      /\ \A a \in L!Actors : call[a] = L!NoCall
      /\ exited = {} /\ flushed = {} /\ stage = "no"
  BY DEF L!Init, L!lsnsock, L!grace, L!ending
<1>3. Outside /\ Emptied /\ Alone BY <1>2 DEF Outside, Emptied, Alone, L!Actors
<1>4. Stopping BY <1>2 DEF Stopping
<1>5. \A a \in L!Actors : call[a].lsn \notin Listeners BY <1>2, LisSetting DEF L!NoCall
<1>6. \A w \in Watchers : accept[w].lsn \notin Listeners BY <1>2, LisSetting DEF L!NoAccept
<1>7. OneCaller /\ Marked BY <1>2, <1>5 DEF OneCaller, Marked
<1>8. Counted /\ Held BY <1>2 DEF Counted, Held
<1>9. Reached BY <1>2, <1>5, <1>6 DEF Reached, Leads, L!ReadBy
<1>10. Quarantined /\ Grace BY <1>2 DEF Quarantined, Grace
<1> QED BY <1>1, <1>3, <1>4, <1>7, <1>8, <1>9, <1>10 DEF LisInv

\* and after any step.
LEMMA LisSteps ==
  ASSUME LisInv, [L!Next]_(L!vars)
  PROVE  LisInv'
<1>1. L!TypeOK' BY TypeStep
<1>2. Outside' BY OutsideStep
<1>3. Stopping' BY StoppingStep
<1>4. Emptied' BY EmptiedStep
<1>5. Alone' BY AloneStep
<1>6. OneCaller' BY OneCallerStep
<1>7. Marked' BY MarkedStep
<1>8. Counted' BY CountedStep
<1>9. Held' BY HeldStep
<1>10. Reached' BY ReachedStep
<1>11. Quarantined' BY QuarantinedStep
<1>12. Grace' BY GraceStep
<1> QED
  BY <1>1, <1>2, <1>3, <1>4, <1>5, <1>6, <1>7, <1>8, <1>9, <1>10, <1>11, <1>12 DEF LisInv

\* The invariant holds in every state of a listener.
THEOREM LisAlways == L!Spec => []LisInv
<1>1. LisInv /\ [L!Next]_(L!vars) => LisInv' BY LisSteps
<1> QED BY <1>1, LisStarts, PTL DEF L!Spec

\* Who leads to a listener nobody can find: a reference, or the quarantine.
LEMMA LiveIsReached ==
  ASSUME LisInv, NEW l \in Listeners, mem[l] = "live"
  PROVE  Leads(l)
<1>1. SUFFICES ASSUME l \notin arrlsn, \A a \in L!Actors : call[a].lsn # l PROVE Leads(l)
  BY DEF Leads
<1>2. remove[l] BY <1>1 DEF LisInv, Marked
<1>3. ref[l] = Refs(l) BY DEF LisInv, Counted
<1>4. CASE ref[l] = 0
  <2>1. \E w \in Watchers : l \in qtn[w] BY <1>4 DEF LisInv, Quarantined
  <2> QED BY <2>1 DEF Leads, L!ReadBy
<1>5. CASE ref[l] # 0
  <2>1. \A a \in L!Actors : ~Asks(a, l) BY <1>1 DEF Asks
  <2>2. Asked(l) = 0 /\ Unsent(l) = {} BY <1>2, <2>1 DEF Asked, Unsent
  <2>3. Cardinality(Unsent(l)) = 0 BY <2>2, FS_EmptySet
  <2>4. L!TypeOK BY DEF LisInv
  <2>5. InQueues(l) # {} \/ Adding(l) # {}
    <3>1. SUFFICES ASSUME InQueues(l) = {}, Adding(l) = {} PROVE FALSE OBVIOUS
    <3>2. Cardinality(InQueues(l)) = 0 /\ Cardinality(Adding(l)) = 0 BY <2>4, <3>1, Terms
    <3>3. Refs(l) = 0 BY <2>2, <2>3, <3>2 DEF Refs
    <3> QED BY <1>3, <1>5, <3>3
  <2>6. CASE Adding(l) # {}
    <3>1. PICK w \in Watchers : accept[w] = [lsn |-> l, at |-> "added"] BY <2>6 DEF Adding
    <3>2. accept[w].lsn = l BY <3>1
    <3> QED BY <3>2 DEF Leads, L!ReadBy
  <2>7. CASE InQueues(l) # {}
    <3>1. PICK p : p \in InQueues(l) BY <2>7
    <3>2. PICK w \in Watchers : \E i \in Owes(queue[w], l) : p = <<w, i>> BY <3>1, InQueue
    <3>3. PICK i : i \in Owes(queue[w], l) BY <3>2
    <3>4. i \in DOMAIN queue[w] /\ queue[w][i].lsn = l /\ queue[w][i].cmd # "LSN"
      BY <3>3 DEF Owes, Counting
    <3> QED BY <3>4 DEF Leads, L!ReadBy
  <2> QED BY <2>5, <2>6, <2>7
<1> QED BY <1>4, <1>5

\* The types of a listener hold in every state.
THEOREM ListenerTypesCorrect == L!Spec => []L!TypeOK
<1>1. LisInv => L!TypeOK BY DEF LisInv
<1> QED BY <1>1, LisAlways, PTL

\* A listener lives exactly as long as its id, a call or a watcher leads to it, for any
\* number of watchers, listeners and callers (usock.c:22, 1406, 1435).
THEOREM AliveWhileReachedCorrect == L!Spec => []AliveWhileReached
<1>1. LisInv => AliveWhileReached
  <2>1. ASSUME LisInv, NEW l \in Listeners PROVE mem[l] = "live" <=> Leads(l)
    <3>1. Leads(l) => mem[l] = "live" BY <2>1 DEF LisInv, Reached
    <3>2. mem[l] = "live" => Leads(l) BY <2>1, LiveIsReached
    <3> QED BY <3>1, <3>2
  <2> QED BY <2>1 DEF AliveWhileReached, L!AliveWhileReached, Leads
<1> QED BY <1>1, LisAlways, PTL

-----------------------------------------------------------------------------
(* The functions under way *)

Results == {"ok", "fin", "abort"}
Events == {"R", "W"}

\* The outermost callbacks of a connection that was made, and of one that was not.
Acp == Frame("acp", "ok", FALSE, {})
Conn == Frame("conn", "ok", FALSE, {})
Failure == <<Frame("conn", "failed", FALSE, {})>>
Opening == {<<Acp>>, <<Conn>>}

Rw == {RwLeft(d) : d \in SUBSET Events}
RecvFrame(r) == Frame("recv", r, FALSE, {})
Recv == {Append(q, RecvFrame(r)) : q \in Rw, r \in Results}

\* A send that no callback has asked for, and one below a callback.
OuterSend(r) == Frame("send", r, FALSE, {})
InnerSend(r) == Frame("send", r, TRUE, {})
Outer == {<<>>, RwLeft({})}
Inner == Opening \cup Recv
OuterSends == {Append(q, OuterSend(r)) : q \in Outer, r \in Results}
InnerSends == {Append(q, InnerSend(r)) : q \in Inner, r \in Results}
Sends == OuterSends \cup InnerSends

\* Those whose last function is a callback.
Calls == Opening \cup {Failure} \cup Recv \cup Sends
Stacks == {<<>>} \cup Rw \cup Calls

LEMMA Bounds == /\ MaxQueue \in Nat \ {0} /\ MaxIov \in Nat \ {0}
                /\ MaxLives \in Nat \ {0} /\ MaxCmds \in Nat \ {0}
BY TcpAssumption

USE Bounds DEF Callbacks

LEMMA Singleton ==
  ASSUME NEW f
  PROVE  /\ <<f>> # <<>> /\ Last(<<f>>) = f /\ Front(<<f>>) = <<>> /\ <<f>> = Append(<<>>, f)
BY DEF Last, Front

LEMMA Pushed ==
  ASSUME NEW S, NEW q \in Seq(S), NEW f \in S
  PROVE  /\ Append(q, f) # <<>> /\ Append(q, f) \in Seq(S)
         /\ Last(Append(q, f)) = f /\ Front(Append(q, f)) = q
<1> DEFINE p == Append(q, f)
<1>1. p \in Seq(S) /\ Len(p) = Len(q) + 1 /\ p[Len(p)] = f
  OBVIOUS
<1>2. \A i \in 1 .. Len(q) : p[i] = q[i]
  OBVIOUS
<1>3. Len(q) \in Nat
  OBVIOUS
<1>4. SubSeq(p, 1, Len(p) - 1) = q
  <2>1. Len(p) - 1 = Len(q) /\ Len(q) + 1 - 1 = Len(q) BY <1>1, <1>3
  <2>2. SubSeq(p, 1, Len(q)) = [i \in 1 .. Len(q) |-> p[i]] BY <1>1, <1>3
  <2>3. q = [i \in 1 .. Len(q) |-> q[i]] OBVIOUS
  <2> QED BY <1>2, <2>1, <2>2, <2>3
<1> HIDE DEF p
<1>5. Last(p) = f BY <1>1 DEF Last
<1>6. Front(p) = q BY <1>4 DEF Front
<1> QED BY <1>1, <1>3, <1>5, <1>6 DEF p

-----------------------------------------------------------------------------
\* What stands last in each of them.
LEMMA FrameTyped ==
  /\ \A r \in Results : OuterSend(r) \in Frames /\ InnerSend(r) \in Frames
  /\ \A r \in Results : RecvFrame(r) \in Frames
  /\ Acp \in Frames /\ Conn \in Frames /\ Frame("conn", "failed", FALSE, {}) \in Frames
  /\ \A d \in SUBSET Events : Frame("rw", "ok", FALSE, d) \in Frames
BY DEF OuterSend, InnerSend, RecvFrame, Acp, Conn, Frame, Frames, Results, Events

LEMMA RwShape ==
  ASSUME NEW d \in SUBSET Events
  PROVE  /\ RwLeft(d) \in Seq(Frames) /\ RwLeft(d) # <<>> /\ Front(RwLeft(d)) = <<>>
         /\ Last(RwLeft(d)).fn = "rw" /\ Last(RwLeft(d)).todo = d
<1>1. Frame("rw", "ok", FALSE, d) \in Frames BY FrameTyped
<1>2. Last(RwLeft(d)) = Frame("rw", "ok", FALSE, d) BY Singleton DEF RwLeft
<1> QED BY <1>1, <1>2, Singleton DEF RwLeft, Frame

LEMMA OpeningShape ==
  ASSUME NEW q \in Opening \cup {Failure}
  PROVE  /\ q \in Seq(Frames) /\ q # <<>> /\ Last(q).fn \in {"acp", "conn"} /\ ~Last(q).nested
         /\ Last(q).fn = "acp" <=> q = <<Acp>>
         /\ Last(q).rtn = "failed" <=> q = Failure
<1>1. \A f \in Frames : <<f>> \in Seq(Frames)
  OBVIOUS
<1>2. Last(<<Acp>>) = Acp /\ Last(<<Conn>>) = Conn
      /\ Last(Failure) = Frame("conn", "failed", FALSE, {})
  BY Singleton DEF Failure
<1>3. q # <<>> BY Singleton DEF Opening, Failure
<1>4. q \in Seq(Frames) BY <1>1, FrameTyped DEF Opening, Failure
<1>5. /\ Acp.fn = "acp" /\ Acp.rtn = "ok" /\ ~Acp.nested
      /\ Conn.fn = "conn" /\ Conn.rtn = "ok" /\ ~Conn.nested
  BY DEF Acp, Conn, Frame
<1>6. CASE q = <<Acp>> BY <1>2, <1>3, <1>4, <1>5, <1>6 DEF Frame
<1>7. CASE q = <<Conn>> BY <1>2, <1>3, <1>4, <1>5, <1>7 DEF Frame
<1>8. CASE q = Failure BY <1>2, <1>3, <1>4, <1>5, <1>8 DEF Frame
<1> QED BY <1>6, <1>7, <1>8 DEF Opening

LEMMA RecvShape ==
  ASSUME NEW q \in Recv
  PROVE  /\ q \in Seq(Frames) /\ q # <<>> /\ Last(q).fn = "recv" /\ ~Last(q).nested
         /\ Last(q).rtn \in Results
         /\ Last(Front(q)).todo \in SUBSET Events
<1>1. PICK d \in SUBSET Events, r \in Results : q = Append(RwLeft(d), RecvFrame(r))
  BY DEF Recv, Rw
<1>2. RwLeft(d) \in Seq(Frames) /\ Last(RwLeft(d)).todo = d BY RwShape
<1>3. RecvFrame(r) \in Frames BY FrameTyped
<1>4. /\ q # <<>> /\ q \in Seq(Frames) /\ Last(q) = RecvFrame(r) /\ Front(q) = RwLeft(d)
  BY <1>1, <1>2, <1>3, Pushed
<1> QED BY <1>2, <1>4 DEF RecvFrame, Frame

LEMMA SendShape ==
  ASSUME NEW q \in Sends
  PROVE  /\ q \in Seq(Frames) /\ q # <<>> /\ Last(q).fn = "send" /\ Last(q).rtn \in Results
         /\ IF Last(q).nested THEN Front(q) \in Inner ELSE Front(q) \in Outer
<1>1. \A p \in Outer \cup Inner : p \in Seq(Frames)
  <2>1. <<>> \in Seq(Frames) OBVIOUS
  <2> QED BY <2>1, RwShape, OpeningShape, RecvShape DEF Outer, Inner
<1>2. \A r \in Results : /\ OuterSend(r).fn = "send" /\ OuterSend(r).rtn = r /\ ~OuterSend(r).nested
                        /\ InnerSend(r).fn = "send" /\ InnerSend(r).rtn = r /\ InnerSend(r).nested
  BY DEF OuterSend, InnerSend, Frame
<1>3. CASE q \in OuterSends
  <2>1. PICK p \in Outer, r \in Results : q = Append(p, OuterSend(r))
    BY <1>3 DEF OuterSends
  <2>2. /\ q # <<>> /\ q \in Seq(Frames) /\ Last(q) = OuterSend(r) /\ Front(q) = p
    BY <1>1, <2>1, FrameTyped, Pushed
  <2> QED BY <1>2, <2>2
<1>4. CASE q \in InnerSends
  <2>1. PICK p \in Inner, r \in Results : q = Append(p, InnerSend(r))
    BY <1>4 DEF InnerSends
  <2>2. /\ q # <<>> /\ q \in Seq(Frames) /\ Last(q) = InnerSend(r) /\ Front(q) = p
    BY <1>1, <2>1, FrameTyped, Pushed
  <2> QED BY <1>2, <2>2
<1> QED BY <1>3, <1>4 DEF Sends

\* The function on top tells which stack it is.
LEMMA TopTells ==
  ASSUME NEW q \in Stacks
  PROVE  /\ q \in Seq(Frames)
         /\ q # <<>> <=> q \in Rw \cup Calls
         /\ q # <<>> /\ Last(q).fn = "rw" => q \in Rw
         /\ q # <<>> /\ Last(q).fn = "acp" => q = <<Acp>>
         /\ q # <<>> /\ Last(q).fn = "conn" => q \in {<<Conn>>, Failure}
         /\ q # <<>> /\ Last(q).fn = "recv" => q \in Recv
         /\ q # <<>> /\ Last(q).fn = "send" => q \in Sends
<1>1. CASE q = <<>>
  BY <1>1, RwShape, OpeningShape, RecvShape, SendShape DEF Rw, Calls
<1>2. CASE q \in Rw
  BY <1>2, RwShape DEF Rw
<1>3. CASE q \in Opening \cup {Failure}
  BY <1>3, OpeningShape DEF Calls, Opening
<1>4. CASE q \in Recv
  BY <1>4, RecvShape DEF Calls
<1>5. CASE q \in Sends
  BY <1>5, SendShape DEF Calls
<1> QED BY <1>1, <1>2, <1>3, <1>4, <1>5 DEF Stacks, Calls

\* The classes do not meet.
LEMMA Apart ==
  /\ \A q \in Rw : q \notin Calls /\ q # <<>>
  /\ \A q \in Sends : q \notin Opening \cup {Failure} \cup Recv /\ q # <<>>
  /\ \A q \in Recv : q \notin Opening \cup {Failure} \cup Sends /\ q # <<>>
  /\ \A q \in Opening : q # Failure /\ q # <<>>
  /\ Failure # <<>>
<1>1. \A q \in Rw : Last(q).fn = "rw" BY RwShape DEF Rw
<1>2. \A q \in Opening \cup {Failure} : Last(q).fn \in {"acp", "conn"} /\ q # <<>>
  BY OpeningShape
<1>3. \A q \in Recv : Last(q).fn = "recv" /\ q # <<>> BY RecvShape
<1>4. \A q \in Sends : Last(q).fn = "send" /\ q # <<>> BY SendShape
<1>5. \A q \in Rw : q # <<>> BY RwShape DEF Rw
<1>6. \A q \in Opening : q # Failure
  <2>1. Last(<<Acp>>) = Acp /\ Last(<<Conn>>) = Conn
        /\ Last(Failure) = Frame("conn", "failed", FALSE, {})
    BY Singleton DEF Failure
  <2>2. Acp # Frame("conn", "failed", FALSE, {}) /\ Conn # Frame("conn", "failed", FALSE, {})
    BY DEF Acp, Conn, Frame
  <2> QED BY <2>1, <2>2 DEF Opening
<1> QED BY <1>1, <1>2, <1>3, <1>4, <1>5, <1>6 DEF Calls

-----------------------------------------------------------------------------
(* The connection as a function of its fields *)

Fields == {"place", "skid", "ev_cb", "events", "buf_s", "established", "error", "remove", "incb",
           "sending", "flushpend", "linger", "peer", "shut", "told", "ends"}
Kind == [place |-> {"pool", "live", "linger", "qtn"}, skid |-> 0 .. MaxLives,
          ev_cb |-> {"none", "rw", "connect", "linger"}, events |-> SUBSET {"R", "W"},
          buf_s |-> 0 .. MaxQueue, established |-> BOOLEAN, error |-> BOOLEAN, remove |-> BOOLEAN,
          incb |-> BOOLEAN, sending |-> BOOLEAN, flushpend |-> BOOLEAN, linger |-> BOOLEAN,
          peer |-> {"local", "fin", "abort"}, shut |-> {"no", "RD", "WR"},
          told |-> {"no", "open", "failed"}, ends |-> Nat]
LEMMA Typed ==
  ASSUME NEW t
  PROVE  t \in Conns <=> t = [f \in Fields |-> t[f]] /\ \A f \in Fields : t[f] \in Kind[f]
<1>1. ASSUME t \in Conns PROVE t = [f \in Fields |-> t[f]] BY <1>1 DEF Conns, Fields
<1>2. ASSUME t \in Conns PROVE \A f \in Fields : t[f] \in Kind[f]
  <2>1. /\ t.place \in Kind.place /\ t.skid \in Kind.skid /\ t.ev_cb \in Kind.ev_cb
        /\ t.events \in Kind.events /\ t.buf_s \in Kind.buf_s
        /\ t.established \in Kind.established /\ t.error \in Kind.error
        /\ t.remove \in Kind.remove /\ t.incb \in Kind.incb /\ t.sending \in Kind.sending
        /\ t.flushpend \in Kind.flushpend /\ t.linger \in Kind.linger /\ t.peer \in Kind.peer
        /\ t.shut \in Kind.shut /\ t.told \in Kind.told /\ t.ends \in Kind.ends
    BY <1>2 DEF Conns, Kind
  <2> QED BY <2>1 DEF Fields
<1>3. ASSUME t = [f \in Fields |-> t[f]], \A f \in Fields : t[f] \in Kind[f] PROVE t \in Conns
  <2>1. /\ t.place \in Kind.place /\ t.skid \in Kind.skid /\ t.ev_cb \in Kind.ev_cb
        /\ t.events \in Kind.events /\ t.buf_s \in Kind.buf_s
        /\ t.established \in Kind.established /\ t.error \in Kind.error
        /\ t.remove \in Kind.remove /\ t.incb \in Kind.incb /\ t.sending \in Kind.sending
        /\ t.flushpend \in Kind.flushpend /\ t.linger \in Kind.linger /\ t.peer \in Kind.peer
        /\ t.shut \in Kind.shut /\ t.told \in Kind.told /\ t.ends \in Kind.ends
     BY <1>3 DEF Fields
  <2> QED BY <1>3, <2>1 DEF Conns, Fields, Kind
<1> QED BY <1>1, <1>2, <1>3

Set(t, f, x) == [t EXCEPT ![f] = x]
LEMMA SetField ==
  ASSUME NEW t \in Conns, NEW f \in Fields, NEW x \in Kind[f]
  PROVE  /\ Set(t, f, x) \in Conns
         /\ Set(t, f, x)[f] = x
         /\ \A g \in Fields \ {f} : Set(t, f, x)[g] = t[g]
<1>1. t = [g \in Fields |-> t[g]] /\ \A g \in Fields : t[g] \in Kind[g] BY Typed
<1>2. Set(t, f, x) = [g \in Fields |-> IF g = f THEN x ELSE t[g]] BY <1>1 DEF Set
<1>3. \A g \in Fields : Set(t, f, x)[g] \in Kind[g] BY <1>1, <1>2
<1>4. Set(t, f, x) \in Conns BY <1>2, <1>3, Typed
<1> QED BY <1>2, <1>4

LEMMA Kinds ==
  /\ Kind["place"] = {"pool", "live", "linger", "qtn"} /\ Kind["skid"] = 0 .. MaxLives
  /\ Kind["ev_cb"] = {"none", "rw", "connect", "linger"} /\ Kind["events"] = SUBSET {"R", "W"}
  /\ Kind["buf_s"] = 0 .. MaxQueue /\ Kind["ends"] = Nat
  /\ Kind["peer"] = {"local", "fin", "abort"} /\ Kind["shut"] = {"no", "RD", "WR"}
  /\ Kind["told"] = {"no", "open", "failed"}
  /\ \A f \in {"established", "error", "remove", "incb", "sending", "flushpend", "linger"} :
       Kind[f] = BOOLEAN
BY DEF Kind
Flags == {"established", "error", "remove", "incb", "sending", "flushpend", "linger"}
Raise(t, f) == [t EXCEPT ![f] = TRUE]
Lower(t, f) == [t EXCEPT ![f] = FALSE]

LEMMA RaiseFlag ==
  ASSUME NEW t \in Conns, NEW f \in Flags
  PROVE  Raise(t, f) \in Conns /\ Raise(t, f)[f] /\ \A g \in Fields \ {f} : Raise(t, f)[g] = t[g]
<1>1. f \in Fields /\ Kind[f] = BOOLEAN BY Kinds DEF Flags, Fields
<1>2. t = [g \in Fields |-> t[g]] /\ \A g \in Fields : t[g] \in Kind[g] BY Typed
<1>3. Raise(t, f) = [g \in Fields |-> IF g = f THEN TRUE ELSE t[g]] BY <1>1, <1>2 DEF Raise
<1>4. \A g \in Fields : Raise(t, f)[g] \in Kind[g] BY <1>1, <1>2, <1>3
<1>5. Raise(t, f) \in Conns BY <1>3, <1>4, Typed
<1> QED BY <1>1, <1>3, <1>5

LEMMA LowerFlag ==
  ASSUME NEW t \in Conns, NEW f \in Flags
  PROVE  Lower(t, f) \in Conns /\ ~Lower(t, f)[f] /\ \A g \in Fields \ {f} : Lower(t, f)[g] = t[g]
<1>1. f \in Fields /\ Kind[f] = BOOLEAN BY Kinds DEF Flags, Fields
<1>2. t = [g \in Fields |-> t[g]] /\ \A g \in Fields : t[g] \in Kind[g] BY Typed
<1>3. Lower(t, f) = [g \in Fields |-> IF g = f THEN FALSE ELSE t[g]] BY <1>1, <1>2 DEF Lower
<1>4. \A g \in Fields : Lower(t, f)[g] \in Kind[g] BY <1>1, <1>2, <1>3
<1>5. Lower(t, f) \in Conns BY <1>3, <1>4, Typed
<1> QED BY <1>1, <1>3, <1>5

LEMMA DetachFields ==
  ASSUME NEW t \in Conns
  PROVE  /\ Detach(t) \in Conns
         /\ Detach(t).place = "qtn" /\ Detach(t).ev_cb = "none" /\ Detach(t).events = {}
         /\ \A g \in Fields \ {"place", "ev_cb", "events"} : Detach(t)[g] = t[g]
<1> DEFINE a == Set(t, "place", "qtn")
           b == Set(a, "ev_cb", "none")
           c == Set(b, "events", {})
<1>1. Detach(t) = c BY DEF Detach, Set
<1>2. "qtn" \in Kind["place"] /\ "none" \in Kind["ev_cb"] /\ {} \in Kind["events"] BY Kinds
<1>3. "place" \in Fields /\ "ev_cb" \in Fields /\ "events" \in Fields BY DEF Fields
<1>4. a \in Conns /\ a.place = "qtn" /\ \A g \in Fields \ {"place"} : a[g] = t[g]
  BY <1>2, <1>3, SetField
<1>5. b \in Conns /\ b.ev_cb = "none" /\ \A g \in Fields \ {"ev_cb"} : b[g] = a[g]
  BY <1>2, <1>3, <1>4, SetField
<1>6. c \in Conns /\ c.events = {} /\ \A g \in Fields \ {"events"} : c[g] = b[g]
  BY <1>2, <1>3, <1>5, SetField
<1> QED BY <1>1, <1>3, <1>4, <1>5, <1>6

LEMMA LingerFields ==
  ASSUME NEW t \in Conns
  PROVE  /\ LingerBegin(t) \in Conns
         /\ LingerBegin(t).place = "linger" /\ LingerBegin(t).ev_cb = "linger"
         /\ LingerBegin(t).buf_s = 0
         /\ \A g \in Fields \ {"place", "skid", "ev_cb", "events", "buf_s"} :
              LingerBegin(t)[g] = t[g]
<1> DEFINE a == Set(t, "place", "linger")
           b == Set(a, "skid", 0)
           c == Set(b, "ev_cb", "linger")
           d == Set(c, "events", {"R"})
           e == Set(d, "buf_s", 0)
<1>1. LingerBegin(t) = e BY DEF LingerBegin, Set
<1>2. /\ "linger" \in Kind["place"] /\ 0 \in Kind["skid"] /\ "linger" \in Kind["ev_cb"]
      /\ {"R"} \in Kind["events"] /\ 0 \in Kind["buf_s"]
  BY Kinds
<1>3. {"place", "skid", "ev_cb", "events", "buf_s"} \subseteq Fields BY DEF Fields
<1>4. a \in Conns /\ a.place = "linger" /\ \A g \in Fields \ {"place"} : a[g] = t[g]
  BY <1>2, <1>3, SetField
<1>5. b \in Conns /\ \A g \in Fields \ {"skid"} : b[g] = a[g]
  BY <1>2, <1>3, <1>4, SetField
<1>6. c \in Conns /\ c.ev_cb = "linger" /\ \A g \in Fields \ {"ev_cb"} : c[g] = b[g]
  BY <1>2, <1>3, <1>5, SetField
<1>7. d \in Conns /\ \A g \in Fields \ {"events"} : d[g] = c[g]
  BY <1>2, <1>3, <1>6, SetField
<1>8. e \in Conns /\ e.buf_s = 0 /\ \A g \in Fields \ {"buf_s"} : e[g] = d[g]
  BY <1>2, <1>3, <1>7, SetField
<1> QED BY <1>1, <1>3, <1>4, <1>5, <1>6, <1>7, <1>8

-----------------------------------------------------------------------------
(* The connection *)

Live(t) == t.place = "live"

\* What each place of the object says of it.
Basic(t) ==
  /\ t.place = "pool" => t = Fresh
  /\ Live(t) => t.ends = 0 /\ t.ev_cb \in {"rw", "connect"}
  /\ t.place = "linger" => t.ev_cb = "linger"
  /\ t.place = "qtn" => t.ev_cb = "none"
  /\ t.place \in {"linger", "qtn"} => t.ends = 1 \/ (t.ends = 0 /\ t.told = "failed")
  /\ t.flushpend => Live(t)
  /\ t.incb => Live(t)
  /\ ~t.established => ~t.flushpend /\ t.buf_s = 0
  /\ t.ev_cb = "connect" => ~t.established
  /\ t.remove => t.incb /\ t.error

\* A connection that is being closed, and by no callback's return, is registered for
\* the event that ends it.
Closing(t) == Live(t) /\ t.error /\ ~t.remove => t.events = {"R", "W"}

\* What is queued is sent by the write event, at the end of the round, or by the
\* function that is sending.
Queue(t) ==
  Live(t) /\ ~t.error /\ ~t.sending /\ t.buf_s > 0 => "W" \in t.events \/ t.flushpend

\* A connection in use is registered for what it waits for.
Waits(t) ==
  Live(t) /\ ~t.error => IF t.ev_cb = "connect" THEN "W" \in t.events ELSE "R" \in t.events

Sound(t) == t \in Conns /\ Basic(t) /\ Closing(t) /\ Queue(t)

\* What an operator of the connection keeps: a life ends only outside callbacks, ...
Keeps(t, u) ==
  /\ u.sending = t.sending /\ u.told = t.told /\ u.established = t.established
  /\ IF t.incb THEN u.incb /\ Live(u) ELSE ~u.incb
  /\ Waits(t) => Waits(u)

\* ... and skid and handler are those of this life.
SameLife(t, u) ==
  /\ u.place # "pool"
  /\ u.ev_cb \in {"rw", "connect"} => u.ev_cb = t.ev_cb /\ u.skid = t.skid

\* A close inside a callback is put off; outside it ends the life.
LEMMA CloseKeeps ==
  ASSUME NEW t \in Conns, Live(t), Basic(t), NEW u \in CloseTcp(t)
  PROVE  Sound(u) /\ Keeps(t, u) /\ SameLife(t, u) /\ (t.incb \/ ~Live(u))
<1>1. CASE t.incb
  <2> DEFINE v == Raise(t, "error")
  <2>1. u = Raise(v, "remove") BY <1>1 DEF CloseTcp, Live, Raise
  <2>2. v \in Conns /\ v.error /\ \A g \in Fields \ {"error"} : v[g] = t[g]
    BY RaiseFlag DEF Flags
  <2>3. u \in Conns /\ u.remove /\ \A g \in Fields \ {"remove"} : u[g] = v[g]
    BY <2>1, <2>2, RaiseFlag DEF Flags
  <2>4. u \in Conns /\ u.error /\ u.remove /\ \A g \in Fields \ {"error", "remove"} : u[g] = t[g]
    BY <2>2, <2>3 DEF Fields
  <2> QED BY <1>1, <2>4 DEF Fields, Sound, Basic, Closing, Queue, Keeps, SameLife, Waits, Live
<1>2. CASE ~t.incb
  <2> DEFINE w == Lower(t, "flushpend")
             v == Set(w, "ends", t.ends + 1)
  <2>1. u = Detach(v) \/ u = LingerBegin(v)
    BY <1>2 DEF CloseTcp, Live, Lower, Set
  <2>2. w \in Conns /\ ~w.flushpend /\ \A g \in Fields \ {"flushpend"} : w[g] = t[g]
    BY LowerFlag DEF Flags
  <2>3. t.ends = 0 BY DEF Basic
  <2> HIDE DEF w
  <2>4. v \in Conns /\ v.ends = 1 /\ \A g \in Fields \ {"ends"} : v[g] = w[g]
    BY <2>2, <2>3, SetField, Kinds, 1 \in Nat, "ends" \in Fields DEF Fields
  <2>5. /\ v \in Conns /\ v.ends = 1 /\ ~v.flushpend /\ ~v.incb /\ ~v.remove
        /\ v.sending = t.sending /\ v.told = t.told /\ v.established = t.established
        /\ ~v.established => v.buf_s = 0
    BY <1>2, <2>2, <2>4 DEF Fields, Basic, Live
  <2> HIDE DEF v
  <2>6. CASE u = Detach(v)
    <3>1. /\ u \in Conns /\ u.place = "qtn" /\ u.ev_cb = "none" /\ u.events = {}
          /\ \A g \in Fields \ {"place", "ev_cb", "events"} : u[g] = v[g]
      BY <2>5, <2>6, DetachFields
    <3> QED BY <1>2, <2>5, <3>1
        DEF Fields, Sound, Basic, Closing, Queue, Keeps, SameLife, Waits, Live
  <2>7. CASE u = LingerBegin(v)
    <3>1. /\ u \in Conns /\ u.place = "linger" /\ u.ev_cb = "linger" /\ u.buf_s = 0
          /\ \A g \in Fields \ {"place", "skid", "ev_cb", "events", "buf_s"} : u[g] = v[g]
      BY <2>5, <2>7, LingerFields
    <3> QED BY <1>2, <2>5, <3>1
        DEF Fields, Sound, Basic, Closing, Queue, Keeps, SameLife, Waits, Live
  <2> QED BY <2>1, <2>6, <2>7
<1> QED BY <1>1, <1>2

LEMMA FailedKeeps ==
  ASSUME NEW t \in Conns, Live(t), Basic(t), NEW u \in Failed(t)
  PROVE  Sound(u) /\ Keeps(t, u) /\ SameLife(t, u) /\ (t.incb \/ ~Live(u))
<1> DEFINE v == Raise(t, "error")
<1>1. u \in CloseTcp(v) BY DEF Failed, Raise
<1>2. v \in Conns /\ v.error /\ \A g \in Fields \ {"error"} : v[g] = t[g]
  BY RaiseFlag DEF Flags
<1> HIDE DEF v
<1>3. Live(v) /\ Basic(v) /\ Waits(v) /\ v.incb = t.incb
  BY <1>2 DEF Fields, Live, Basic, Waits
<1>4. Sound(u) /\ Keeps(v, u) /\ SameLife(v, u) /\ (v.incb \/ ~Live(u))
  BY <1>1, <1>2, <1>3, CloseKeeps
<1> QED BY <1>2, <1>3, <1>4 DEF Fields, Keeps, SameLife

\* The peer's end is noted before a failed connection is closed.
LEMMA MarkedKeeps ==
  ASSUME NEW t \in Conns, Live(t), Basic(t), NEW r \in Results \ {"ok"},
         NEW u \in Failed(MarkClose(t, r))
  PROVE  Sound(u) /\ Keeps(t, u) /\ SameLife(t, u) /\ (t.incb \/ ~Live(u))
<1> DEFINE v == MarkClose(t, r)
<1>1. v = t \/ v = Set(t, "peer", r) BY DEF MarkClose, Set
<1>2. r \in Kind["peer"] /\ "peer" \in Fields BY Kinds DEF Results, Fields
<1>3. v \in Conns /\ \A g \in Fields \ {"peer"} : v[g] = t[g] BY <1>1, <1>2, SetField
<1> HIDE DEF v
<1>4. Live(v) /\ Basic(v) /\ (Waits(t) => Waits(v)) /\ v.incb = t.incb
  BY <1>3 DEF Fields, Live, Basic, Waits
<1>5. u \in Failed(v) BY DEF v
<1>6. Sound(u) /\ Keeps(v, u) /\ SameLife(v, u) /\ (v.incb \/ ~Live(u))
  BY <1>3, <1>4, <1>5, FailedKeeps
<1> QED BY <1>3, <1>4, <1>6 DEF Fields, Keeps, SameLife

\* One event more is registered, or the connection fails.
LEMMA KeepEventKeeps ==
  ASSUME NEW t \in Conns, Live(t), Basic(t), Closing(t), NEW e \in Events,
         Queue(t) \/ e = "W", NEW u \in KeepEvent(t, e)
  PROVE  Sound(u) /\ Keeps(t, u) /\ SameLife(t, u)
<1>1. CASE u \in Failed(t) BY <1>1, FailedKeeps
<1> DEFINE x == t.events \cup {e}
<1>2. CASE u = Set(t, "events", x)
  <2>1. t.events \in SUBSET Events BY Typed, Kinds DEF Fields, Events
  <2>2. x \in Kind["events"] /\ "events" \in Fields
    BY <2>1, Kinds DEF Fields, Events
  <2> HIDE DEF x
  <2>3. u \in Conns /\ u.events = x /\ \A g \in Fields \ {"events"} : u[g] = t[g]
    BY <1>2, <2>2, SetField
  <2> USE DEF x
  <2>4. Basic(u) BY <2>3 DEF Fields, Basic, Live
  <2>5. Closing(u) /\ Queue(u) BY <2>3 DEF Fields, Closing, Queue, Live, Events
  <2>6. Keeps(t, u) BY <2>3 DEF Fields, Keeps, Basic, Waits, Live
  <2>7. SameLife(t, u) BY <2>3 DEF Fields, SameLife, Live
  <2> QED BY <2>3, <2>4, <2>5, <2>6, <2>7 DEF Sound
<1> QED BY <1>1, <1>2 DEF KeepEvent, Set

\* Disconnecting registers for the event that the shutdown causes, or closes.
LEMMA DisconnectKeeps ==
  ASSUME NEW t, Sound(t), Live(t), NEW u \in Disconnect(t)
  PROVE  Sound(u) /\ Keeps(t, u) /\ SameLife(t, u)
<1> USE DEF Sound
<1>1. CASE t.error
  BY <1>1 DEF Disconnect, Keeps, SameLife, Basic, Live
<1>2. CASE ~t.error
  <2> DEFINE a == Set(t, "buf_s", 0)
             b == Raise(a, "error")
             lingers == t.established /\ t.peer = "local"
             c == IF lingers THEN Raise(b, "linger") ELSE Lower(b, "linger")
             d == Set(c, "shut", IF lingers THEN "WR" ELSE "RD")
             e == Set(d, "events", {"R", "W"})
  <2>1. u = e \/ u \in CloseTcp(d)
    BY <1>2 DEF Disconnect, Set, Raise, Lower
  <2>2. a \in Conns /\ \A g \in Fields \ {"buf_s"} : a[g] = t[g]
    BY SetField, Kinds DEF Fields
  <2>3. a.buf_s = 0
    BY SetField, Kinds DEF Fields
  <2> HIDE DEF a
  <2>4. b \in Conns /\ b.error /\ \A g \in Fields \ {"error"} : b[g] = a[g]
    BY <2>2, RaiseFlag DEF Flags
  <2> HIDE DEF b
  <2>5. c \in Conns /\ \A g \in Fields \ {"linger"} : c[g] = b[g]
    BY <2>4, RaiseFlag, LowerFlag DEF Flags
  <2> HIDE DEF c
  <2>6. d \in Conns /\ \A g \in Fields \ {"shut"} : d[g] = c[g]
    BY <2>5, SetField, Kinds DEF Fields
  <2> HIDE DEF d
  <2>7. /\ d.error /\ d.buf_s = 0
        /\ \A g \in Fields \ {"buf_s", "error", "linger", "shut"} : d[g] = t[g]
    BY <2>2, <2>3, <2>4, <2>5, <2>6 DEF Fields
  <2>8. Live(d) /\ Basic(d) /\ Waits(d)
    BY <2>7 DEF Fields, Basic, Live, Waits
  <2>9. CASE u \in CloseTcp(d)
    <3>1. Sound(u) /\ Keeps(d, u) /\ SameLife(d, u) BY <2>6, <2>8, <2>9, CloseKeeps
    <3> QED BY <2>7, <2>8, <3>1 DEF Fields, Keeps, SameLife
  <2>10. CASE u = e
    <3>1. u \in Conns /\ u.events = {"R", "W"} /\ \A g \in Fields \ {"events"} : u[g] = d[g]
      BY <2>6, <2>10, SetField, Kinds DEF Fields
    <3>2. Live(u) /\ Basic(u) /\ Closing(u) /\ Queue(u) /\ Waits(u)
      BY <2>7, <2>8, <3>1 DEF Fields, Basic, Live, Waits, Closing, Queue
    <3>3. Keeps(t, u) /\ SameLife(t, u)
      BY <2>7, <3>1, <3>2 DEF Fields, Keeps, SameLife, Basic, Live
    <3> QED BY <3>1, <3>2, <3>3
  <2> QED BY <2>1, <2>9, <2>10
<1> QED BY <1>1, <1>2

\* A send that has ended waits for the write event if something is left.
LEMMA AfterSendKeeps ==
  ASSUME NEW t \in Conns, Live(t), Basic(t), Closing(t), t.ev_cb = "rw",
         NEW r \in Results, NEW u \in AfterSend(t, r)
  PROVE  Sound(u) /\ Keeps(t, u) /\ SameLife(t, u)
<1>1. CASE t.error
  BY <1>1 DEF AfterSend, Sound, Queue, Keeps, SameLife, Basic, Live
<1>2. CASE ~t.error /\ r # "ok"
  BY <1>2, MarkedKeeps DEF AfterSend
<1>3. CASE ~t.error /\ r = "ok" /\ t.buf_s = 0
  <2> DEFINE x == t.events \ {"W"}
  <2>1. u = Set(t, "events", x) BY <1>3 DEF AfterSend, Set
  <2>2. t.events \in SUBSET Events BY Typed, Kinds DEF Fields, Events
  <2>3. x \in Kind["events"] /\ "events" \in Fields
    BY <2>2, Kinds DEF Fields, Events
  <2> HIDE DEF x
  <2>4. u \in Conns /\ u.events = x /\ \A g \in Fields \ {"events"} : u[g] = t[g]
    BY <2>1, <2>3, SetField
  <2> USE DEF x
  <2>5. Basic(u) BY <2>4 DEF Fields, Basic, Live
  <2>6. Closing(u) /\ Queue(u) BY <1>3, <2>4 DEF Fields, Closing, Queue, Live
  <2>7. Keeps(t, u) BY <2>4 DEF Fields, Keeps, Basic, Waits, Live
  <2>8. SameLife(t, u) BY <2>4 DEF Fields, SameLife, Live
  <2> QED BY <2>4, <2>5, <2>6, <2>7, <2>8 DEF Sound
<1>4. CASE ~t.error /\ r = "ok" /\ t.buf_s # 0
  BY <1>4, KeepEventKeeps DEF AfterSend, Events
<1> QED BY <1>1, <1>2, <1>3, <1>4

-----------------------------------------------------------------------------
(* The connection and the functions under way *)

\* A callback runs exactly while the connection says so, and so does a send; what
\* stands below a connection that has ended has nothing left to do.
Fits(t, q) ==
  /\ q \in Stacks
  /\ t.incb <=> q \in Calls
  /\ t.sending <=> q \in Sends
  /\ Live(t) \/ q \in Outer
  /\ t.ev_cb = "connect" => q \in {<<>>, Failure}
  /\ IF q = Failure THEN t.told = "failed" /\ ~t.established ELSE Waits(t)

LEMMA OuterStacks == Outer \subseteq {<<>>} \cup Rw
BY DEF Outer, Rw, Events

\* An operator that leaves the functions under way alone.
LEMMA SameStack ==
  ASSUME NEW t, NEW u, NEW q, Sound(t), Fits(t, q), Keeps(t, u), SameLife(t, u),
         q \in Outer \cup Calls
  PROVE  Fits(u, q)
<1>1. u.incb <=> q \in Calls BY DEF Fits, Keeps
<1>2. Live(u) \/ q \in Outer BY DEF Fits, Keeps
<1>3. u.ev_cb = "connect" => q \in {<<>>, Failure} BY DEF Fits, SameLife
<1>4. IF q = Failure THEN u.told = "failed" /\ ~u.established ELSE Waits(u) BY DEF Fits, Keeps
<1>5. u.sending <=> q \in Sends BY DEF Fits, Keeps
<1> QED BY <1>1, <1>2, <1>3, <1>4, <1>5 DEF Fits

\* A function returns to one that is no send.
LEMMA Lands ==
  ASSUME NEW t, NEW u, NEW p \in {<<>>} \cup Rw \cup Inner, Sound(u), Keeps(t, u),
         SameLife(t, u), ~t.sending, Waits(t), t.incb <=> p \in Inner,
         t.ev_cb # "connect" \/ p = <<>>, Live(u) \/ p \in Outer
  PROVE  Fits(u, p)
<1>1. p # Failure /\ p \notin Sends /\ (p \in Calls <=> p \in Inner) /\ p \in Stacks
  BY Apart DEF Stacks, Calls, Inner
<1>2. u.incb <=> p \in Calls BY <1>1 DEF Keeps
<1>3. Waits(u) /\ ~u.sending BY DEF Keeps
<1>4. u.ev_cb = "connect" => p = <<>> BY DEF SameLife
<1> QED BY <1>1, <1>2, <1>3, <1>4 DEF Fits

\* _usk_tcp_send, from the end of a round, from the write event or below a callback.
LEMMA TcpSendFits ==
  ASSUME NEW t \in Conns, Live(t), Basic(t), Closing(t), ~t.sending, t.ev_cb = "rw", Waits(t),
         NEW below \in Outer \cup Inner, t.incb <=> below \in Inner, TcpSend(t, below)
  PROVE  Sound(tcp') /\ Fits(tcp', stack') /\ SameLife(t, tcp')
<1>1. CASE t.error /\ tcp' = t /\ stack' = below
  <2>1. Sound(t) /\ Keeps(t, t) /\ SameLife(t, t)
    BY <1>1 DEF Sound, Queue, Keeps, SameLife, Basic, Live
  <2> QED BY <1>1, <2>1, Lands, OuterStacks
<1>2. CASE ~t.error
  <2>1. PICK n \in 0 .. t.buf_s, r \in {"ok", "abort"} :
          LET u == [t EXCEPT !.buf_s = @ - n] IN
            \/ tcp' \in AfterSend(u, r) /\ stack' = below
            \/ /\ t.buf_s > 0
               /\ tcp' = [Enter(u) EXCEPT !.sending = TRUE]
               /\ stack' = Append(below, Frame("send", r, t.incb, {}))
    BY <1>2 DEF TcpSend
  <2> DEFINE x == t.buf_s - n
             u == Set(t, "buf_s", x)
  <2>2. u = [t EXCEPT !.buf_s = @ - n] BY DEF Set
  <2>3. t.buf_s \in 0 .. MaxQueue BY Typed, Kinds DEF Fields
  <2>4. x \in Kind["buf_s"] /\ x \in 0 .. t.buf_s /\ "buf_s" \in Fields BY <2>3, Kinds DEF Fields
  <2> HIDE DEF x
  <2>5. u \in Conns /\ u.buf_s = x /\ \A g \in Fields \ {"buf_s"} : u[g] = t[g]
    BY <2>4, SetField
  <2> HIDE DEF u
  <2>6. Live(u) /\ Basic(u) /\ Closing(u) /\ Waits(u)
    <3>1. t.buf_s = 0 => u.buf_s = 0 BY <2>3, <2>4, <2>5
    <3>2. Live(u) /\ Basic(u) BY <2>5, <3>1 DEF Fields, Live, Basic
    <3> QED BY <2>5, <3>2 DEF Fields, Live, Closing, Waits
  <2>7. CASE tcp' \in AfterSend(u, r) /\ stack' = below
    <3>1. Sound(tcp') /\ Keeps(u, tcp') /\ SameLife(u, tcp')
      BY <2>5, <2>6, <2>7, AfterSendKeeps DEF Fields, Results
    <3>2. ~u.sending /\ u.ev_cb = "rw" /\ (u.incb <=> below \in Inner) /\ u.skid = t.skid
      BY <2>5 DEF Fields
    <3>3. Live(tcp') \/ below \in Outer BY <3>1, <3>2 DEF Keeps
    <3>4. Fits(tcp', below) BY <2>6, <3>1, <3>2, <3>3, Lands, OuterStacks
    <3> QED BY <2>7, <3>1, <3>2, <3>4 DEF SameLife
  <2>8. CASE tcp' = [Enter(u) EXCEPT !.sending = TRUE]
             /\ stack' = Append(below, Frame("send", r, t.incb, {}))
    <3> DEFINE v == Raise(u, "incb")
    <3>1. tcp' = Raise(v, "sending") BY <2>8 DEF Raise, Enter
    <3>2. v \in Conns /\ v.incb /\ \A g \in Fields \ {"incb"} : v[g] = u[g]
      BY <2>5, RaiseFlag DEF Flags
    <3> HIDE DEF v
    <3>3. tcp' \in Conns /\ tcp'.sending /\ \A g \in Fields \ {"sending"} : tcp'[g] = v[g]
      BY <3>1, <3>2, RaiseFlag DEF Flags
    <3>4. /\ tcp'.incb /\ tcp'.sending
          /\ \A g \in Fields \ {"incb", "sending"} : tcp'[g] = u[g]
      BY <3>2, <3>3 DEF Fields
    <3>5. ~tcp'.error /\ tcp'.ev_cb = "rw" /\ tcp'.skid = t.skid
      BY <1>2, <2>5, <3>4 DEF Fields
    <3>6. Sound(tcp') /\ Live(tcp') /\ Waits(tcp') /\ SameLife(t, tcp')
      BY <2>6, <3>3, <3>4, <3>5 DEF Fields, Sound, Basic, Closing, Queue, Waits, Live, SameLife
    <3>7. stack' \in Sends
      <4>1. CASE t.incb
        <5>1. Frame("send", r, t.incb, {}) = InnerSend(r)
          BY <4>1 DEF Frame, InnerSend, Conns
        <5>2. stack' = Append(below, InnerSend(r)) BY <2>8, <5>1
        <5>3. below \in Inner /\ r \in Results BY <4>1 DEF Results
        <5> QED BY <5>2, <5>3 DEF Sends, InnerSends
      <4>2. CASE ~t.incb
        <5>1. Frame("send", r, t.incb, {}) = OuterSend(r)
          BY <4>2 DEF Frame, OuterSend, Conns
        <5>2. stack' = Append(below, OuterSend(r)) BY <2>8, <5>1
        <5>3. below \in Outer /\ r \in Results BY <4>2 DEF Results
        <5> QED BY <5>2, <5>3 DEF Sends, OuterSends
      <4> QED BY <4>1, <4>2
    <3>8. stack' \in Stacks /\ stack' \in Calls /\ stack' # Failure
      BY <3>7, Apart DEF Stacks, Calls
    <3> QED BY <3>4, <3>5, <3>6, <3>7, <3>8 DEF Fits
  <2> QED BY <2>1, <2>2, <2>7, <2>8
<1> QED BY <1>1, <1>2 DEF TcpSend

\* Data to send: refused, queued, or sent at once.
LEMMA AddBufsSendFits ==
  ASSUME Sound(tcp), Live(tcp), NEW below \in {<<>>} \cup Calls, Fits(tcp, below),
         AddBufsSend(below)
  PROVE  Sound(tcp') /\ Fits(tcp', stack') /\ SameLife(tcp, tcp')
<1> DEFINE x == tcp.buf_s + 1
           u == Set(tcp, "buf_s", x)
<1>1. ~tcp.error BY DEF AddBufsSend
<1>2. CASE ~tcp.established \/ tcp.buf_s >= MaxQueue
  <2>1. tcp' \in Disconnect(tcp) /\ stack' = below BY <1>2 DEF AddBufsSend
  <2>2. Sound(tcp') /\ Keeps(tcp, tcp') /\ SameLife(tcp, tcp') BY <2>1, DisconnectKeeps
  <2> QED BY <2>1, <2>2, SameStack DEF Outer
<1>3. CASE tcp.established /\ ~(tcp.buf_s >= MaxQueue)
  <2>1. tcp.buf_s \in 0 .. MaxQueue BY Typed, Kinds DEF Fields, Sound
  <2>2. x \in Kind["buf_s"] /\ x > 0 /\ "buf_s" \in Fields BY <1>3, <2>1, Kinds DEF Fields
  <2> HIDE DEF x
  <2>3. u = [tcp EXCEPT !.buf_s = @ + 1] BY DEF Set, x
  <2>4. u \in Conns /\ u.buf_s = x /\ \A g \in Fields \ {"buf_s"} : u[g] = tcp[g]
    BY <2>2, SetField DEF Sound
  <2> HIDE DEF u
  <2>5. Live(u) /\ Basic(u) /\ ~u.error /\ u.ev_cb = "rw" /\ u.skid = tcp.skid
    BY <1>1, <1>3, <2>4 DEF Fields, Live, Basic, Sound
  <2>6. below # Failure /\ Waits(u) /\ (u.incb <=> below \in Calls)
        /\ (u.sending <=> below \in Sends)
    BY <1>3, <2>4 DEF Fits, Fields, Waits, Live
  <2>7. CASE ~u.sending /\ u.flushpend /\ u.buf_s >= MaxIov
    <3> DEFINE v == Lower(u, "flushpend")
    <3>1. TcpSend(v, below) BY <1>3, <2>3, <2>7 DEF AddBufsSend, Lower
    <3>2. v \in Conns /\ ~v.flushpend /\ \A g \in Fields \ {"flushpend"} : v[g] = u[g]
      BY <2>4, LowerFlag DEF Flags
    <3> HIDE DEF v
    <3>3. Live(v) /\ Basic(v) /\ Closing(v) /\ Waits(v) /\ v.ev_cb = "rw" /\ ~v.sending
      BY <2>5, <2>6, <2>7, <3>2 DEF Fields, Live, Basic, Closing, Waits
    <3>4. below \in Outer \cup Inner /\ (v.incb <=> below \in Inner)
      BY <2>6, <2>7, <3>2, Apart DEF Fields, Calls, Inner, Outer
    <3>5. Sound(tcp') /\ Fits(tcp', stack') /\ SameLife(v, tcp')
      BY <3>1, <3>2, <3>3, <3>4, TcpSendFits
    <3> QED BY <2>4, <2>5, <3>2, <3>3, <3>5 DEF Fields, SameLife
  <2>8. CASE ~(~u.sending /\ u.flushpend /\ u.buf_s >= MaxIov)
    <3> DEFINE f == u.flushpend \/ (~u.sending /\ tcp.buf_s = 0)
               v == [u EXCEPT !.flushpend = f]
    <3>1. tcp' = v /\ stack' = below BY <1>3, <2>3, <2>8 DEF AddBufsSend
    <3>2. (f => v = Raise(u, "flushpend")) /\ (~f => v = Lower(u, "flushpend"))
      BY DEF Raise, Lower
    <3>3. v \in Conns /\ (v.flushpend <=> f) /\ \A g \in Fields \ {"flushpend"} : v[g] = u[g]
      <4> HIDE DEF v
      <4>1. CASE f BY <2>4, <3>2, <4>1, RaiseFlag DEF Flags
      <4>2. CASE ~f BY <2>4, <3>2, <4>2, LowerFlag DEF Flags
      <4> QED BY <4>1, <4>2
    <3> HIDE DEF v
    <3>4. Live(v) /\ Basic(v) /\ Closing(v) /\ (Waits(tcp) => Waits(v))
      BY <1>3, <2>4, <2>5, <3>3 DEF Fields, Live, Basic, Closing, Waits
    <3>5. Queue(v)
      BY <2>1, <2>4, <3>3 DEF Fields, Live, Queue, Sound
    <3>6. Keeps(tcp, v) /\ SameLife(tcp, v)
      BY <2>4, <2>5, <3>3, <3>4 DEF Fields, Keeps, SameLife, Live
    <3> QED BY <3>1, <3>3, <3>4, <3>5, <3>6, SameStack DEF Sound, Outer
  <2> QED BY <2>7, <2>8
<1> QED BY <1>2, <1>3

\* A receive has ended: the write event follows, unless the connection was lost.
LEMMA RecvEndsFits ==
  ASSUME NEW t \in Conns, Sound(t), Live(t), ~t.incb, ~t.sending, t.ev_cb = "rw", Waits(t),
         NEW r \in Results, NEW d \in SUBSET Events, RecvEnds(t, r, d)
  PROVE  Sound(tcp') /\ Fits(tcp', stack') /\ SameLife(t, tcp')
<1>1. Sound(tcp') /\ Keeps(t, tcp') /\ SameLife(t, tcp')
  <2>1. CASE tcp' \in Failed(t) BY <2>1, FailedKeeps DEF Sound
  <2>2. CASE tcp' \in AfterRecv(t, r) /\ r # "ok"
    BY <2>2, MarkedKeeps DEF AfterRecv, Sound
  <2>3. CASE tcp' \in AfterRecv(t, r) /\ r = "ok"
    BY <2>3, KeepEventKeeps DEF AfterRecv, Sound, Events
  <2> QED BY <2>1, <2>2, <2>3 DEF RecvEnds
<1>2. stack' \in {<<>>} \cup Rw /\ (Live(tcp') \/ stack' = <<>>)
  BY DEF RecvEnds, Rw, Live
<1>3. stack' \notin Inner /\ <<>> \in Outer
  <2>1. <<>> \notin Inner BY Apart DEF Inner
  <2>2. \A q \in Rw : q \notin Inner BY Apart DEF Inner, Calls
  <2> QED BY <1>2, <2>1, <2>2 DEF Outer
<1> QED BY <1>1, <1>2, <1>3, Lands

-----------------------------------------------------------------------------
(* The invariant *)

\* What was fetched from the poller is for this life of the object.
Fetched ==
  batch # {} => /\ tcp.place # "pool"
                /\ tcp.ev_cb \in {"rw", "connect"} => batch_of = tcp.skid

Rest ==
  /\ batch \subseteq Events /\ batch_of \in 0 .. MaxLives
  /\ cmds \in Seq([op : {"send", "close"}, skid : 1 .. MaxLives]) /\ Len(cmds) <= MaxCmds
  /\ life \in 0 .. MaxLives

Core == Sound(tcp) /\ Fits(tcp, stack) /\ Fetched
IInv == Core /\ Rest

LEMMA FetchedKept ==
  ASSUME Fetched, SameLife(tcp, tcp'), UNCHANGED <<batch, batch_of>>
  PROVE  Fetched'
BY DEF Fetched, SameLife

\* Between two functions, and inside a callback.
LEMMA AtRest ==
  ASSUME Sound(tcp), Fits(tcp, stack), stack = <<>>
  PROVE  ~tcp.incb /\ ~tcp.sending /\ ~tcp.remove /\ Waits(tcp) /\ stack \in Outer
<1>1. <<>> \notin Calls /\ <<>> \notin Sends /\ <<>> # Failure
  BY Apart DEF Calls
<1> QED BY <1>1 DEF Fits, Sound, Basic, Outer

LEMMA Inside ==
  ASSUME Sound(tcp), Fits(tcp, stack), InCallback
  PROVE  stack \in Calls /\ tcp.incb /\ Live(tcp)
<1>1. stack \in Calls
  BY TopTells DEF InCallback, Fits, Calls, Opening
<1> QED BY <1>1 DEF Fits, Sound, Basic

\* A connection that ends without a farewell was never made.
LEMMA DetachSound ==
  ASSUME NEW t \in Conns, Basic(t), ~t.incb, ~t.sending, ~t.remove, ~t.flushpend,
         t.place = "linger" \/ (Live(t) /\ t.told = "failed")
  PROVE  Sound(Detach(t)) /\ Fits(Detach(t), <<>>) /\ SameLife(t, Detach(t))
<1> DEFINE u == Detach(t)
<1>1. /\ u \in Conns /\ u.place = "qtn" /\ u.ev_cb = "none"
      /\ \A g \in Fields \ {"place", "ev_cb", "events"} : u[g] = t[g]
  BY DetachFields
<1> HIDE DEF u
<1>2. Basic(u) BY <1>1 DEF Fields, Basic, Live
<1>3. Closing(u) /\ Queue(u) /\ Waits(u) /\ ~Live(u) /\ ~u.incb /\ ~u.sending
  BY <1>1 DEF Fields, Closing, Queue, Waits, Live
<1>4. <<>> \notin Calls /\ <<>> \notin Sends /\ <<>> # Failure
  BY Apart DEF Calls
<1>5. Fits(u, <<>>) BY <1>1, <1>3, <1>4 DEF Fits, Stacks, Outer
<1>6. SameLife(t, u) BY <1>1 DEF SameLife
<1> QED BY <1>1, <1>2, <1>3, <1>5, <1>6 DEF Sound, u

LEMMA FreshSound == Sound(Fresh) /\ Fits(Fresh, <<>>)
<1>1. Fresh \in Conns BY DEF Fresh, Conns
<1>2. Basic(Fresh) /\ Closing(Fresh) /\ Queue(Fresh) /\ Waits(Fresh)
      /\ ~Fresh.incb /\ ~Fresh.sending /\ Fresh.ev_cb = "none"
  BY DEF Fresh, Basic, Closing, Queue, Waits, Live
<1>3. <<>> \notin Calls /\ <<>> \notin Sends /\ <<>> # Failure
  BY Apart DEF Calls
<1> QED BY <1>1, <1>2, <1>3 DEF Sound, Fits, Stacks, Outer

LEMMA InitOK == Init => IInv
<1> SUFFICES ASSUME Init PROVE IInv
  OBVIOUS
<1>1. Sound(tcp) /\ Fits(tcp, stack) BY FreshSound DEF Init
<1>2. Fetched BY DEF Init, Fetched
<1>3. Rest BY DEF Init, Rest, Events
<1> QED BY <1>1, <1>2, <1>3 DEF IInv, Core

-----------------------------------------------------------------------------
(* One lemma for each action *)

USE DEF IInv, Core

\* Only a post adds a command, and only a life that begins takes a number.
LEMMA RestKept == IInv /\ [Next]_vars => Rest'
<1> SUFFICES ASSUME Rest, tcp \in Conns, [Next]_vars PROVE Rest'
  BY DEF Sound
<1> DEFINE Same == UNCHANGED <<batch, batch_of, cmds, life>>
           Begins == UNCHANGED <<batch, batch_of, cmds>> /\ life < MaxLives /\ life' = life + 1
<1>1. CASE Same \/ UNCHANGED vars BY <1>1 DEF Rest, vars
<1>2. CASE Begins BY <1>2 DEF Rest
<1>3. CASE Poll
  <2>1. tcp.skid \in 0 .. MaxLives /\ tcp.events \in SUBSET Events
    BY Typed, Kinds DEF Fields, Events
  <2> QED BY <1>3, <2>1 DEF Poll, Rest, Events
<1>4. CASE batch' = {} /\ batch_of' = 0 /\ UNCHANGED <<cmds, life>>
  BY <1>4 DEF Rest
<1>5. CASE Command
  BY <1>5, HeadTailProperties DEF Command, Rest
<1>6. ASSUME NEW op \in {"send", "close"}, NEW k \in 1 .. MaxLives, Post(op, k) PROVE Rest'
  <2>1. [op |-> op, skid |-> k] \in [op : {"send", "close"}, skid : 1 .. MaxLives] OBVIOUS
  <2> QED BY <1>6, <2>1, AppendProperties DEF Post, Rest
<1>7. AddAcp \/ AddAcpErr \/ AddConn => Begins
  BY DEF AddAcp, AddAcpErr, AddConn, MayBegin
<1>8. DispatchNone \/ OnConnect \/ OnRw \/ OnLinger =>
        batch' = {} /\ batch_of' = 0 /\ UNCHANGED <<cmds, life>>
  BY DEF DispatchNone, OnConnect, OnRw, OnLinger, Dispatch
<1>9. LingerTick \/ Flush \/ QtnDrain \/ Read \/ Write \/ RwEnd \/ UserSend \/ UserClose => Same
  BY DEF LingerTick, Flush, QtnDrain, Read, Write, RwEnd, UserSend, UserClose
<1>10. AcpReturn \/ ConnReturn \/ RecvReturn \/ SendReturn => Same
  BY DEF AcpReturn, ConnReturn, RecvReturn, SendReturn, Returns
<1> QED BY <1>1, <1>2, <1>3, <1>4, <1>5, <1>6, <1>7, <1>8, <1>9, <1>10 DEF Next

\* A life begins: ...
LEMMA BornFields ==
  ASSUME life + 1 \in 0 .. MaxLives
  PROVE  /\ Born \in Conns /\ Live(Born)
         /\ \A g \in Fields \ {"place", "skid"} : Born[g] = Fresh[g]
<1> DEFINE a == Set(Fresh, "place", "live")
<1>1. Born = Set(a, "skid", life + 1) BY DEF Born, Set
<1>2. a \in Conns /\ a.place = "live" /\ \A g \in Fields \ {"place"} : a[g] = Fresh[g]
  BY FreshSound, SetField, Kinds DEF Fields, Sound
<1> HIDE DEF a
<1>3. Born \in Conns /\ \A g \in Fields \ {"skid"} : Born[g] = a[g]
  BY <1>1, <1>2, SetField, Kinds DEF Fields
<1> QED BY <1>2, <1>3 DEF Fields, Live

\* ... accepted, ...
LEMMA StepAddAcp == IInv /\ AddAcp => Core'
<1> SUFFICES ASSUME IInv, AddAcp PROVE Core'
  OBVIOUS
<1>1. tcp' = [Born EXCEPT !.ev_cb = "rw", !.established = TRUE, !.events = {"R"},
                          !.incb = TRUE, !.told = "open"]
      /\ stack' = <<Acp>> /\ UNCHANGED <<batch, batch_of>>
      /\ tcp.place = "pool" /\ life + 1 \in 0 .. MaxLives
  BY DEF AddAcp, MayBegin, Acp, Rest
<1> DEFINE a == Set(Born, "ev_cb", "rw")
           b == Raise(a, "established")
           c == Set(b, "events", {"R"})
           d == Raise(c, "incb")
<1>2. tcp' = Set(d, "told", "open") BY <1>1 DEF Set, Raise
<1>3. a \in Conns /\ a.ev_cb = "rw" /\ \A g \in Fields \ {"ev_cb"} : a[g] = Born[g]
  BY <1>1, BornFields, SetField, Kinds DEF Fields
<1> HIDE DEF a
<1>4. b \in Conns /\ b.established /\ \A g \in Fields \ {"established"} : b[g] = a[g]
  BY <1>3, RaiseFlag DEF Flags
<1> HIDE DEF b
<1>5. c \in Conns /\ c.events = {"R"} /\ \A g \in Fields \ {"events"} : c[g] = b[g]
  BY <1>4, SetField, Kinds DEF Fields
<1> HIDE DEF c
<1>6. d \in Conns /\ d.incb /\ \A g \in Fields \ {"incb"} : d[g] = c[g]
  BY <1>5, RaiseFlag DEF Flags
<1> HIDE DEF d
<1>7. tcp' \in Conns /\ tcp'.told = "open" /\ \A g \in Fields \ {"told"} : tcp'[g] = d[g]
  BY <1>2, <1>6, SetField, Kinds DEF Fields
<1>8. /\ tcp'.ev_cb = "rw" /\ tcp'.established /\ tcp'.events = {"R"} /\ tcp'.incb
      /\ \A g \in Fields \ {"ev_cb", "established", "events", "incb", "told"} : tcp'[g] = Born[g]
  BY <1>3, <1>4, <1>5, <1>6, <1>7 DEF Fields
<1>9. /\ Live(tcp') /\ tcp'.ev_cb = "rw" /\ tcp'.established /\ tcp'.events = {"R"}
      /\ tcp'.incb /\ tcp'.told = "open" /\ tcp'.ends = 0 /\ ~tcp'.sending
      /\ ~tcp'.remove /\ ~tcp'.error /\ tcp'.buf_s = 0
  BY <1>1, <1>7, <1>8, BornFields DEF Fresh, Live, Fields
<1>10. Basic(tcp') /\ Closing(tcp') /\ Queue(tcp') /\ Waits(tcp')
  BY <1>9 DEF Basic, Closing, Queue, Waits, Live
<1>11. <<Acp>> \in Stacks /\ <<Acp>> \in Calls /\ <<Acp>> \notin Sends /\ <<Acp>> # Failure
  BY Apart DEF Stacks, Calls, Opening
<1>12. Fits(tcp', stack') BY <1>1, <1>9, <1>10, <1>11 DEF Fits
<1>13. Fetched' BY <1>1 DEF Fetched
<1> QED BY <1>7, <1>10, <1>12, <1>13 DEF Sound

\* ... or connecting; what fails at once is told at once.
LEMMA ConnectErrFits ==
  ASSUME NEW t \in Conns, Live(t), Basic(t), Closing(t), t.buf_s = 0, ~t.flushpend,
         ~t.remove, ~t.sending, ConnectErr(t)
  PROVE  Sound(tcp') /\ Fits(tcp', stack') /\ SameLife(t, tcp')
<1> DEFINE a == Raise(t, "incb")
           b == Lower(a, "established")
<1>1. tcp' = Set(b, "told", "failed") /\ stack' = Failure
  BY DEF ConnectErr, Enter, Raise, Lower, Set, Failure
<1>2. a \in Conns /\ a.incb /\ \A g \in Fields \ {"incb"} : a[g] = t[g]
  BY RaiseFlag DEF Flags
<1> HIDE DEF a
<1>3. b \in Conns /\ ~b.established /\ \A g \in Fields \ {"established"} : b[g] = a[g]
  BY <1>2, LowerFlag DEF Flags
<1> HIDE DEF b
<1>4. tcp' \in Conns /\ tcp'.told = "failed" /\ \A g \in Fields \ {"told"} : tcp'[g] = b[g]
  BY <1>1, <1>3, SetField, Kinds DEF Fields
<1>5. /\ tcp'.incb /\ ~tcp'.established
      /\ \A g \in Fields \ {"incb", "established", "told"} : tcp'[g] = t[g]
  BY <1>2, <1>3, <1>4 DEF Fields
<1>6. Live(tcp') /\ Basic(tcp') /\ Closing(tcp') /\ Queue(tcp') /\ ~tcp'.sending
  BY <1>5 DEF Fields, Live, Basic, Closing, Queue
<1>7. Failure \in Stacks /\ Failure \in Calls /\ Failure \notin Sends
  BY Apart DEF Stacks, Calls
<1>8. Fits(tcp', stack') BY <1>1, <1>4, <1>5, <1>6, <1>7 DEF Fits
<1>9. SameLife(t, tcp') BY <1>5 DEF Fields, SameLife, Live
<1> QED BY <1>4, <1>6, <1>8, <1>9 DEF Sound

LEMMA StepAddConn == IInv /\ AddConn => Core'
<1> SUFFICES ASSUME IInv, AddConn PROVE Core'
  OBVIOUS
<1> DEFINE t == [Born EXCEPT !.ev_cb = "connect"]
<1>1. /\ tcp.place = "pool" /\ stack = <<>> /\ life + 1 \in 0 .. MaxLives
      /\ UNCHANGED <<batch, batch_of>>
      /\ (tcp' = [t EXCEPT !.events = {"W"}] /\ UNCHANGED stack) \/ ConnectErr(t)
  BY DEF AddConn, MayBegin, Rest
<1>2. Fetched' BY <1>1 DEF Fetched
<1>3. t \in Conns /\ t.ev_cb = "connect" /\ \A g \in Fields \ {"ev_cb"} : t[g] = Born[g]
  <2>1. t = Set(Born, "ev_cb", "connect") BY DEF Set
  <2>2. life + 1 \in 0 .. MaxLives BY <1>1
  <2> HIDE DEF t
  <2> QED BY <2>1, <2>2, BornFields, SetField, Kinds DEF Fields
<1> HIDE DEF t
<1>4. /\ Live(t) /\ ~t.established /\ ~t.incb /\ t.ends = 0 /\ ~t.sending
      /\ ~t.remove /\ ~t.error /\ t.buf_s = 0 /\ ~t.flushpend
  BY <1>1, <1>3, BornFields DEF Fresh, Live, Fields
<1>5. CASE tcp' = [t EXCEPT !.events = {"W"}] /\ UNCHANGED stack
  <2>1. /\ tcp' \in Conns /\ tcp'.events = {"W"}
        /\ \A g \in Fields \ {"events"} : tcp'[g] = t[g]
    <3>1. tcp' = Set(t, "events", {"W"}) BY <1>5 DEF Set
    <3> QED BY <1>3, <3>1, SetField, Kinds DEF Fields
  <2>2. /\ Live(tcp') /\ tcp'.ev_cb = "connect" /\ ~tcp'.established
        /\ ~tcp'.incb /\ tcp'.ends = 0 /\ ~tcp'.sending
        /\ ~tcp'.remove /\ ~tcp'.error /\ tcp'.buf_s = 0 /\ ~tcp'.flushpend
    BY <1>3, <1>4, <2>1 DEF Fields, Live
  <2>3. Basic(tcp') /\ Closing(tcp') /\ Queue(tcp') /\ Waits(tcp')
    BY <2>1, <2>2 DEF Basic, Closing, Queue, Waits, Live
  <2>4. <<>> \notin Calls /\ <<>> \notin Sends /\ <<>> # Failure
    BY Apart DEF Calls
  <2>5. Fits(tcp', stack') BY <1>1, <1>5, <2>2, <2>3, <2>4 DEF Fits, Stacks
  <2> QED BY <1>2, <2>1, <2>3, <2>5 DEF Sound
<1>6. CASE ConnectErr(t)
  <2>1. Basic(t) /\ Closing(t)
    BY <1>3, <1>4 DEF Basic, Closing, Live
  <2> QED BY <1>2, <1>6, <1>3, <1>4, <2>1, ConnectErrFits
<1> QED BY <1>1, <1>5, <1>6

LEMMA StepPoll == IInv /\ Poll => Core'
<1> SUFFICES ASSUME IInv, Poll PROVE Core'
  OBVIOUS
<1>1. tcp' = tcp /\ stack' = stack /\ batch_of' = tcp.skid /\ tcp.events # {}
  BY DEF Poll
<1>2. tcp.place # "pool" BY <1>1 DEF Sound, Basic, Fresh
<1> QED BY <1>1, <1>2 DEF Fetched, Sound, Fits

LEMMA StepOnConnect == IInv /\ OnConnect => Core'
<1> SUFFICES ASSUME IInv, OnConnect PROVE Core'
  OBVIOUS
<1> DEFINE t == Set(tcp, "ev_cb", "rw")
<1>1. /\ tcp.ev_cb = "connect" /\ stack = <<>> /\ batch' = {}
      /\ \/ ConnectErr(t)
         \/ /\ ~t.error
            /\ tcp' = [Enter(t) EXCEPT !.established = TRUE, !.events = {"R"}, !.told = "open"]
            /\ stack' = <<Conn>>
  BY DEF OnConnect, Dispatch, Set, Conn
<1>2. Fetched' BY <1>1 DEF Fetched
<1>3. Live(tcp) /\ ~tcp.established /\ tcp.buf_s = 0 /\ ~tcp.flushpend
  BY <1>1 DEF Sound, Conns, Basic, Fresh, Live
<1>4. ~tcp.incb /\ ~tcp.sending /\ ~tcp.remove BY <1>1, AtRest
<1>5. t \in Conns /\ t.ev_cb = "rw" /\ \A g \in Fields \ {"ev_cb"} : t[g] = tcp[g]
  BY SetField, Kinds DEF Fields, Sound
<1> HIDE DEF t
<1>6. /\ Live(t) /\ Basic(t) /\ Closing(t) /\ t.buf_s = 0 /\ ~t.flushpend
      /\ ~t.sending /\ ~t.remove
  BY <1>3, <1>4, <1>5 DEF Fields, Sound, Live, Basic, Closing
<1>7. CASE ConnectErr(t)
  BY <1>2, <1>5, <1>6, <1>7, ConnectErrFits
<1>8. CASE /\ ~t.error
           /\ tcp' = [Enter(t) EXCEPT !.established = TRUE, !.events = {"R"}, !.told = "open"]
           /\ stack' = <<Conn>>
  <2> DEFINE a == Raise(t, "incb")
             b == Raise(a, "established")
             c == Set(b, "events", {"R"})
  <2>1. tcp' = Set(c, "told", "open") BY <1>8 DEF Enter, Raise, Set
  <2>2. a \in Conns /\ a.incb /\ \A g \in Fields \ {"incb"} : a[g] = t[g]
    BY <1>5, RaiseFlag DEF Flags
  <2> HIDE DEF a
  <2>3. b \in Conns /\ b.established /\ \A g \in Fields \ {"established"} : b[g] = a[g]
    BY <2>2, RaiseFlag DEF Flags
  <2> HIDE DEF b
  <2>4. c \in Conns /\ c.events = {"R"} /\ \A g \in Fields \ {"events"} : c[g] = b[g]
    BY <2>3, SetField, Kinds DEF Fields
  <2> HIDE DEF c
  <2>5. tcp' \in Conns /\ \A g \in Fields \ {"told"} : tcp'[g] = c[g]
    BY <2>1, <2>4, SetField, Kinds DEF Fields
  <2>6. /\ tcp'.incb /\ tcp'.established /\ tcp'.events = {"R"}
        /\ \A g \in Fields \ {"incb", "established", "events", "told"} : tcp'[g] = t[g]
    BY <2>2, <2>3, <2>4, <2>5 DEF Fields
  <2>7. Live(tcp') /\ Basic(tcp') /\ Closing(tcp') /\ Queue(tcp') /\ Waits(tcp') /\ ~tcp'.sending
    <3>1. /\ Live(tcp') /\ ~tcp'.sending /\ ~tcp'.error /\ tcp'.buf_s = 0 /\ tcp'.ev_cb = "rw"
          /\ ~tcp'.remove /\ tcp'.ends = t.ends
      BY <1>5, <1>6, <1>8, <2>6 DEF Fields, Live
    <3>2. t.ends = 0 BY <1>6 DEF Basic
    <3> QED BY <2>6, <3>1, <3>2 DEF Live, Basic, Closing, Queue, Waits
  <2>8. <<Conn>> \in Stacks /\ <<Conn>> \in Calls /\ <<Conn>> \notin Sends /\ <<Conn>> # Failure
    BY Apart DEF Stacks, Calls, Opening
  <2>9. tcp'.ev_cb = "rw" BY <1>5, <2>6 DEF Fields
  <2>10. Fits(tcp', stack') BY <1>8, <2>6, <2>7, <2>8, <2>9 DEF Fits
  <2> QED BY <1>2, <2>5, <2>7, <2>10 DEF Sound
<1> QED BY <1>1, <1>7, <1>8

LEMMA StepOnRw == IInv /\ OnRw => Core'
<1> SUFFICES ASSUME IInv, OnRw PROVE Core'
  OBVIOUS
<1>1. stack = <<>> /\ batch' = {} /\ tcp.ev_cb = "rw" BY DEF OnRw, Dispatch
<1>2. Fetched' BY <1>1 DEF Fetched
<1>3. Live(tcp) BY <1>1 DEF Sound, Conns, Basic, Fresh, Live
<1>4. CASE tcp.error
  <2>1. tcp' \in CloseTcp(tcp) /\ stack' = stack BY <1>4 DEF OnRw
  <2>2. Sound(tcp') /\ Keeps(tcp, tcp') /\ SameLife(tcp, tcp') BY <1>3, <2>1, CloseKeeps DEF Sound
  <2> QED BY <1>1, <1>2, <2>1, <2>2, AtRest, SameStack
<1>5. CASE ~tcp.error
  <2>1. tcp' = tcp /\ stack' = RwLeft(batch) BY <1>5 DEF OnRw, RwLeft
  <2>2. stack' \in Rw BY <2>1 DEF Rw, Rest
  <2>3. stack' \in Stacks /\ stack' \notin Calls /\ stack' \notin Sends /\ stack' # Failure
    BY <2>2, Apart DEF Stacks, Calls
  <2>4. Fits(tcp', stack') BY <1>1, <1>3, <2>1, <2>3, AtRest DEF Fits
  <2> QED BY <1>2, <2>1, <2>4 DEF Sound
<1> QED BY <1>4, <1>5

\* Nothing is under way any more.
LEMMA EndFits ==
  ASSUME NEW u, ~u.incb, ~u.sending, Waits(u)
  PROVE  Fits(u, <<>>)
<1>1. <<>> \notin Calls /\ <<>> \notin Sends /\ <<>> # Failure
  BY Apart DEF Calls
<1> QED BY <1>1 DEF Fits, Stacks, Outer

LEMMA StepLinger == IInv /\ (OnLinger \/ LingerTick) => Core'
<1> SUFFICES ASSUME IInv, OnLinger \/ LingerTick PROVE Core'
  OBVIOUS
<1>1. stack = <<>> /\ stack' = stack /\ batch' = {} /\ tcp' \in {tcp, Detach(tcp)}
      /\ (tcp.ev_cb = "linger" \/ tcp.place = "linger")
  BY DEF OnLinger, LingerTick, Dispatch
<1>2. Fetched' BY <1>1 DEF Fetched
<1>3. tcp \in Conns /\ Basic(tcp) /\ tcp.place = "linger" /\ ~tcp.flushpend
  BY <1>1 DEF Sound, Conns, Basic, Fresh, Live
<1>4. ~tcp.incb /\ ~tcp.sending /\ ~tcp.remove BY <1>1, AtRest
<1>5. Sound(Detach(tcp)) /\ Fits(Detach(tcp), <<>>) BY <1>3, <1>4, DetachSound
<1> QED BY <1>1, <1>2, <1>5

LEMMA StepCommand == IInv /\ Command => Core'
<1> SUFFICES ASSUME IInv, Command PROVE Core'
  OBVIOUS
<1>1. stack = <<>> /\ UNCHANGED <<batch, batch_of>> BY DEF Command
<1>2. CASE Live(tcp) /\ AddBufsSend(<<>>)
  BY <1>1, <1>2, AddBufsSendFits, FetchedKept
<1>3. CASE Live(tcp) /\ tcp' \in Disconnect(tcp) /\ stack' = stack
  <2>1. Sound(tcp') /\ Keeps(tcp, tcp') /\ SameLife(tcp, tcp') BY <1>3, DisconnectKeeps
  <2> QED BY <1>1, <1>3, <2>1, AtRest, SameStack, FetchedKept
<1>4. CASE UNCHANGED <<tcp, stack>>
  BY <1>1, <1>4 DEF Sound, Fits, Fetched
<1> QED BY <1>2, <1>3, <1>4 DEF Command, Live

LEMMA StepFlush == IInv /\ Flush => Core'
<1> SUFFICES ASSUME IInv, Flush PROVE Core'
  OBVIOUS
<1> DEFINE t == Lower(tcp, "flushpend")
<1>1. /\ stack = <<>> /\ tcp.flushpend /\ UNCHANGED <<batch, batch_of>>
      /\ IF tcp.error \/ tcp.buf_s = 0 THEN tcp' = t /\ stack' = <<>> ELSE TcpSend(t, <<>>)
  BY DEF Flush, Lower
<1>2. t \in Conns /\ ~t.flushpend /\ \A g \in Fields \ {"flushpend"} : t[g] = tcp[g]
  BY LowerFlag DEF Flags, Sound
<1> HIDE DEF t
<1>3. ~tcp.incb /\ ~tcp.sending /\ Waits(tcp) BY <1>1, AtRest
<1>4. Live(tcp) /\ tcp.established /\ tcp.ev_cb = "rw" BY <1>1 DEF Sound, Basic, Live
<1>5. /\ Live(t) /\ Basic(t) /\ Closing(t) /\ Waits(t) /\ ~t.incb /\ ~t.sending
      /\ t.ev_cb = "rw" /\ t.skid = tcp.skid
  BY <1>2, <1>3, <1>4 DEF Fields, Sound, Live, Basic, Closing, Waits
<1>6. CASE tcp.error \/ tcp.buf_s = 0
  <2>1. Queue(t) BY <1>2, <1>6 DEF Fields, Queue
  <2>2. SameLife(tcp, t) BY <1>4, <1>5 DEF SameLife, Live
  <2> QED BY <1>1, <1>2, <1>5, <1>6, <2>1, <2>2, EndFits, FetchedKept DEF Sound
<1>7. CASE ~(tcp.error \/ tcp.buf_s = 0)
  <2>1. <<>> \in Outer /\ <<>> \notin Inner BY Apart DEF Outer, Inner
  <2>2. Sound(tcp') /\ Fits(tcp', stack') /\ SameLife(t, tcp')
    BY <1>1, <1>2, <1>5, <1>7, <2>1, TcpSendFits
  <2>3. SameLife(tcp, tcp') BY <1>4, <1>5, <2>2 DEF SameLife
  <2> QED BY <1>1, <2>2, <2>3, FetchedKept
<1> QED BY <1>6, <1>7

LEMMA StepQtnDrain == IInv /\ QtnDrain => Core'
BY FreshSound DEF QtnDrain, Fetched

LEMMA StepUser == IInv /\ (UserSend \/ UserClose) => Core'
<1> SUFFICES ASSUME IInv, UserSend \/ UserClose PROVE Core'
  OBVIOUS
<1>1. InCallback /\ UNCHANGED <<batch, batch_of>> BY DEF UserSend, UserClose
<1>2. stack \in Calls /\ Live(tcp) BY <1>1, Inside
<1>3. CASE UserSend
  BY <1>1, <1>2, <1>3, AddBufsSendFits, FetchedKept DEF UserSend
<1>4. CASE UserClose
  <2>1. Sound(tcp') /\ Keeps(tcp, tcp') /\ SameLife(tcp, tcp') /\ stack' = stack
    BY <1>2, <1>4, DisconnectKeeps DEF UserClose
  <2> QED BY <1>1, <1>2, <2>1, SameStack, FetchedKept
<1> QED BY <1>3, <1>4

\* Inside _usk_on_rw_cb.
LEMMA AtRw ==
  ASSUME Sound(tcp), Fits(tcp, stack), InRw
  PROVE  /\ ~tcp.incb /\ ~tcp.sending /\ ~tcp.remove /\ Waits(tcp) /\ tcp.ev_cb # "connect"
         /\ Top.todo \in SUBSET Events
         /\ (Live(tcp) /\ tcp.ev_cb = "rw") \/ Top.todo = {}
<1>1. stack \in Rw BY TopTells DEF InRw, Top, Fits
<1>2. PICK d \in SUBSET Events : stack = RwLeft(d) BY <1>1 DEF Rw
<1>3. Top.todo = d /\ stack # <<>> BY <1>2, RwShape DEF Top
<1>4. stack \notin Calls /\ stack \notin Sends /\ stack # Failure
  BY <1>1, Apart DEF Calls
<1>5. Live(tcp) \/ d = {}
  <2>1. CASE stack \in Outer
    <3>1. RwLeft({}) # <<>> /\ Last(RwLeft({})).todo = {} BY RwShape
    <3> QED BY <1>2, <1>3, <2>1, <3>1 DEF Outer, Top
  <2> QED BY <2>1 DEF Fits
<1> QED BY <1>3, <1>4, <1>5 DEF Fits, Sound, Basic

LEMMA StepRead == IInv /\ Read => Core'
<1> SUFFICES ASSUME IInv, Read PROVE Core'
  OBVIOUS
<1> DEFINE d == Top.todo \ {"R"}
<1>1. PICK r \in Results :
        \/ RecvEnds(tcp, r, d)
        \/ tcp' = Enter(tcp) /\ stack' = Append(RwLeft(d), RecvFrame(r))
  BY DEF Read, Results, RecvFrame
<1>2. InRw /\ UNCHANGED <<batch, batch_of>> /\ Top.todo # {} BY DEF Read
<1>3. /\ ~tcp.incb /\ ~tcp.sending /\ ~tcp.remove /\ Waits(tcp) /\ d \in SUBSET Events
      /\ Live(tcp) /\ tcp.ev_cb = "rw"
  BY <1>2, AtRw
<1> HIDE DEF d
<1>4. CASE RecvEnds(tcp, r, d)
  BY <1>2, <1>3, <1>4, RecvEndsFits, FetchedKept DEF Sound
<1>5. CASE tcp' = Enter(tcp) /\ stack' = Append(RwLeft(d), RecvFrame(r))
  <2>1. tcp' = Raise(tcp, "incb") BY <1>5 DEF Enter, Raise
  <2>2. tcp' \in Conns /\ tcp'.incb /\ \A g \in Fields \ {"incb"} : tcp'[g] = tcp[g]
    BY <2>1, RaiseFlag DEF Flags, Sound
  <2>3. /\ Live(tcp') /\ Basic(tcp') /\ Closing(tcp') /\ Queue(tcp') /\ Waits(tcp')
        /\ ~tcp'.sending /\ tcp'.ev_cb = "rw" /\ SameLife(tcp, tcp')
    BY <1>3, <2>2 DEF Fields, Sound, Live, Basic, Closing, Queue, Waits, SameLife
  <2>4. stack' \in Recv BY <1>3, <1>5 DEF Recv, Rw
  <2>5. stack' \in Stacks /\ stack' \in Calls /\ stack' \notin Sends /\ stack' # Failure
    BY <2>4, Apart DEF Stacks, Calls
  <2>6. Fits(tcp', stack') BY <2>2, <2>3, <2>5 DEF Fits
  <2> QED BY <1>2, <2>2, <2>3, <2>6, FetchedKept DEF Sound
<1> QED BY <1>1, <1>4, <1>5

LEMMA StepWrite == IInv /\ Write => Core'
<1> SUFFICES ASSUME IInv, Write PROVE Core'
  OBVIOUS
<1>1. InRw /\ UNCHANGED <<batch, batch_of>> /\ Top.todo # {} /\ TcpSend(tcp, RwLeft({}))
  BY DEF Write
<1>2. /\ ~tcp.incb /\ ~tcp.sending /\ Waits(tcp) /\ Live(tcp) /\ tcp.ev_cb = "rw"
  BY <1>1, AtRw
<1>3. RwLeft({}) \in Outer /\ RwLeft({}) \notin Inner
  <2>1. RwLeft({}) \in Rw BY DEF Rw
  <2> QED BY <2>1, Apart DEF Outer, Inner, Calls
<1> QED BY <1>1, <1>2, <1>3, TcpSendFits, FetchedKept DEF Sound

LEMMA StepRwEnd == IInv /\ RwEnd => Core'
<1> SUFFICES ASSUME IInv, RwEnd PROVE Core'
  OBVIOUS
<1>1. InRw /\ stack' = Front(stack) /\ UNCHANGED <<tcp, batch, batch_of>> BY DEF RwEnd
<1>2. stack' = <<>>
  <2>1. stack \in Rw BY <1>1, TopTells DEF InRw, Top, Fits
  <2> QED BY <1>1, <2>1, RwShape DEF Rw
<1>3. ~tcp.incb /\ ~tcp.sending /\ Waits(tcp) BY <1>1, AtRw
<1>4. Fits(tcp, <<>>) BY <1>3, EndFits
<1> QED BY <1>1, <1>2, <1>4 DEF Sound, Fetched

-----------------------------------------------------------------------------
(* The returns of the callbacks *)

\* The outermost callback has returned and no close was asked for, ...
LEMMA LeftSound ==
  ASSUME NEW t \in Conns, Live(t), Basic(t), Closing(t), ~t.remove, NEW f, ~f.nested
  PROVE  /\ Left(t, f) \in Conns /\ Live(Left(t, f)) /\ Basic(Left(t, f)) /\ Closing(Left(t, f))
         /\ ~Left(t, f).incb /\ SameLife(t, Left(t, f))
         /\ (Queue(t) => Queue(Left(t, f))) /\ (Waits(t) => Waits(Left(t, f)))
         /\ \A g \in Fields \ {"incb"} : Left(t, f)[g] = t[g]
<1> DEFINE u == Left(t, f)
<1>1. u = Lower(t, "incb") BY DEF Left, Lower
<1>2. u \in Conns /\ ~u.incb /\ \A g \in Fields \ {"incb"} : u[g] = t[g]
  BY <1>1, LowerFlag DEF Flags
<1> HIDE DEF u
<1>3. Live(u) /\ Basic(u) /\ Closing(u) BY <1>2 DEF Fields, Live, Basic, Closing
<1>4. (Queue(t) => Queue(u)) /\ (Waits(t) => Waits(u)) /\ SameLife(t, u)
  BY <1>2, <1>3 DEF Fields, Live, Queue, Waits, SameLife
<1> QED BY <1>2, <1>3, <1>4 DEF u

\* ... or one was, and is made now.
LEMMA LeaveCloses ==
  ASSUME NEW t \in Conns, Live(t), Basic(t), NEW f, ~f.nested, NEW u \in CloseOnLeave(t, f)
  PROVE  /\ Sound(u) /\ ~u.incb /\ ~Live(u) /\ u.sending = t.sending /\ Waits(u)
         /\ SameLife(t, u)
<1> DEFINE a == Lower(t, "incb")
           v == Lower(a, "remove")
<1>1. u \in CloseTcp(v) BY DEF CloseOnLeave, Left, Lower
<1>2. a \in Conns /\ ~a.incb /\ \A g \in Fields \ {"incb"} : a[g] = t[g]
  BY LowerFlag DEF Flags
<1> HIDE DEF a
<1>3. v \in Conns /\ ~v.remove /\ \A g \in Fields \ {"remove"} : v[g] = a[g]
  BY <1>2, LowerFlag DEF Flags
<1> HIDE DEF v
<1>4. ~v.remove /\ ~v.incb /\ \A g \in Fields \ {"incb", "remove"} : v[g] = t[g]
  BY <1>2, <1>3 DEF Fields
<1>5. Live(v) /\ Basic(v) BY <1>4 DEF Fields, Live, Basic
<1>6. Sound(u) /\ Keeps(v, u) /\ SameLife(v, u) /\ ~Live(u) BY <1>1, <1>3, <1>4, <1>5, CloseKeeps
<1>7. u.sending = t.sending /\ ~u.incb /\ SameLife(t, u)
  BY <1>4, <1>6 DEF Fields, Keeps, SameLife
<1> QED BY <1>6, <1>7 DEF Waits

\* The accept and connect callbacks return alike.
LEMMA OpeningReturns ==
  ASSUME Sound(tcp), Fits(tcp, stack), stack \in Opening, stack' = <<>>,
         tcp' \in IF ClosedInside(tcp, Top) THEN CloseOnLeave(tcp, Top)
                 ELSE {Left(tcp, Top)} \cup Disconnect(Left(tcp, Top))
  PROVE  Sound(tcp') /\ Fits(tcp', stack') /\ SameLife(tcp, tcp')
<1>1. stack \in Calls /\ stack \notin Sends /\ stack # Failure /\ ~Top.nested
  BY OpeningShape, Apart DEF Calls, Top
<1>2. tcp.incb /\ ~tcp.sending /\ Live(tcp) /\ Waits(tcp)
  BY <1>1 DEF Fits, Sound, Basic
<1>3. CASE tcp.remove
  <2>1. tcp' \in CloseOnLeave(tcp, Top) BY <1>1, <1>3 DEF ClosedInside
  <2>2. Sound(tcp') /\ ~tcp'.incb /\ tcp'.sending = tcp.sending /\ Waits(tcp')
        /\ SameLife(tcp, tcp')
    BY <1>1, <1>2, <2>1, LeaveCloses DEF Sound
  <2> QED BY <1>2, <2>2, EndFits
<1>4. CASE ~tcp.remove
  <2> DEFINE t == Left(tcp, Top)
  <2>1. tcp' \in {t} \cup Disconnect(t) BY <1>4 DEF ClosedInside
  <2>2. /\ t \in Conns /\ Live(t) /\ Basic(t) /\ Closing(t) /\ Queue(t) /\ Waits(t)
        /\ ~t.incb /\ SameLife(tcp, t)
        /\ \A g \in Fields \ {"incb"} : t[g] = tcp[g]
    BY <1>1, <1>2, <1>4, LeftSound DEF Sound
  <2> HIDE DEF t
  <2>3. ~t.sending BY <1>2, <2>2 DEF Fields
  <2>4. CASE tcp' = t BY <2>2, <2>3, <2>4, EndFits DEF Sound
  <2>5. CASE tcp' \in Disconnect(t)
    <3>1. Sound(tcp') /\ Keeps(t, tcp') /\ SameLife(t, tcp')
      BY <2>2, <2>5, DisconnectKeeps DEF Sound
    <3>2. ~tcp'.incb /\ ~tcp'.sending /\ Waits(tcp') BY <2>2, <2>3, <3>1 DEF Keeps
    <3> QED BY <2>2, <3>1, <3>2, EndFits DEF SameLife
  <2> QED BY <2>1, <2>4, <2>5
<1> QED BY <1>3, <1>4

LEMMA StepAcpReturn == IInv /\ AcpReturn => Core'
<1> SUFFICES ASSUME IInv, AcpReturn PROVE Core'
  OBVIOUS
<1>1. stack = <<Acp>> /\ UNCHANGED <<batch, batch_of>>
  BY TopTells DEF AcpReturn, Returns, Top, Fits
<1>2. stack \in Opening BY <1>1 DEF Opening
<1> QED BY <1>1, <1>2, OpeningReturns, FetchedKept DEF AcpReturn

LEMMA StepConnReturn == IInv /\ ConnReturn => Core'
<1> SUFFICES ASSUME IInv, ConnReturn PROVE Core'
  OBVIOUS
<1>1. /\ stack \in {<<Conn>>, Failure} /\ UNCHANGED <<batch, batch_of>> /\ stack' = <<>>
      /\ tcp' \in IF ClosedInside(tcp, Top) THEN CloseOnLeave(tcp, Top)
                  ELSE IF Top.rtn = "failed" THEN {Detach(Left(tcp, Top))}
                  ELSE {Left(tcp, Top)} \cup Disconnect(Left(tcp, Top))
  BY TopTells DEF ConnReturn, Returns, Top, Fits
<1>2. CASE stack = <<Conn>>
  <2>1. stack \in Opening /\ Top.rtn # "failed"
    BY <1>2, OpeningShape, Apart DEF Opening, Top
  <2> QED BY <1>1, <2>1, OpeningReturns, FetchedKept
<1>3. CASE stack = Failure
  <2>1. stack \in Calls /\ stack \notin Sends /\ ~Top.nested /\ Top.rtn = "failed"
    BY <1>3, OpeningShape, Apart DEF Calls, Top
  <2>2. /\ tcp.incb /\ ~tcp.sending /\ Live(tcp) /\ tcp.told = "failed" /\ ~tcp.flushpend
    BY <1>3, <2>1 DEF Fits, Sound, Basic
  <2>3. CASE tcp.remove
    <3>1. tcp' \in CloseOnLeave(tcp, Top) BY <1>1, <2>1, <2>3 DEF ClosedInside
    <3>2. Sound(tcp') /\ ~tcp'.incb /\ tcp'.sending = tcp.sending /\ Waits(tcp')
          /\ SameLife(tcp, tcp')
      BY <2>1, <2>2, <3>1, LeaveCloses DEF Sound
    <3> QED BY <1>1, <2>2, <3>2, EndFits, FetchedKept
  <2>4. CASE ~tcp.remove
    <3> DEFINE t == Left(tcp, Top)
    <3>1. tcp' = Detach(t) BY <1>1, <2>1, <2>4 DEF ClosedInside
    <3>2. /\ t \in Conns /\ Live(t) /\ Basic(t) /\ ~t.incb /\ SameLife(tcp, t)
          /\ \A g \in Fields \ {"incb"} : t[g] = tcp[g]
      BY <2>1, <2>2, <2>4, LeftSound DEF Sound
    <3> HIDE DEF t
    <3>3. ~t.sending /\ ~t.remove /\ ~t.flushpend /\ t.told = "failed"
      BY <2>2, <2>4, <3>2 DEF Fields
    <3>4. Sound(tcp') /\ Fits(tcp', <<>>) /\ SameLife(t, tcp') BY <3>1, <3>2, <3>3, DetachSound
    <3>5. SameLife(tcp, tcp') BY <3>2, <3>4 DEF SameLife
    <3> QED BY <1>1, <3>4, <3>5, FetchedKept
  <2> QED BY <2>3, <2>4
<1> QED BY <1>1, <1>2, <1>3

LEMMA StepRecvReturn == IInv /\ RecvReturn => Core'
<1> SUFFICES ASSUME IInv, RecvReturn PROVE Core'
  OBVIOUS
<1>1. stack \in Recv /\ UNCHANGED <<batch, batch_of>>
  BY TopTells DEF RecvReturn, Returns, Top, Fits
<1>2. ~Top.nested /\ Top.rtn \in Results /\ Last(Front(stack)).todo \in SUBSET Events
  BY <1>1, RecvShape DEF Top
<1>3. stack \in Calls /\ stack \notin Sends /\ stack # Failure /\ stack # <<>>
  BY <1>1, Apart DEF Calls
<1>4. tcp.incb /\ ~tcp.sending /\ Live(tcp) /\ Waits(tcp) /\ tcp.ev_cb = "rw"
  BY <1>3 DEF Fits, Sound, Basic
<1>5. CASE tcp.remove
  <2>1. tcp' \in CloseOnLeave(tcp, Top) /\ stack' = <<>>
    BY <1>2, <1>5 DEF ClosedInside, RecvReturn
  <2>2. Sound(tcp') /\ ~tcp'.incb /\ tcp'.sending = tcp.sending /\ Waits(tcp')
        /\ SameLife(tcp, tcp')
    BY <1>2, <1>4, <2>1, LeaveCloses DEF Sound
  <2> QED BY <1>1, <1>4, <2>1, <2>2, EndFits, FetchedKept
<1>6. CASE ~tcp.remove
  <2> DEFINE t == Left(tcp, Top)
             r == Top.rtn
             d == Last(Front(stack)).todo
  <2>1. RecvEnds(t, r, d) BY <1>6 DEF ClosedInside, RecvReturn
  <2>2. /\ t \in Conns /\ Live(t) /\ Basic(t) /\ Closing(t) /\ Queue(t) /\ Waits(t)
        /\ ~t.incb /\ SameLife(tcp, t)
        /\ \A g \in Fields \ {"incb"} : t[g] = tcp[g]
    BY <1>2, <1>4, <1>6, LeftSound DEF Sound
  <2> HIDE DEF t, r, d
  <2>3. ~t.sending /\ t.ev_cb = "rw" BY <1>4, <2>2 DEF Fields
  <2>4. r \in Results /\ d \in SUBSET Events BY <1>2 DEF r, d
  <2>5. Sound(tcp') /\ Fits(tcp', stack') /\ SameLife(t, tcp')
    BY <2>1, <2>2, <2>3, <2>4, RecvEndsFits DEF Sound
  <2>6. SameLife(tcp, tcp') BY <2>2, <2>5 DEF SameLife
  <2> QED BY <1>1, <2>5, <2>6, FetchedKept
<1> QED BY <1>5, <1>6

LEMMA StepSendReturn == IInv /\ SendReturn => Core'
<1> SUFFICES ASSUME IInv, SendReturn PROVE Core'
  OBVIOUS
<1> DEFINE t == Lower(tcp, "sending")
<1>1. /\ stack \in Sends /\ UNCHANGED <<batch, batch_of>> /\ stack' = Front(stack)
      /\ tcp' \in IF ClosedInside(t, Top) THEN CloseOnLeave(t, Top)
                  ELSE AfterSend(Left(t, Top), Top.rtn)
  BY TopTells DEF SendReturn, Returns, Top, Fits, Lower
<1>2. /\ Top.rtn \in Results
      /\ IF Top.nested THEN stack' \in Inner ELSE stack' \in Outer
  BY <1>1, SendShape DEF Top
<1>3. stack \in Calls /\ stack # Failure /\ stack # <<>>
  BY <1>1, Apart DEF Calls
<1>4. tcp.incb /\ Live(tcp) /\ Waits(tcp) /\ tcp.ev_cb = "rw"
  BY <1>3 DEF Fits, Sound, Basic
<1>5. t \in Conns /\ ~t.sending /\ \A g \in Fields \ {"sending"} : t[g] = tcp[g]
  BY LowerFlag DEF Flags, Sound
<1> HIDE DEF t
<1>6. /\ Live(t) /\ Basic(t) /\ Closing(t) /\ Waits(t) /\ t.incb /\ t.ev_cb = "rw"
      /\ SameLife(tcp, t)
  BY <1>4, <1>5 DEF Fields, Sound, Live, Basic, Closing, Waits, SameLife
<1>7. stack' \in {<<>>} \cup Rw \cup Inner
  BY <1>2, OuterStacks
<1>8. Outer \cap Inner = {}
  <2>1. \A q \in Rw : q \notin Inner BY Apart DEF Inner, Calls
  <2>2. <<>> \notin Inner BY Apart DEF Inner
  <2> QED BY <2>1, <2>2, OuterStacks
<1>9. CASE ~Top.nested /\ t.remove
  <2>1. tcp' \in CloseOnLeave(t, Top) BY <1>1, <1>9 DEF ClosedInside
  <2>2. Sound(tcp') /\ ~tcp'.incb /\ tcp'.sending = t.sending /\ Waits(tcp') /\ SameLife(t, tcp')
        /\ ~Live(tcp')
    BY <1>5, <1>6, <1>9, <2>1, LeaveCloses
  <2>3. /\ stack' \in Outer /\ stack' \in Stacks
        /\ stack' \notin Calls /\ stack' \notin Sends /\ stack' # Failure
    <3>1. stack' \in Outer BY <1>2, <1>9
    <3> QED BY <3>1, OuterStacks, Apart DEF Calls, Stacks
  <2>4. tcp'.ev_cb # "connect" BY <1>6, <2>2 DEF SameLife
  <2>5. Fits(tcp', stack') BY <1>5, <2>2, <2>3, <2>4 DEF Fits
  <2>6. SameLife(tcp, tcp') BY <1>6, <2>2 DEF SameLife
  <2> QED BY <1>1, <2>2, <2>5, <2>6, FetchedKept
<1>10. ASSUME NEW v, tcp' \in AfterSend(v, Top.rtn), v \in Conns, Live(v), Basic(v), Closing(v),
              Waits(v), ~v.sending, v.ev_cb = "rw", SameLife(tcp, v),
              v.incb <=> stack' \in Inner
       PROVE  Core'
  <2>1. Sound(tcp') /\ Keeps(v, tcp') /\ SameLife(v, tcp') BY <1>2, <1>10, AfterSendKeeps
  <2>2. Live(tcp') \/ stack' \in Outer BY <1>2, <1>10, <2>1 DEF Keeps
  <2>3. Fits(tcp', stack') BY <1>7, <1>10, <2>1, <2>2, Lands
  <2>4. SameLife(tcp, tcp') BY <1>10, <2>1 DEF SameLife
  <2> QED BY <1>1, <2>1, <2>3, <2>4, FetchedKept
<1>11. CASE Top.nested
  <2>1. tcp' \in AfterSend(t, Top.rtn) BY <1>1, <1>11 DEF ClosedInside, Left
  <2>2. stack' \in Inner BY <1>2, <1>11
  <2> QED BY <1>5, <1>6, <1>10, <2>1, <2>2
<1>12. CASE ~Top.nested /\ ~t.remove
  <2> DEFINE v == Left(t, Top)
  <2>1. tcp' \in AfterSend(v, Top.rtn) BY <1>1, <1>12 DEF ClosedInside
  <2>2. /\ v \in Conns /\ Live(v) /\ Basic(v) /\ Closing(v) /\ Waits(v)
        /\ ~v.incb /\ SameLife(t, v)
        /\ \A g \in Fields \ {"incb"} : v[g] = t[g]
    BY <1>5, <1>6, <1>12, LeftSound
  <2> HIDE DEF v
  <2>3. ~v.sending /\ v.ev_cb = "rw" BY <1>5, <1>6, <2>2 DEF Fields
  <2>4. SameLife(tcp, v) BY <1>6, <2>2 DEF SameLife
  <2>5. stack' \notin Inner BY <1>2, <1>8, <1>12
  <2> QED BY <1>10, <2>1, <2>2, <2>3, <2>4, <2>5
<1> QED BY <1>9, <1>11, <1>12

-----------------------------------------------------------------------------
(* The theorems *)

\* A step that changes neither the connection nor what is under way.
LEMMA StepOther ==
  ASSUME IInv, \/ DispatchNone \/ AddAcpErr \/ UNCHANGED vars
               \/ \E op \in {"send", "close"}, k \in 1 .. MaxLives : Post(op, k)
  PROVE  Core'
<1>1. UNCHANGED <<tcp, stack>> /\ (batch' = {} \/ UNCHANGED <<batch, batch_of>>)
  BY DEF DispatchNone, Dispatch, AddAcpErr, Post, vars
<1> QED BY <1>1 DEF Sound, Fits, Fetched

LEMMA StepOK == IInv /\ [Next]_vars => IInv'
<1> SUFFICES ASSUME IInv, [Next]_vars PROVE Core'
  BY RestKept
<1>1. CASE AddAcp BY <1>1, StepAddAcp
<1>2. CASE AddConn BY <1>2, StepAddConn
<1>3. CASE Poll BY <1>3, StepPoll
<1>4. CASE OnConnect BY <1>4, StepOnConnect
<1>5. CASE OnRw BY <1>5, StepOnRw
<1>6. CASE OnLinger \/ LingerTick BY <1>6, StepLinger
<1>7. CASE Command BY <1>7, StepCommand
<1>8. CASE Flush BY <1>8, StepFlush
<1>9. CASE QtnDrain BY <1>9, StepQtnDrain
<1>10. CASE Read BY <1>10, StepRead
<1>11. CASE Write BY <1>11, StepWrite
<1>12. CASE RwEnd BY <1>12, StepRwEnd
<1>13. CASE UserSend \/ UserClose BY <1>13, StepUser
<1>14. CASE AcpReturn BY <1>14, StepAcpReturn
<1>15. CASE ConnReturn BY <1>15, StepConnReturn
<1>16. CASE RecvReturn BY <1>16, StepRecvReturn
<1>17. CASE SendReturn BY <1>17, StepSendReturn
<1>18. CASE \/ DispatchNone \/ AddAcpErr \/ UNCHANGED vars
            \/ \E op \in {"send", "close"}, k \in 1 .. MaxLives : Post(op, k)
  BY <1>18, StepOther
<1> QED
  BY <1>1, <1>2, <1>3, <1>4, <1>5, <1>6, <1>7, <1>8, <1>9, <1>10, <1>11, <1>12, <1>13,
     <1>14, <1>15, <1>16, <1>17, <1>18
  DEF Next

\* The inductive invariant: the connection is sound in each of its places, its flags
\* say what is under way, and what was fetched is for this life of the object.
THEOREM InvariantHolds == Spec => []IInv
<1> USE DEF Spec
<1>1. Init => IInv BY InitOK
<1>2. IInv /\ [Next]_vars => IInv' BY StepOK
<1> QED BY <1>1, <1>2, PTL

\* Every variable stays in its type.
THEOREM ConnTypesCorrect == Spec => []TypeOK
<1>1. IInv => TypeOK
  BY TopTells DEF Sound, Fits, Rest, TypeOK, Events
<1> QED BY <1>1, InvariantHolds, PTL

\* The user hears of the close of a connection once, after every other callback has
\* returned, and never of the events of an earlier life of the object.
THEOREM OneFarewellCorrect == Spec => []OneFarewell
<1>1. IInv => OneFarewell
  <2> SUFFICES ASSUME IInv PROVE OneFarewell
    OBVIOUS
  <2>1. InCallback => Live(tcp) BY Inside
  <2>2. Live(tcp) => tcp.ends = 0 BY DEF Sound, Basic
  <2>3. tcp.place = "pool" => tcp.ends = 0 BY DEF Sound, Basic, Fresh
  <2>4. tcp.place \in {"linger", "qtn"} => tcp.ends = 1 \/ (tcp.ends = 0 /\ tcp.told = "failed")
    BY DEF Sound, Basic
  <2>5. tcp.place \in {"pool", "live", "linger", "qtn"} BY Typed, Kinds DEF Sound, Fields
  <2>6. tcp.ends <= 1 BY <2>2, <2>3, <2>4, <2>5 DEF Live
  <2>7. tcp.flushpend => tcp.place = "live" BY DEF Sound, Basic, Live
  <2> QED BY <2>1, <2>2, <2>4, <2>6, <2>7 DEF OneFarewell, Fetched
<1> QED BY <1>1, InvariantHolds, PTL

\* Between two rounds a connection in use is registered for an event that will come.
THEOREM NotStrandedCorrect == Spec => []NotStranded
<1>1. IInv => NotStranded
  <2> SUFFICES ASSUME IInv, stack = <<>>, Live(tcp), ~tcp.flushpend
               PROVE  IF tcp.error
                      THEN "W" \in tcp.events \/ (tcp.shut = "RD" /\ "R" \in tcp.events)
                      ELSE /\ tcp.ev_cb = "connect" => "W" \in tcp.events
                           /\ tcp.ev_cb = "rw" => "R" \in tcp.events
                           /\ tcp.buf_s > 0 => "W" \in tcp.events
    BY DEF NotStranded, Live
  <2>1. ~tcp.sending /\ ~tcp.remove /\ Waits(tcp) BY AtRest
  <2>2. tcp.error => tcp.events = {"R", "W"} BY <2>1 DEF Sound, Closing
  <2> QED BY <2>1, <2>2 DEF Sound, Queue, Waits
<1> QED BY <1>1, InvariantHolds, PTL
=============================================================================
