---------------------------- MODULE MCTaskSched ----------------------------
(***************************************************************************)
(* Instances of TaskSched for TLC.                                         *)
(***************************************************************************)
EXTENDS TaskSched, TLC

CONSTANTS t1, t2, w1, w2

\* w1 takes the whole backlog, w2 one message per round.
TwoWeights == (w1 :> 0) @@ (w2 :> -1)
OneWeight  == (w1 :> 0)

\* Which threads post, and how often to each task: the posters once; they and the
\* handlers of w1 once; the net threads twice, the others once.
PostersOnce == [th \in Threads |-> IF th \in Posters THEN 1 ELSE 0]
HandlersOnce == [th \in Threads |-> IF th \in Posters \cup {w1} THEN 1 ELSE 0]
NetsTwice   == [th \in Threads |-> IF th \in Nets THEN 2
                                   ELSE IF th \in Posters \cup {w1} THEN 1 ELSE 0]

\* Posters are interchangeable.
PosterSymmetry == Permutations(Posters)

NoPriority == [t \in Tasks |-> 0]
=============================================================================
