--------------------------------- MODULE Ring ----------------------------------
(***************************************************************************)
(* The ring Mpq with variables of its own (here R), so that it may stand   *)
(* beside the distributed lock in one module of proofs.                    *)
(***************************************************************************)
EXTENDS Integers, Sequences, FiniteSets

CONSTANTS
  Producers, Consumers, Observers, Uses,  \* who uses the ring
  Cap, Word, Start,   \* capacity, where the counters wrap, and their first value
  MaxPush, MaxBatch,  \* bounds: pushes of each producer, and the largest batch
  Void                \* no value

VARIABLES
  enq, deq, sequence, freed, copied,
  m_data, m_pc, m_pos, m_want, m_k, m_sent  \* Mpq's, under names only it uses

R == INSTANCE Mpq WITH
       data <- m_data, pc <- m_pc, pos <- m_pos, want <- m_want, k <- m_k, sent <- m_sent,
       None <- Void

ASSUME RingAssumption == R!MpqAssumption

-----------------------------------------------------------------------------
\* Mpq: the ring is a queue whose cells are claimed in one step and published in a
\* later one; first claimed first out, nothing lost, doubled or read too early.
ImplementsClaimQueue == R!ImplementsClaimQueue

\* Mpq: a queue said to be empty holds nothing, not even a cell that is claimed only,
\* and a push is refused only while the slot whose turn it is is still in use.
AnswersTrue == R!AnswersTrue
================================================================================
