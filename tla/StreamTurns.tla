----------------------------- MODULE StreamTurns -----------------------------
(***************************************************************************)
(* What src/src/read_queue.rs promises to its users, without channels or   *)
(* hand-overs: the readers of one connection are numbered in the order in  *)
(* which they were enqueued, every piece of the stream is consumed by the  *)
(* reader whose turn it is, and a reader's turn comes when every earlier   *)
(* reader has left.                                                        *)
(***************************************************************************)
EXTENDS Naturals, Sequences

CONSTANTS MaxReaders,   \* bound: readers ever enqueued on one connection
          MaxReads      \* bound: pieces ever read from the stream

VARIABLES issued,       \* readers enqueued so far
          left,         \* readers that have been dropped
          consumed      \* consumed[i]: the reader that read the i-th piece

turnVars == <<issued, left, consumed>>

(* The readers that may touch the stream: at most one at a time. *)
HasTurn(k) ==
    /\ k \in (1..issued) \ left
    /\ 1..(k - 1) \subseteq left

Init ==
    /\ issued = 0
    /\ left = {}
    /\ consumed = << >>

Issue ==
    /\ issued < MaxReaders
    /\ issued' = issued + 1
    /\ UNCHANGED <<left, consumed>>

Consume(k) ==
    /\ HasTurn(k)
    /\ Len(consumed) < MaxReads
    /\ consumed' = Append(consumed, k)
    /\ UNCHANGED <<issued, left>>

Leave(k) ==
    /\ HasTurn(k)
    /\ left' = left \cup {k}
    /\ UNCHANGED <<issued, consumed>>

Next ==
    \/ Issue
    \/ \E k \in 1..MaxReaders : Consume(k) \/ Leave(k)

(* The holder of the turn is expected to leave: a body is dropped at some   *)
(* point, whatever was read from it.                                        *)
Fairness == \A k \in 1..MaxReaders : WF_turnVars(Leave(k))

SafeSpec == Init /\ [][Next]_turnVars

Spec == SafeSpec /\ Fairness
=============================================================================
