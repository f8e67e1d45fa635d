------------------------------ MODULE ReadQueue ------------------------------
(***************************************************************************)
(* src/src/read_queue.rs: the trampoline that hands the one buffered       *)
(* reader R of a connection from request to request.                       *)
(*                                                                         *)
(* enqueue() creates the k-th QueuedReader together with channel k: its    *)
(* sender belongs to that reader, its receiver stays in the ReadQueue      *)
(* until reader k + 1 is created and takes it along.  Dropping reader k    *)
(* sends R down channel k.  The readers are owned by whoever owns the      *)
(* request body that reads through them, so each may be used and dropped   *)
(* on a thread of its own.                                                 *)
(***************************************************************************)
EXTENDS Naturals, Sequences

CONSTANTS MaxReaders,   \* bound: readers ever enqueued on one connection
          MaxReads      \* bound: pieces ever read from the stream

ASSUME QueueAssumption == MaxReaders \in Nat /\ MaxReads \in Nat

Readers == 1..MaxReaders

VARIABLES
    queue,     \* "Head": holds R; "Next": holds the receiver of channel n; "Dropped"
    n,         \* readers enqueued so far; the newest is reader n
    phase,     \* state of every QueuedReader
    full,      \* channels in which R is waiting to be received
    stream,    \* "open", or "closed": R itself has been dropped with its clone of the socket
    consumed   \* consumed[i]: the reader through which the i-th piece was read

queueVars == <<queue, n, phase, full, stream, consumed>>

(* "dropping" is a reader inside drop() that had taken Waiting(rx) and is   *)
(* blocked in rx.recv().                                                    *)
Phases == {"unborn", "waiting", "current", "dropping", "gone"}

TypeOK ==
    /\ queue \in {"Head", "Next", "Dropped"}
    /\ n \in 0..MaxReaders
    /\ phase \in [Readers -> Phases]
    /\ full \subseteq Readers
    /\ stream \in {"open", "closed"}
    /\ consumed \in Seq(Readers)

Init ==
    /\ queue = "Head"
    /\ n = 0
    /\ phase = [k \in Readers |-> "unborn"]
    /\ full = {}
    /\ stream = "open"
    /\ consumed = << >>

-----------------------------------------------------------------------------
EnqueueAlwaysCurrent ==
    /\ queue # "Dropped"
    /\ n < MaxReaders
    /\ n' = n + 1
    /\ queue' = "Next"
    /\ phase' = [phase EXCEPT ![n + 1] = "current"]
    /\ UNCHANGED <<full, stream, consumed>>

(* ReadQueue::enqueue: the new reader starts with R itself or with the      *)
(* receiver of the previous reader's channel.                               *)
Enqueue ==
    /\ queue # "Dropped"
    /\ n < MaxReaders
    /\ n' = n + 1
    /\ queue' = "Next"
    /\ phase' = [phase EXCEPT ![n + 1] = IF queue = "Head" THEN "current" ELSE "waiting"]
    /\ UNCHANGED <<full, stream, consumed>>

(* The first read(), fill_buf() or consume() of a waiting reader: it blocks *)
(* in rx.recv() until R is in the channel of the reader before it.          *)
Recv(k) ==
    /\ phase[k] = "waiting"
    /\ k - 1 \in full
    /\ full' = full \ {k - 1}
    /\ phase' = [phase EXCEPT ![k] = "current"]
    /\ UNCHANGED <<queue, n, stream, consumed>>

(* read() or fill_buf() + consume() on R. *)
Read(k) ==
    /\ phase[k] = "current"
    /\ Len(consumed) < MaxReads
    /\ consumed' = Append(consumed, k)
    /\ UNCHANGED <<queue, n, phase, full, stream>>

(* The receiver of channel k exists: in the queue while reader k is the     *)
(* newest, in reader k + 1 until that one has received.                     *)
ReceiverAlive(k) ==
    IF k = n THEN queue = "Next" ELSE phase[k + 1] \in {"waiting", "dropping"}

SendToBoth(k, channels) ==
    IF ReceiverAlive(k)
    THEN full' = channels \cup {k, k + 1} /\ UNCHANGED stream
    ELSE full' = channels /\ stream' = "closed"

(* self.next.send(R): an error is ignored, and drops R. *)
Send(k, channels) ==
    IF ReceiverAlive(k)
    THEN full' = channels \cup {k} /\ UNCHANGED stream
    ELSE full' = channels /\ stream' = "closed"

DropCurrentWithoutSend(k) ==
    /\ phase[k] = "current"
    /\ phase' = [phase EXCEPT ![k] = "gone"]
    /\ UNCHANGED <<queue, n, full, stream, consumed>>

(* Drop for QueuedReader, arm Current. *)
DropCurrent(k) ==
    /\ phase[k] = "current"
    /\ Send(k, full)
    /\ phase' = [phase EXCEPT ![k] = "gone"]
    /\ UNCHANGED <<queue, n, consumed>>

DropWaitingWithoutRecv(k) ==
    /\ phase[k] = "waiting"
    /\ phase' = [phase EXCEPT ![k] = "gone"]
    /\ UNCHANGED <<queue, n, full, stream, consumed>>

(* Drop for QueuedReader, arm Waiting, up to the blocking rx.recv().  *)
DropWaiting(k) ==
    /\ phase[k] = "waiting"
    /\ phase' = [phase EXCEPT ![k] = "dropping"]
    /\ UNCHANGED <<queue, n, full, stream, consumed>>

FinishDropLosesReader(k) ==
    /\ phase[k] = "dropping"
    /\ k - 1 \in full
    /\ full' = full \ {k - 1}
    /\ stream' = "closed"
    /\ phase' = [phase EXCEPT ![k] = "gone"]
    /\ UNCHANGED <<queue, n, consumed>>

FinishDropNeverReceives(k) ==
    /\ phase[k] = "dropping"
    /\ k - 1 \in full
    /\ k < n
    /\ Send(k, full \ {k - 1})
    /\ phase' = [phase EXCEPT ![k] = "gone"]
    /\ UNCHANGED <<queue, n, consumed>>

(* The rest of that arm: R is received and sent on in one expression. *)
FinishDrop(k) ==
    /\ phase[k] = "dropping"
    /\ k - 1 \in full
    /\ Send(k, full \ {k - 1})
    /\ phase' = [phase EXCEPT ![k] = "gone"]
    /\ UNCHANGED <<queue, n, consumed>>

(* drop(read_queue): R goes with it when the queue still holds R or the     *)
(* newest channel does.                                                     *)
DropQueue ==
    /\ queue # "Dropped"
    /\ queue' = "Dropped"
    /\ full' = full \ {n}
    /\ stream' = IF queue = "Head" \/ n \in full THEN "closed" ELSE stream
    /\ UNCHANGED <<n, phase, consumed>>

-----------------------------------------------------------------------------
ReaderStep(k) ==
    \/ Recv(k)
    \/ Read(k)
    \/ DropCurrent(k)
    \/ DropWaiting(k)
    \/ FinishDrop(k)

(* Everything has been dropped: the connection is over. *)
Finished ==
    /\ queue = "Dropped"
    /\ \A k \in Readers : phase[k] \in {"unborn", "gone"}
    /\ UNCHANGED queueVars

Next ==
    \/ Enqueue
    \/ \E k \in Readers : ReaderStep(k)
    \/ DropQueue
    \/ Finished

(* Every reader is dropped some time (Rust drops a value when its owner is  *)
(* done with it), with or without reading first, and a thread blocked in    *)
(* recv() runs once R has arrived.                                          *)
Fairness ==
    \A k \in Readers :
        /\ WF_queueVars(DropCurrent(k))
        /\ WF_queueVars(FinishDrop(k))
        /\ WF_queueVars(Recv(k) \/ DropWaiting(k))

SafeSpec == Init /\ [][Next]_queueVars

Spec == SafeSpec /\ Fairness

-----------------------------------------------------------------------------
Gone(k) == phase[k] = "gone"

(* R is in one place at a time, and it is handed on in the order of         *)
(* enqueue(): while reader k holds R every earlier reader has been dropped, *)
(* R is in no channel and not in the queue.  (read_queue.rs, the purpose of *)
(* the chain of channels.)                                                  *)
SoleHolder ==
    \A k \in Readers : phase[k] = "current" =>
        /\ \A j \in 1..(k - 1) : Gone(j)
        /\ \A j \in Readers \ {k} : phase[j] # "current"
        /\ full = {} /\ queue # "Head" /\ stream = "open"

(* rx.recv().unwrap() never panics: when the sender of a channel is gone    *)
(* while a reader still waits on it, R is in that channel.                  *)
NoHangUp ==
    \A k \in Readers : phase[k] \in {"waiting", "dropping"} =>
        k > 1 /\ (Gone(k - 1) => k - 1 \in full)

(* The ignored error of self.next.send() never costs a live reader its      *)
(* stream: R is dropped only when the queue and every reader are gone.      *)
StreamKept ==
    stream = "closed" => queue = "Dropped" /\ \A k \in 1..n : Gone(k)

(* Pipelining: the pieces of the stream are read in the order in which the  *)
(* readers were enqueued, whatever the threads that own the readers do.     *)
ReadsInOrder ==
    \A i, j \in DOMAIN consumed : i < j => consumed[i] <= consumed[j]

(* The strengthening that makes the invariants above inductive: dropped     *)
(* readers form a prefix, the holder comes right after it, and R is in a    *)
(* channel exactly when its sender is gone and its receiver is not.         *)
Handover ==
    /\ \A k \in Readers : phase[k] = "unborn" <=> k > n
    /\ queue = "Head" => n = 0
    /\ queue = "Next" => n > 0
    /\ n > 0 => phase[1] \in {"current", "gone"}
    /\ \A k \in Readers : phase[k] \in {"current", "gone"} => \A j \in 1..(k - 1) : Gone(j)
    /\ \A k \in Readers : k \in full <=> Gone(k) /\ ReceiverAlive(k)
    /\ stream = "closed" <=> queue = "Dropped" /\ \A k \in 1..n : Gone(k)

(* A reader that waits gets R or leaves: no hand-over is forgotten, and     *)
(* drop() of a waiting reader returns.                                      *)
EveryReaderServed ==
    \A k \in Readers :
        /\ phase[k] = "waiting" ~> phase[k] # "waiting"
        /\ phase[k] = "dropping" ~> Gone(k)

(* The chain of channels implements taking turns. *)
Turns ==
    INSTANCE StreamTurns WITH
        issued <- n, left <- {k \in Readers : Gone(k)}

TakesTurns == Turns!Spec
=============================================================================
