--------------------------- MODULE ReadQueueProofs ---------------------------
(* The trampoline of src/src/read_queue.rs, for any number of readers and   *)
(* of reads.                                                                *)
EXTENDS ReadQueue, TLAPS

USE QueueAssumption DEF Readers

(* One step of the trampoline preserves the types. *)
LEMMA TypeStep == TypeOK /\ [Next]_queueVars => TypeOK'
<1> SUFFICES ASSUME TypeOK, [Next]_queueVars PROVE TypeOK'
  OBVIOUS
<1> USE DEF TypeOK, Phases
<1>1. CASE Enqueue
  BY <1>1 DEF Enqueue
<1>2. ASSUME NEW k \in Readers, ReaderStep(k) PROVE TypeOK'
  <2>1. CASE Recv(k)
    BY <2>1 DEF Recv
  <2>2. CASE Read(k)
    BY <2>2 DEF Read
  <2>3. CASE DropCurrent(k)
    BY <2>3 DEF DropCurrent, Send
  <2>4. CASE DropWaiting(k)
    BY <2>4 DEF DropWaiting
  <2>5. CASE FinishDrop(k)
    BY <2>5 DEF FinishDrop, Send
  <2> QED BY <1>2, <2>1, <2>2, <2>3, <2>4, <2>5 DEF ReaderStep
<1>3. CASE DropQueue
  BY <1>3 DEF DropQueue
<1>4. CASE UNCHANGED queueVars
  BY <1>4 DEF queueVars
<1> QED BY <1>1, <1>2, <1>3, <1>4 DEF Next, Finished

(* Every variable of the trampoline keeps its type. *)
THEOREM TypeCorrect == SafeSpec => []TypeOK
<1>1. Init => TypeOK
  BY DEF Init, TypeOK, Phases
<1> QED BY <1>1, TypeStep, PTL DEF SafeSpec

(* One step of the trampoline preserves Handover. *)
LEMMA HandoverStep == TypeOK /\ Handover /\ [Next]_queueVars => Handover'
<1> SUFFICES ASSUME TypeOK, Handover, [Next]_queueVars PROVE Handover'
  OBVIOUS
<1> USE DEF TypeOK, Phases, Handover, Gone, ReceiverAlive
<1>1. CASE Enqueue
  BY <1>1 DEF Enqueue
<1>2. ASSUME NEW k \in Readers, ReaderStep(k) PROVE Handover'
  <2>1. CASE Recv(k)
    BY <2>1 DEF Recv
  <2>2. CASE Read(k)
    BY <2>2 DEF Read
  <2>3. CASE DropCurrent(k)
    BY <2>3 DEF DropCurrent, Send
  <2>4. CASE DropWaiting(k)
    BY <2>4 DEF DropWaiting
  <2>5. CASE FinishDrop(k)
    BY <2>5, SMTT(30) DEF FinishDrop, Send
  <2> QED BY <1>2, <2>1, <2>2, <2>3, <2>4, <2>5 DEF ReaderStep
<1>3. CASE DropQueue
  BY <1>3 DEF DropQueue
<1>4. CASE UNCHANGED queueVars
  BY <1>4 DEF queueVars
<1> QED BY <1>1, <1>2, <1>3, <1>4 DEF Next, Finished

(* Handover holds in every reachable state. *)
THEOREM HandoverHolds == SafeSpec => []Handover
<1>1. Init => Handover
  BY DEF Init, Handover, Gone, ReceiverAlive
<1> QED BY <1>1, HandoverStep, TypeCorrect, PTL DEF SafeSpec

(* While a reader holds R it is nowhere else. *)
LEMMA HandoverSoleHolder == TypeOK /\ Handover => SoleHolder
<1> SUFFICES ASSUME TypeOK, Handover, NEW k \in Readers, phase[k] = "current"
             PROVE  /\ \A j \in 1..(k - 1) : Gone(j)
                    /\ \A j \in Readers \ {k} : phase[j] # "current"
                    /\ full = {} /\ queue # "Head" /\ stream = "open"
  BY DEF SoleHolder
<1> USE DEF TypeOK, Handover, Gone
<1>1. \A j \in 1..(k - 1) : Gone(j)
  OBVIOUS
<1>2. \A j \in Readers \ {k} : phase[j] # "current"
  OBVIOUS
<1>3. k \in 1..n
  OBVIOUS
<1>4. full = {}
  <2> SUFFICES ASSUME NEW j \in full PROVE FALSE
    OBVIOUS
  <2>1. j \in Readers /\ Gone(j) /\ ReceiverAlive(j)
    OBVIOUS
  <2>2. j < k
    BY <1>3, <2>1
  <2>3. phase[j + 1] \in {"waiting", "dropping"}
    BY <1>3, <2>1, <2>2 DEF ReceiverAlive
  <2> QED BY <1>1, <2>2, <2>3
<1> QED BY <1>1, <1>2, <1>3, <1>4

(* The trampoline hands R on in order and never has two holders.            *)
THEOREM HolderIsSole == SafeSpec => []SoleHolder
  BY HandoverHolds, HandoverSoleHolder, TypeCorrect, PTL

(* recv().unwrap() in read(), fill_buf(), consume() and drop() never meets  *)
(* a sender that went away without sending.                                 *)
THEOREM RecvNeverPanics == SafeSpec => []NoHangUp
<1>1. TypeOK /\ Handover => NoHangUp
  BY DEF TypeOK, Handover, NoHangUp, Gone, ReceiverAlive
<1> QED BY <1>1, HandoverHolds, TypeCorrect, PTL

(* R is freed only once the queue and every reader are gone. *)
THEOREM StreamIsKept == SafeSpec => []StreamKept
<1>1. Handover => StreamKept
  BY DEF Handover, StreamKept
<1> QED BY <1>1, HandoverHolds, PTL

(* The readers of the past pieces are no later than any reader in use.      *)
PastReaders ==
    \A i \in DOMAIN consumed : \A j \in 1..(consumed[i] - 1) : Gone(j)

(* The pieces of the stream are read in the order of enqueue().             *)
THEOREM OrderedReads == SafeSpec => []ReadsInOrder
<1> DEFINE Inv == PastReaders /\ ReadsInOrder
<1>1. Init => Inv
  BY DEF Init, PastReaders, ReadsInOrder
<1>2. TypeOK /\ Handover /\ Inv /\ [Next]_queueVars => Inv'
  <2> SUFFICES ASSUME TypeOK, Handover, Inv, [Next]_queueVars PROVE Inv'
    OBVIOUS
  <2> USE DEF TypeOK, Phases, PastReaders, ReadsInOrder, Gone
  <2>1. CASE Enqueue
    BY <2>1 DEF Enqueue, Handover
  <2>2. ASSUME NEW k \in Readers, ReaderStep(k) PROVE Inv'
    <3>1. CASE Recv(k)
      BY <3>1 DEF Recv
    <3>2. CASE Read(k)
      <4>1. \A j \in 1..(k - 1) : Gone(j)
        BY <3>2 DEF Read, Handover
      <4>2. \A i \in DOMAIN consumed : consumed[i] <= k
        BY <3>2 DEF Read
      <4> QED BY <3>2, <4>1, <4>2, SMTT(30) DEF Read
    <3>3. CASE DropCurrent(k)
      BY <3>3 DEF DropCurrent
    <3>4. CASE DropWaiting(k)
      BY <3>4 DEF DropWaiting
    <3>5. CASE FinishDrop(k)
      BY <3>5 DEF FinishDrop
    <3> QED BY <2>2, <3>1, <3>2, <3>3, <3>4, <3>5 DEF ReaderStep
  <2>3. CASE DropQueue
    BY <2>3 DEF DropQueue
  <2>4. CASE UNCHANGED queueVars
    BY <2>4 DEF queueVars
  <2> QED BY <2>1, <2>2, <2>3, <2>4 DEF Next, Finished
<1> QED BY <1>1, <1>2, TypeCorrect, HandoverHolds, PTL DEF SafeSpec

(* The chain of channels implements the taking of turns (safety part).      *)
THEOREM ImplementsTurns == SafeSpec => Turns!SafeSpec
<1>1. Init => Turns!Init
  BY DEF Init, Turns!Init, Gone
<1>2. TypeOK /\ Handover /\ [Next]_queueVars => [Turns!Next]_(Turns!turnVars)
  <2> SUFFICES ASSUME TypeOK, Handover, [Next]_queueVars
               PROVE  [Turns!Next]_(Turns!turnVars)
    OBVIOUS
  <2> USE DEF TypeOK, Phases, Gone, Turns!turnVars
  <2>1. CASE Enqueue
    BY <2>1 DEF Enqueue, Handover, Turns!Next, Turns!Issue
  <2>2. ASSUME NEW k \in Readers, ReaderStep(k) PROVE [Turns!Next]_(Turns!turnVars)
    <3>1. CASE Recv(k)
      BY <3>1 DEF Recv
    <3>2. CASE Read(k)
      BY <3>2 DEF Read, Handover, Turns!Next, Turns!Consume, Turns!HasTurn
    <3>3. CASE DropCurrent(k)
      BY <3>3 DEF DropCurrent, Handover, Turns!Next, Turns!Leave, Turns!HasTurn
    <3>4. CASE DropWaiting(k)
      BY <3>4 DEF DropWaiting
    <3>5. CASE FinishDrop(k)
      BY <3>5 DEF FinishDrop, Handover, Turns!Next, Turns!Leave, Turns!HasTurn
    <3> QED BY <2>2, <3>1, <3>2, <3>3, <3>4, <3>5 DEF ReaderStep
  <2>3. CASE DropQueue
    BY <2>3 DEF DropQueue
  <2>4. CASE UNCHANGED queueVars
    BY <2>4 DEF queueVars
  <2> QED BY <2>1, <2>2, <2>3, <2>4 DEF Next, Finished
<1> QED BY <1>1, <1>2, TypeCorrect, HandoverHolds, PTL DEF SafeSpec, Turns!SafeSpec
=============================================================================
