----------------------------- MODULE ServeProofs -----------------------------
(* The connection loop of src/src/server.rs, for any number of requests and *)
(* whatever the client sends and the service does.                          *)
EXTENDS Serve, SequenceLemmas, TLAPS

(* The proofs about the trampoline, for the queue of this connection. *)
RQP == INSTANCE ReadQueueProofs WITH MaxReads <- MaxWire

(* The bounds of the queue are numbers. *)
LEMMA QueueAssumed == RQ!QueueAssumption
  BY ServeAssumption DEF RQ!QueueAssumption, MaxReaders, MaxWire, MaxPieces

(* RQ and RQP name the same specification: its types, *)
LEMMA SameTypeOK == (RQ!TypeOK <=> RQP!TypeOK) /\ (RQ!TypeOK <=> RQP!TypeOK)'
<1>1. RQ!TypeOK <=> RQP!TypeOK
  BY DEF RQ!TypeOK, RQP!TypeOK, RQ!Readers, RQP!Readers, RQ!Phases, RQP!Phases
<1>2. (RQ!TypeOK <=> RQP!TypeOK)'
  BY DEF RQ!TypeOK, RQP!TypeOK, RQ!Readers, RQP!Readers, RQ!Phases, RQP!Phases
<1> QED BY <1>1, <1>2

(* its inductive invariant, *)
LEMMA SameHandover == (RQ!Handover <=> RQP!Handover) /\ (RQ!Handover <=> RQP!Handover)'
<1> USE DEF RQ!Handover, RQP!Handover, RQ!Readers, RQP!Readers, RQ!Gone, RQP!Gone,
            RQ!ReceiverAlive, RQP!ReceiverAlive
<1>1. RQ!Handover <=> RQP!Handover
  OBVIOUS
<1>2. (RQ!Handover <=> RQP!Handover)'
  OBVIOUS
<1> QED BY <1>1, <1>2

(* and its steps. *)
LEMMA SameNext == [RQ!Next]_queueVars <=> [RQP!Next]_(RQP!queueVars)
  BY Zenon DEF RQ!Next, RQP!Next, RQ!Readers, RQP!Readers,
     queueVars, RQ!queueVars, RQP!queueVars, RQ!Enqueue, RQP!Enqueue,
     RQ!ReaderStep, RQP!ReaderStep, RQ!Recv, RQP!Recv, RQ!Read, RQP!Read,
     RQ!DropCurrent, RQP!DropCurrent, RQ!DropWaiting, RQP!DropWaiting,
     RQ!FinishDrop, RQP!FinishDrop, RQ!DropQueue, RQP!DropQueue, RQ!Finished, RQP!Finished,
     RQ!Send, RQP!Send, RQ!ReceiverAlive, RQP!ReceiverAlive

(* What the trampoline guarantees about each of its steps. *)
LEMMA QueueStep ==
    RQ!TypeOK /\ RQ!Handover /\ [RQ!Next]_queueVars => RQ!TypeOK' /\ RQ!Handover'
  BY RQP!TypeStep, RQP!HandoverStep, QueueAssumed, SameTypeOK, SameHandover, SameNext

-----------------------------------------------------------------------------
Owners == {"none", "server", "response", "thread", "upgrade"}

(* The inductive invariant of the connection loop. *)
ServeInv ==
    /\ RQ!TypeOK
    /\ holder \in [Readers -> Owners]
    /\ after \in {"parse", "write", "outcome", "exit"}
    /\ out \in Seq(Replies) /\ sent \in Seq(Replies)
    /\ Control

(* Every step of the loop, of a thread or of the client is a step of the    *)
(* trampoline or leaves it alone.                                           *)
LEMMA StepUsesQueue == ServeInv /\ [Next]_vars => [RQ!Next]_queueVars
<1> SUFFICES ASSUME ServeInv, [Next]_vars PROVE [RQ!Next]_queueVars
  OBVIOUS
<1>1. n \in 0..MaxReaders /\ (n > 0 => n \in RQ!Readers) /\ (n > 1 => n - 1 \in RQ!Readers)
  BY QueueAssumed DEF ServeInv, RQ!TypeOK, RQ!Readers, RQ!QueueAssumption
<1>2. pc # "start" => n > 0
  BY <1>1 DEF ServeInv, Control, Position
<1>3. pc = "using" => n > 1
  BY DEF ServeInv, Control, Position
<1>4. ASSUME NEW k \in RQ!Readers, RQ!ReaderStep(k) PROVE [RQ!Next]_queueVars
  BY <1>4 DEF RQ!Next
<1>5. CASE Start \/ Dispatch \/ DropQueue
  BY <1>5 DEF Start, Dispatch, DropQueue, RQ!Next
<1>6. CASE ParseRecv \/ ParsePiece \/ BufferBody \/ ParsedWithoutStream \/ ParseFailed \/ DropReader
  <2>1. RQ!ReaderStep(n) /\ pc # "start"
    BY <1>6 DEF ParseRecv, ParsePiece, BufferBody, ParsedWithoutStream, ParseFailed,
                DropReader, RQ!ReaderStep
  <2> QED BY <1>1, <1>2, <1>4, <2>1
<1>7. CASE UsePiece \/ UseDone \/ UseTimeout \/ WriteBodyFails
  <2>1. RQ!ReaderStep(n - 1) /\ pc = "using"
    BY <1>7 DEF UsePiece, UseDone, UseTimeout, WriteBodyFails, BodyPiece, LetGo, Current,
                RQ!ReaderStep
  <2> QED BY <1>1, <1>3, <1>4, <2>1
<1>8. ASSUME NEW k \in Readers, ThreadStep(k) PROVE [RQ!Next]_queueVars
  <2>1. RQ!ReaderStep(k)
    BY <1>8 DEF ThreadStep, ThreadPiece, ThreadDone, ThreadTimeout, BodyPiece, LetGo,
                RQ!ReaderStep
  <2> QED BY <1>4, <2>1 DEF Readers, RQ!Readers
<1>9. CASE \/ ParseEof \/ ParseReadFails \/ ParsedWithStream
           \/ ExpectContinue \/ ExpectReject
           \/ Call \/ CallSpawn \/ CallEcho \/ CallCapture
           \/ WriteResponse \/ KeepAlive \/ Close \/ Upgrade \/ WriteFails
           \/ IntoInner \/ HandlerReturns \/ DropWriter
  BY <1>9 DEF ParseEof, ParseReadFails, ParsedWithStream, ExpectContinue, ExpectReject,
              Call, CallSpawn, CallEcho, CallCapture, WriteResponse, KeepAlive, Close,
              Upgrade, WriteFails, IntoInner, HandlerReturns, DropWriter
<1>10. CASE ClientStep
  BY <1>10 DEF ClientStep, ClientStart, ClientSend, ClientSendEarly, PutOnWire, ClientClose
<1>11. CASE UNCHANGED vars
  BY <1>11 DEF vars
<1> QED
  BY <1>5, <1>6, <1>7, <1>8, <1>9, <1>10, <1>11
     DEF Next, ServerStep, CapturedForever, Terminated

(* One step preserves which readers exist, in which state, and who owns     *)
(* them.                                                                    *)
LEMMA PositionStep ==
    ServeInv /\ [Next]_vars =>
        /\ holder' \in [Readers -> Owners]
        /\ after' \in {"parse", "write", "outcome", "exit"}
        /\ Position' /\ Ownership'
<1> DEFINE Goal == /\ holder' \in [Readers -> Owners]
                   /\ after' \in {"parse", "write", "outcome", "exit"}
                   /\ Position' /\ Ownership'
<1> SUFFICES ASSUME ServeInv, [Next]_vars PROVE Goal
  OBVIOUS
<1>0. MaxReaders \in Nat
  BY QueueAssumed DEF RQ!QueueAssumption
<1> USE <1>0 DEF ServeInv, Control, Position, Ownership, Owners, Readers,
                 RQ!TypeOK, RQ!Phases, RQ!Readers, RQ!Handover, RQ!Gone
<1>1. CASE Start
  BY <1>1 DEF Start, RQ!Enqueue, bodyVars
<1>2. CASE ParseRecv
  BY <1>2 DEF ParseRecv, RQ!Recv, loopVars, bodyVars
<1>3. CASE ParsePiece
  BY <1>3 DEF ParsePiece, RQ!Read, bodyVars
<1>4. CASE ParseEof
  BY <1>4 DEF ParseEof, bodyVars, queueVars
<1>5. CASE BufferBody
  BY <1>5 DEF BufferBody, RQ!Read, bodyVars
<1>6. CASE ParseReadFails
  BY <1>6 DEF ParseReadFails, bodyVars, queueVars
<1>7. CASE ParsedWithoutStream
  BY <1>7 DEF ParsedWithoutStream, RQ!DropCurrent, bodyVars
<1>8. CASE ParsedWithStream
  BY <1>8 DEF ParsedWithStream, queueVars
<1>9. CASE ParseFailed
  BY <1>9 DEF ParseFailed, RQ!DropCurrent, bodyVars
<1>10. CASE Dispatch
  <2>1. phase[n] \in {"current", "gone"} /\ n > 0 /\ n + 1 \in Readers
    BY <1>10 DEF Dispatch, RQ!Enqueue
  <2>2. \A j \in 1..(n - 1) : phase[j] = "gone"
    BY <2>1
  <2> QED BY <1>10, <2>1, <2>2 DEF Dispatch, RQ!Enqueue, bodyVars
<1>11. CASE ExpectContinue
  BY <1>11 DEF ExpectContinue, bodyVars, queueVars
<1>12. CASE ExpectReject
  BY <1>12 DEF ExpectReject, UseBodyThen, Current, queueVars
<1>13. CASE Call
  BY <1>13 DEF Call, UseBodyThen, Current, queueVars
<1>14. CASE CallSpawn
  BY <1>14 DEF CallSpawn, Current, queueVars
<1>15. CASE CallEcho
  BY <1>15 DEF CallEcho, Current, queueVars
<1>16. CASE CallCapture
  BY <1>16 DEF CallCapture, Current, queueVars, Prepared
<1>17. CASE UsePiece
  BY <1>17 DEF UsePiece, BodyPiece, RQ!Read, Current, loopVars
<1>18. CASE UseDone
  BY <1>18 DEF UseDone, LetGo, RQ!DropCurrent, Current
<1>19. CASE UseTimeout
  BY <1>19 DEF UseTimeout, LetGo, RQ!DropCurrent, Current
<1>20. CASE WriteResponse
  <2>1. n > 1 /\ UNCHANGED <<queue, n, phase, full, stream, consumed, res>> /\ pc = "write"
    BY <1>20 DEF WriteResponse, queueVars
  <2>2. CASE UseBodyThen("drain", "exit")
    <3>1. CASE holder[n - 1] \in {"none", "thread"}
      BY <2>1, <2>2, <3>1 DEF UseBodyThen, Current
    <3>2. CASE holder[n - 1] \notin {"none", "thread"}
      <4>1. pc' = "using" /\ after' = "exit" /\ holder' = [holder EXCEPT ![n - 1] = "server"]
        BY <2>2, <3>2 DEF UseBodyThen, Current
      <4>2. holder' \in [Readers -> Owners] /\ Position'
        BY <2>1, <4>1
      <4>3. Ownership'
        BY <2>1, <3>2, <4>1
      <4> QED BY <4>1, <4>2, <4>3
    <3> QED BY <3>1, <3>2
  <2>3. ASSUME NEW use, UseBodyThen(use, "outcome"), holder[n - 1] = "response" PROVE Goal
    BY <2>1, <2>3 DEF UseBodyThen, Current
  <2>4. CASE pc' = "outcome" /\ holder[n - 1] # "response" /\ UNCHANGED <<after, holder, form>>
    BY <2>1, <2>4
  <2> QED BY <1>20, <2>2, <2>3, <2>4 DEF WriteResponse, Current
<1>21. CASE KeepAlive
  BY <1>21 DEF KeepAlive, Outcome, bodyVars, queueVars
<1>22. CASE Close
  BY <1>22 DEF Close, Outcome, bodyVars, queueVars
<1>23. CASE Upgrade
  BY <1>23 DEF Upgrade, bodyVars, queueVars
<1>24. CASE WriteFails
  <2>1. /\ n > 1 /\ UNCHANGED <<queue, n, phase, full, stream, consumed, res>>
        /\ pc \in {"expect", "write", "outcome"}
    BY <1>24 DEF WriteFails, queueVars
  <2>2. CASE holder[n - 1] \in {"none", "thread"}
    BY <1>24, <2>1, <2>2 DEF WriteFails, UseBodyThen, Current
  <2>3. CASE holder[n - 1] \notin {"none", "thread"}
    <3>1. pc' = "using" /\ after' = "exit" /\ holder' = [holder EXCEPT ![n - 1] = "server"]
      BY <1>24, <2>3 DEF WriteFails, UseBodyThen, Current
    <3>2. holder' \in [Readers -> Owners] /\ Position'
      BY <2>1, <3>1
    <3>3. Ownership'
      BY <2>1, <2>3, <3>1
    <3> QED BY <3>1, <3>2, <3>3
  <2> QED BY <2>2, <2>3
<1>25. CASE WriteBodyFails
  BY <1>25 DEF WriteBodyFails, LetGo, RQ!DropCurrent, Current
<1>26. CASE DropReader
  <2>1. CASE RQ!DropWaiting(n)
    BY <1>26, <2>1 DEF DropReader, RQ!DropWaiting, bodyVars, loopVars
  <2>2. CASE RQ!FinishDrop(n)
    BY <1>26, <2>2 DEF DropReader, RQ!FinishDrop, bodyVars, loopVars
  <2> QED BY <1>26, <2>1, <2>2 DEF DropReader
<1>27. CASE DropQueue
  BY <1>27 DEF DropQueue, RQ!DropQueue, bodyVars
<1>28. CASE IntoInner
  BY <1>28 DEF IntoInner, bodyVars, queueVars
<1>29. CASE HandlerReturns
  BY <1>29 DEF HandlerReturns, bodyVars, queueVars
<1>30. CASE DropWriter
  BY <1>30 DEF DropWriter, bodyVars, queueVars
<1>31. ASSUME NEW k \in Readers, ThreadStep(k) PROVE Goal
  <2>1. CASE ThreadPiece(k)
    BY <2>1 DEF ThreadPiece, BodyPiece, RQ!Read, loopVars
  <2>2. CASE ThreadDone(k) \/ ThreadTimeout(k)
    <3>1. /\ holder[k] = "thread" /\ k = n - 1 /\ n > 1
          /\ phase[k] = "current" /\ pc # "dispatch"
      BY <2>2 DEF ThreadDone, ThreadTimeout
    <3>2. /\ phase' = [phase EXCEPT ![k] = "gone"] /\ holder' = [holder EXCEPT ![k] = "none"]
          /\ UNCHANGED <<queue, n, pc, res, after>>
      BY <2>2 DEF ThreadDone, ThreadTimeout, LetGo, RQ!DropCurrent, loopVars
    <3>3. holder' \in [Readers -> Owners] /\ Position'
      BY <3>1, <3>2
    <3>4. Ownership'
      BY <3>1, <3>2
    <3> QED BY <3>2, <3>3, <3>4
  <2> QED BY <1>31, <2>1, <2>2 DEF ThreadStep
<1>32. CASE ClientStep
  BY <1>32, SMTT(30) DEF ClientStep, ClientStart, ClientSend, ClientSendEarly, PutOnWire, ClientClose,
               queueVars, bodyVars, loopVars
<1>33. CASE UNCHANGED vars
  BY <1>33 DEF vars, queueVars, bodyVars, loopVars
<1> QED
  BY <1>1, <1>2, <1>3, <1>4, <1>5, <1>6, <1>7, <1>8, <1>9, <1>10, <1>11, <1>12, <1>13, <1>14, <1>15, <1>16, <1>17, <1>18, <1>19, <1>20, <1>21, <1>22, <1>23, <1>24, <1>25, <1>26, <1>27, <1>28, <1>29, <1>30, <1>31, <1>32, <1>33
     DEF Next, ServerStep, CapturedForever, Terminated

(* One step keeps the replies well typed. *)
LEMMA RepliesStep == ServeInv /\ [Next]_vars => out' \in Seq(Replies) /\ sent' \in Seq(Replies)
<1> SUFFICES ASSUME ServeInv, [Next]_vars PROVE out' \in Seq(Replies) /\ sent' \in Seq(Replies)
  OBVIOUS
<1>1. out \in Seq(Replies) /\ sent \in Seq(Replies)
  BY DEF ServeInv
<1>2. sent \o out \in Seq(Replies) /\ << >> \in Seq(Replies)
  BY <1>1
<1>3. ASSUME NEW what \in {"continue", "reject", "head", "end"},
             pc \in {"expect", "write", "outcome"}
      PROVE  out \o Reply(what) \in Seq(Replies) /\ sent \o out \o Reply(what) \in Seq(Replies)
  <2>1. n - 1 \in Readers
    BY <1>3, QueueAssumed
       DEF ServeInv, Control, Position, RQ!TypeOK, RQ!QueueAssumption, Readers
  <2>2. Reply(what) \in Seq(Replies)
    BY <2>1 DEF Reply, Replies, Current
  <2> QED BY <1>1, <1>2, <2>2
<1>4. CASE UNCHANGED replyVars
  BY <1>1, <1>4 DEF replyVars
<1>5. CASE ExpectContinue \/ ExpectReject \/ WriteResponse \/ KeepAlive \/ Close \/ Upgrade
  BY <1>1, <1>2, <1>3, <1>5
     DEF ExpectContinue, ExpectReject, WriteResponse, KeepAlive, Close, Upgrade
<1>6. CASE UsePiece \/ WriteFails \/ WriteBodyFails \/ IntoInner \/ DropWriter
  BY <1>1, <1>2, <1>6 DEF UsePiece, WriteFails, WriteBodyFails, IntoInner, DropWriter, replyVars
<1>7. CASE \/ Start \/ ParseRecv \/ ParsePiece \/ ParseEof \/ BufferBody \/ ParseReadFails
           \/ ParsedWithoutStream \/ ParsedWithStream \/ ParseFailed \/ Dispatch
           \/ Call \/ CallSpawn \/ CallEcho \/ CallCapture \/ UseDone \/ UseTimeout
           \/ DropReader \/ DropQueue \/ HandlerReturns
  BY <1>4, <1>7 DEF Start, ParseRecv, ParsePiece, ParseEof, BufferBody, ParseReadFails,
     ParsedWithoutStream, ParsedWithStream, ParseFailed, Dispatch, Call, CallSpawn, CallEcho,
     CallCapture, UseDone, UseTimeout, DropReader, DropQueue, HandlerReturns
<1>8. ASSUME NEW k \in Readers, ThreadStep(k) PROVE UNCHANGED replyVars
  BY <1>8 DEF ThreadStep, ThreadPiece, ThreadDone, ThreadTimeout
<1>9. CASE ClientStep \/ UNCHANGED vars
  BY <1>4, <1>9 DEF ClientStep, ClientStart, ClientSend, ClientSendEarly, PutOnWire,
     ClientClose, vars
<1> QED
  BY <1>4, <1>5, <1>6, <1>7, <1>8, <1>9 DEF Next, ServerStep, CapturedForever, Terminated

(* One step keeps the reply to an upgraded request complete. *)
LEMMA CompletedStep == ServeInv /\ [Next]_vars => Completed'
<1> SUFFICES ASSUME ServeInv, [Next]_vars PROVE Completed'
  OBVIOUS
<1>1. CASE pc' \notin {"upgrade", "into_inner", "handler"}
  BY <1>1 DEF Completed
<1>2. CASE UNCHANGED <<pc, n, out, sent>>
  BY <1>2 DEF ServeInv, Control, Completed, Current
<1>3. CASE Upgrade
  <2>1. /\ out \in Seq(Replies) /\ n' = n /\ pc' = "upgrade"
        /\ out' = out \o << [k |-> n - 1, what |-> "end"] >>
    BY <1>3 DEF Upgrade, Reply, Current, queueVars, ServeInv
  <2>2. Len(out') = Len(out) + 1 /\ out'[Len(out) + 1] = [k |-> n - 1, what |-> "end"]
    BY <2>1
  <2> QED BY <2>1, <2>2 DEF Completed, Current
<1>4. CASE DropReader
  BY <1>2, <1>4 DEF DropReader, RQ!DropWaiting, RQ!FinishDrop, loopVars, replyVars
<1>5. CASE DropQueue
  BY <1>5 DEF DropQueue, RQ!DropQueue, replyVars, ServeInv, Control, Completed, Current
<1>6. CASE IntoInner
  <2>1. CASE sent' = sent \o out /\ pc' = "handler"
    <3>1. /\ out \in Seq(Replies) /\ sent \in Seq(Replies) /\ n' = n /\ out' = << >>
          /\ out # << >> /\ out[Len(out)] = [k |-> n - 1, what |-> "end"]
      BY <1>6 DEF IntoInner, ServeInv, Control, Completed, Current, queueVars
    <3>2. Len(sent') = Len(sent) + Len(out) /\ Len(out) > 0 /\ sent'[Len(sent')] = out[Len(out)]
      BY <2>1, <3>1
    <3> QED BY <2>1, <3>1, <3>2 DEF Completed, Current
  <2> QED BY <1>1, <1>6, <2>1 DEF IntoInner
<1>7. CASE \/ Start \/ ParsePiece \/ ParseEof \/ BufferBody \/ ParseReadFails
           \/ ParsedWithoutStream \/ ParsedWithStream \/ ParseFailed
           \/ Dispatch \/ ExpectContinue \/ ParseRecv
           \/ CallSpawn \/ CallEcho \/ CallCapture \/ UsePiece
           \/ KeepAlive \/ Close \/ WriteBodyFails \/ HandlerReturns \/ DropWriter
  BY <1>1, <1>7 DEF Start, ParsePiece, ParseEof, BufferBody, ParseReadFails,
     ParsedWithoutStream, ParsedWithStream, ParseFailed, Dispatch, ExpectContinue, ParseRecv,
     CallSpawn, CallEcho, CallCapture, UsePiece, KeepAlive, Close,
     WriteBodyFails, HandlerReturns, DropWriter, loopVars
<1>8. CASE UseDone \/ UseTimeout
  BY <1>1, <1>8 DEF UseDone, UseTimeout, ServeInv
<1>9. CASE ExpectReject \/ Call \/ WriteResponse \/ WriteFails
  BY <1>1, <1>9 DEF ExpectReject, Call, WriteResponse, WriteFails, UseBodyThen
<1>10. ASSUME NEW k \in Readers, ThreadStep(k) PROVE UNCHANGED <<pc, n, out, sent>>
  BY <1>10 DEF ThreadStep, ThreadPiece, ThreadDone, ThreadTimeout, BodyPiece, LetGo,
     RQ!Read, RQ!DropCurrent, loopVars, replyVars
<1>11. CASE ClientStep \/ UNCHANGED vars
  BY <1>2, <1>11 DEF ClientStep, ClientStart, ClientSend, ClientSendEarly, PutOnWire,
     ClientClose, vars, queueVars, loopVars, replyVars
<1> QED
  BY <1>2, <1>3, <1>4, <1>5, <1>6, <1>7, <1>8, <1>9, <1>10, <1>11
     DEF Next, ServerStep, CapturedForever, Terminated

-----------------------------------------------------------------------------
(* The invariant of the loop holds in every reachable state. *)
THEOREM ServeInvHolds == SafeSpec => []ServeInv
<1>1. Init => ServeInv
  BY QueueAssumed DEF Init, ServeInv, Control, Position, Ownership, Completed, Owners, Readers,
     RQ!Init, RQ!TypeOK, RQ!Handover, RQ!Readers, RQ!Phases, RQ!Gone, RQ!ReceiverAlive,
     RQ!QueueAssumption
<1>2. ServeInv /\ [Next]_vars => ServeInv'
  <2> SUFFICES ASSUME ServeInv, [Next]_vars PROVE ServeInv'
    OBVIOUS
  <2>1. RQ!TypeOK' /\ RQ!Handover'
    BY StepUsesQueue, QueueStep DEF ServeInv, Control
  <2> QED BY <2>1, PositionStep, RepliesStep, CompletedStep DEF ServeInv, Control
<1> QED BY <1>1, <1>2, PTL DEF SafeSpec

(* In particular, at every place of serve() the readers of the connection   *)
(* are in the state, and with the owner, that Control says.                 *)
THEOREM ControlHolds == SafeSpec => []Control
  BY ServeInvHolds, PTL DEF ServeInv

(* However many bodies the service keeps, two readers are alive at most.    *)
THEOREM AtMostTwoReaders == SafeSpec => []TwoReaders
<1>1. ServeInv => TwoReaders
  <2> SUFFICES ASSUME ServeInv, NEW k \in 1..(n - 2) PROVE phase[k] = "gone"
    BY DEF TwoReaders
  <2>1. n - 1 \in RQ!Readers /\ phase[n - 1] \in {"current", "gone"}
    BY QueueAssumed DEF ServeInv, Control, Position, RQ!TypeOK, RQ!Readers, RQ!QueueAssumption
  <2> QED BY <2>1 DEF ServeInv, Control, RQ!Handover, RQ!Gone, RQ!TypeOK
<1> QED BY <1>1, ServeInvHolds, PTL

(* serve() never waits for a body that it holds itself. *)
THEOREM NeverWaitsForItself == SafeSpec => []BlockedOnlyByService
<1>1. ServeInv => BlockedOnlyByService
  BY QueueAssumed DEF ServeInv, Control, Position, Ownership, BlockedOnlyByService, Current, Readers,
     RQ!TypeOK, RQ!Phases, RQ!Handover, RQ!Gone, RQ!ReceiverAlive, RQ!Readers, RQ!QueueAssumption
<1> QED BY <1>1, ServeInvHolds, PTL

(* The upgrade handler is the only owner of the connection it is given, and *)
(* the response that announces the upgrade has been written.                *)
THEOREM HandlerOwnsConnection == SafeSpec => []UpgradeExclusive
<1>1. ServeInv => UpgradeExclusive
  <2> SUFFICES ASSUME ServeInv, pc = "handler" PROVE UpgradeExclusive
    BY DEF UpgradeExclusive
  <2>1. queue = "Dropped" /\ n \in RQ!Readers /\ phase[n] = "gone"
    BY QueueAssumed DEF ServeInv, Control, Position, RQ!TypeOK, RQ!Readers, RQ!QueueAssumption
  <2>2. \A k \in 1..n : phase[k] = "gone"
    BY <2>1 DEF ServeInv, Control, RQ!Handover, RQ!Gone, RQ!Readers, RQ!TypeOK
  <2>3. \A k \in Readers : phase[k] \in {"unborn", "gone"}
    BY <2>1, <2>2, QueueAssumed
       DEF ServeInv, Control, RQ!Handover, RQ!Readers, Readers, RQ!TypeOK, RQ!QueueAssumption
  <2>4. stream = "closed"
    BY <2>1, <2>2 DEF ServeInv, Control, RQ!Handover, RQ!Gone
  <2>5. \A k \in Readers : holder[k] = "none"
    BY <2>3 DEF ServeInv, Control, Ownership
  <2> QED BY <2>1, <2>3, <2>4, <2>5 DEF UpgradeExclusive, ServeInv, Control, Completed
<1> QED BY <1>1, ServeInvHolds, PTL

-----------------------------------------------------------------------------
(* The requests up to q, and no others, have their final reply. *)
AnsweredUpTo(q) ==
    /\ \A m \in 1..q : \E j \in DOMAIN AllReplies : Final(AllReplies[j]) /\ AllReplies[j].k = m
    /\ \A j \in DOMAIN AllReplies : Final(AllReplies[j]) => AllReplies[j].k <= q

(* The last reply. *)
LastReply(k, whats) ==
    /\ AllReplies # << >> /\ AllReplies[Len(AllReplies)].k = k
    /\ AllReplies[Len(AllReplies)].what \in whats

(* How far the replies are at every place of serve(): the strengthening     *)
(* that makes RepliesInOrder and AnsweredBeforeNext inductive.              *)
Answering ==
    /\ pc = "start" => AllReplies = << >>
    /\ pc \in {"parse", "body", "fail", "dispatch"} =>
            out = << >> /\ AnsweredUpTo(n - 1) /\ (n > 1 => LastReply(n - 1, {"end", "reject"}))
    /\ pc \in {"expect", "call", "write"} \/ (pc = "using" /\ after = "write") => AnsweredUpTo(n - 2)
    /\ pc = "outcome" \/ (pc = "using" /\ after = "outcome") =>
            AnsweredUpTo(n - 1) /\ LastReply(n - 1, {"head"})
    /\ pc = "using" /\ after = "parse" =>
            out = << >> /\ AnsweredUpTo(n - 1) /\ LastReply(n - 1, {"reject"})

RepliesInv == ServeInv /\ RepliesInOrder /\ Answering

(* One more reply: to the first request that has no final one, or the end   *)
(* of the response whose head was the last reply.                           *)
LEMMA ReplyAppended ==
    ASSUME AllReplies \in Seq(Replies), RepliesInOrder, NEW q \in Nat, NEW e \in Replies,
           AllReplies' = Append(AllReplies, e),
           \/ e.what # "end" /\ AnsweredUpTo(q) /\ e.k = q + 1
           \/ e.what = "end" /\ AnsweredUpTo(q) /\ e.k = q /\ LastReply(q, {"head"})
    PROVE  /\ RepliesInOrder' /\ LastReply(e.k, {e.what})'
           /\ e.what = "continue" => AnsweredUpTo(q)'
           /\ e.what # "continue" => AnsweredUpTo(e.k)'
<1> DEFINE all == AllReplies
           len == Len(AllReplies)
<1>1. /\ len \in Nat /\ Len(all') = len + 1 /\ DOMAIN all = 1..len /\ DOMAIN all' = 1..(len + 1)
      /\ all'[len + 1] = e /\ \A i \in 1..len : all'[i] = all[i]
      /\ all' # << >>
  BY Appended
<1>2. \A i \in DOMAIN all' : i \in DOMAIN all \/ i = len + 1
  BY <1>1
<1>3. e.k \in Nat /\ e.what \in {"continue", "reject", "head", "end"}
  BY DEF Replies, Readers
<1>4. ASSUME NEW j \in DOMAIN all PROVE all[j] \in Replies /\ all[j].k \in Nat
  <2>1. all[j] \in Replies
    BY <1>1
  <2> QED BY <2>1 DEF Replies, Readers
<1> HIDE DEF all, len
<1>5. LastReply(e.k, {e.what})'
  BY <1>1 DEF LastReply, all
<1>6. ASSUME NEW m \in 1..(e.k - 1) PROVE \E j \in 1..len : Final(all[j]) /\ all[j].k = m
  <2>1. m \in 1..q
    BY <1>3
  <2> QED BY <1>1, <2>1 DEF AnsweredUpTo, all
<1>7. \A i \in DOMAIN all' : \A m \in 1..(all'[i].k - 1) :
            \E j \in 1..(i - 1) : Final(all'[j]) /\ all'[j].k = m
  <2> SUFFICES ASSUME NEW i \in DOMAIN all', NEW m \in 1..(all'[i].k - 1)
               PROVE  \E j \in 1..(i - 1) : Final(all'[j]) /\ all'[j].k = m
    OBVIOUS
  <2>1. \E j \in 1..(i - 1) : Final(all[j]) /\ all[j].k = m
    <3>1. CASE i \in DOMAIN all
      <4>1. m \in 1..(all[i].k - 1)
        BY <1>1, <3>1
      <4> QED BY <3>1, <4>1 DEF RepliesInOrder, all
    <3>2. CASE i = len + 1
      <4>1. m \in 1..(e.k - 1) /\ i - 1 = len
        BY <1>1, <3>2
      <4> QED BY <1>6, <4>1
    <3> QED BY <1>2, <3>1, <3>2
  <2>2. PICK j \in 1..(i - 1) : Final(all[j]) /\ all[j].k = m
    BY <2>1
  <2>3. j \in 1..len /\ all'[j] = all[j]
    BY <1>1, <2>2
  <2> QED BY <2>2, <2>3
<1>8. \A i, j \in DOMAIN all' :
            i < j /\ Final(all'[i]) /\ all'[j].what # "end" => all'[i].k < all'[j].k
  <2> SUFFICES ASSUME NEW i \in DOMAIN all', NEW j \in DOMAIN all', i < j, Final(all'[i]), all'[j].what # "end"
               PROVE  all'[i].k < all'[j].k
    OBVIOUS
  <2>1. i \in DOMAIN all /\ all'[i] = all[i]
    BY <1>1
  <2>2. CASE j \in DOMAIN all
    <3>1. all'[j] = all[j]
      BY <1>1, <2>2
    <3> QED BY <2>1, <2>2, <3>1 DEF RepliesInOrder, all
  <2>3. CASE j = len + 1
    <3>1. all'[j] = e /\ AnsweredUpTo(q) /\ e.k = q + 1
      BY <1>1, <2>3
    <3>2. all[i].k <= q
      BY <2>1, <3>1 DEF AnsweredUpTo, all
    <3> QED BY <1>4, <2>1, <3>1, <3>2
  <2> QED BY <1>2, <2>2, <2>3
<1>9. \A i \in DOMAIN all' : all'[i].what = "end" =>
            i > 1 /\ all'[i - 1] = [k |-> all'[i].k, what |-> "head"]
  <2> SUFFICES ASSUME NEW i \in DOMAIN all', all'[i].what = "end"
               PROVE  i > 1 /\ all'[i - 1] = [k |-> all'[i].k, what |-> "head"]
    OBVIOUS
  <2>1. CASE i \in DOMAIN all
    <3>1. all'[i] = all[i] /\ i > 1 /\ all[i - 1] = [k |-> all[i].k, what |-> "head"]
      BY <1>1, <2>1 DEF RepliesInOrder, all
    <3>2. i - 1 \in 1..len
      BY <1>1, <2>1, <3>1
    <3> QED BY <1>1, <3>1, <3>2
  <2>2. CASE i = len + 1
    <3>1. all'[i] = e /\ e.k = q /\ all # << >> /\ all[len].k = q /\ all[len].what = "head"
      BY <1>1, <2>2 DEF LastReply, all, len
    <3>2. len > 0
      BY <1>1, <3>1, EmptyLen DEF all, len
    <3>3. all[len] = [k |-> q, what |-> "head"]
      <4>1. all[len] \in Replies
        BY <1>1, <1>4, <3>2
      <4> QED BY <3>1, <4>1 DEF Replies
    <3>4. i - 1 = len /\ all'[len] = all[len]
      BY <1>1, <2>2, <3>2
    <3> QED BY <1>1, <2>2, <3>1, <3>2, <3>3, <3>4
  <2> QED BY <1>2, <2>1, <2>2
<1>10. RepliesInOrder'
  BY <1>7, <1>8, <1>9 DEF RepliesInOrder, all
<1>11. ASSUME NEW m \in 1..q PROVE \E j \in DOMAIN all' : Final(all'[j]) /\ all'[j].k = m
  <2>1. PICK j \in DOMAIN all : Final(all[j]) /\ all[j].k = m
    BY DEF AnsweredUpTo, all
  <2>2. j \in DOMAIN all' /\ all'[j] = all[j]
    BY <1>1, <2>1
  <2> QED BY <2>1, <2>2
<1>12. ASSUME NEW j \in DOMAIN all', Final(all'[j])
       PROVE  all'[j].k <= e.k /\ (e.what = "continue" => all'[j].k <= q)
  <2>1. CASE j \in DOMAIN all
    <3>1. all'[j] = all[j] /\ all[j].k <= q
      BY <1>1, <1>12, <2>1 DEF AnsweredUpTo, all
    <3> QED BY <1>3, <1>4, <2>1, <3>1
  <2>2. CASE j = len + 1
    <3>1. all'[j] = e
      BY <1>1, <2>2
    <3> QED BY <1>3, <1>12, <3>1 DEF Final
  <2> QED BY <1>2, <2>1, <2>2
<1>13. e.what = "continue" => AnsweredUpTo(q)'
  BY <1>11, <1>12 DEF AnsweredUpTo, all
<1>14. ASSUME e.what # "continue" PROVE AnsweredUpTo(e.k)'
  <2>1. ASSUME NEW m \in 1..e.k PROVE \E j \in DOMAIN all' : Final(all'[j]) /\ all'[j].k = m
    <3>1. CASE m \in 1..q
      BY <1>11, <3>1
    <3>2. CASE m = q + 1 /\ e.what # "end"
      <4>1. len + 1 \in DOMAIN all' /\ Final(all'[len + 1]) /\ all'[len + 1].k = m
        BY <1>1, <1>3, <1>14, <3>2 DEF Final
      <4> QED BY <4>1
    <3> QED BY <1>3, <3>1, <3>2
  <2> QED BY <1>12, <2>1 DEF AnsweredUpTo, all
<1> QED BY <1>5, <1>10, <1>13, <1>14

(* Replies that never left the BufWriter are the last ones. *)
LEMMA RepliesLost ==
    ASSUME out \in Seq(Replies), sent \in Seq(Replies), RepliesInOrder, AllReplies' = sent
    PROVE  RepliesInOrder'
<1>1. /\ Len(sent) \in Nat /\ Len(AllReplies) \in Nat /\ Len(sent) <= Len(AllReplies)
      /\ DOMAIN sent = 1..Len(sent) /\ DOMAIN AllReplies = 1..Len(AllReplies)
      /\ \A i \in 1..Len(sent) : AllReplies[i] = sent[i]
  BY Concatenated DEF AllReplies
<1>2. \A i \in DOMAIN sent : i \in DOMAIN AllReplies /\ \A j \in 1..i : j \in 1..Len(sent)
  BY <1>1
<1>3. ASSUME NEW i \in DOMAIN sent, NEW m \in 1..(sent[i].k - 1)
      PROVE  \E j \in 1..(i - 1) : Final(sent[j]) /\ sent[j].k = m
  <2>1. PICK j \in 1..(i - 1) : Final(AllReplies[j]) /\ AllReplies[j].k = m
    BY <1>1, <1>2 DEF RepliesInOrder
  <2>2. j \in 1..Len(sent)
    BY <1>1, <2>1
  <2> QED BY <1>1, <2>1, <2>2
<1>4. \A i, j \in DOMAIN sent :
            i < j /\ Final(sent[i]) /\ sent[j].what # "end" => sent[i].k < sent[j].k
  BY <1>1, <1>2 DEF RepliesInOrder
<1>5. ASSUME NEW i \in DOMAIN sent, sent[i].what = "end"
      PROVE  i > 1 /\ sent[i - 1] = [k |-> sent[i].k, what |-> "head"]
  <2>1. i > 1 /\ AllReplies[i - 1] = [k |-> sent[i].k, what |-> "head"]
    BY <1>1, <1>2, <1>5 DEF RepliesInOrder
  <2>2. i - 1 \in 1..Len(sent)
    BY <1>1, <2>1
  <2> QED BY <1>1, <2>1, <2>2
<1> QED BY <1>3, <1>4, <1>5 DEF RepliesInOrder

(* What each step does to the replies. *)
LEMMA ReplyEffect ==
    ASSUME ServeInv, [Next]_vars
    PROVE  /\ AllReplies \in Seq(Replies)
           /\ pc \in {"expect", "write", "outcome"} => n - 1 \in Readers
           /\ ExpectContinue => AllReplies' = Append(AllReplies, [k |-> n - 1, what |-> "continue"])
           /\ ExpectReject => AllReplies' = Append(AllReplies, [k |-> n - 1, what |-> "reject"]) /\ out' = << >>
           /\ WriteResponse =>
                \/ out' = out /\ pc' \in {"exit", "using"} /\ (pc' = "using" => after' = "exit")
                \/ /\ AllReplies' = Append(AllReplies, [k |-> n - 1, what |-> "head"])
                   /\ pc' = "outcome" \/ (pc' = "using" /\ after' = "outcome")
           /\ KeepAlive \/ Close \/ Upgrade =>
                AllReplies' = Append(AllReplies, [k |-> n - 1, what |-> "end"])
           /\ KeepAlive => out' = << >>
           /\ UsePiece => AllReplies' = AllReplies /\ (out' = out \/ out' = << >>)
           /\ WriteFails \/ WriteBodyFails => AllReplies' = sent
           /\ IntoInner \/ DropWriter => AllReplies' = AllReplies \/ AllReplies' = sent
<1>0. sent \in Seq(Replies) /\ out \in Seq(Replies) /\ << >> \in Seq(Replies)
  BY DEF ServeInv
<1>1. AllReplies \in Seq(Replies) /\ AllReplies \o << >> = AllReplies /\ sent \o << >> = sent
  <2>1. AllReplies \in Seq(Replies)
    BY <1>0, Concatenated DEF AllReplies
  <2> QED BY <1>0, <2>1, EmptyRight
<1>2. pc \in {"expect", "write", "outcome"} => n - 1 \in Readers
  BY QueueAssumed DEF ServeInv, Control, Position, RQ!TypeOK, RQ!QueueAssumption, Readers
<1>3. ASSUME pc \in {"expect", "write", "outcome"}, NEW what \in {"continue", "reject", "head", "end"}
      PROVE  /\ sent \o out \o Reply(what) = Append(AllReplies, [k |-> n - 1, what |-> what])
             /\ sent \o (out \o Reply(what)) = Append(AllReplies, [k |-> n - 1, what |-> what])
             /\ Append(AllReplies, [k |-> n - 1, what |-> what]) \o << >>
                    = Append(AllReplies, [k |-> n - 1, what |-> what])
  <2>1. PICK e \in Replies : e = [k |-> n - 1, what |-> what]
    BY <1>2, <1>3 DEF Replies
  <2>2. Reply(what) = << e >>
    BY <2>1 DEF Reply, Current
  <2>3. Append(AllReplies, e) \in Seq(Replies)
    BY <1>1, <2>1, Appended
  <2>4. Append(AllReplies, e) \o << >> = Append(AllReplies, e)
    BY <2>3, EmptyRight
  <2>5. sent \o out \o << e >> = Append(AllReplies, e) /\ sent \o (out \o << e >>) = Append(AllReplies, e)
    BY <1>0, <2>1, AppendRight DEF AllReplies
  <2> QED BY <2>1, <2>2, <2>4, <2>5
<1>4. ExpectContinue => AllReplies' = Append(AllReplies, [k |-> n - 1, what |-> "continue"])
  BY <1>3 DEF ExpectContinue, AllReplies
<1>5. ExpectReject => AllReplies' = Append(AllReplies, [k |-> n - 1, what |-> "reject"]) /\ out' = << >>
  BY <1>3 DEF ExpectReject, AllReplies
<1>6. ASSUME WriteResponse
      PROVE  \/ out' = out /\ pc' \in {"exit", "using"} /\ (pc' = "using" => after' = "exit")
             \/ /\ AllReplies' = Append(AllReplies, [k |-> n - 1, what |-> "head"])
                /\ pc' = "outcome" \/ (pc' = "using" /\ after' = "outcome")
  <2>1. CASE UseBodyThen("drain", "exit") /\ out' = out
    BY <2>1 DEF UseBodyThen
  <2>2. CASE /\ out' = out \o Reply("head")
             /\ (\E use : UseBodyThen(use, "outcome")) \/ pc' = "outcome"
    <3>1. AllReplies' = Append(AllReplies, [k |-> n - 1, what |-> "head"])
      BY <1>3, <1>6, <2>2 DEF WriteResponse, AllReplies
    <3> QED BY <2>2, <3>1 DEF UseBodyThen
  <2> QED BY <1>6, <2>1, <2>2 DEF WriteResponse
<1>7. KeepAlive \/ Close \/ Upgrade =>
          AllReplies' = Append(AllReplies, [k |-> n - 1, what |-> "end"])
  BY <1>3 DEF KeepAlive, Close, Upgrade, AllReplies
<1>8. UsePiece => AllReplies' = AllReplies /\ (out' = out \/ out' = << >>)
  BY <1>1 DEF UsePiece, AllReplies, replyVars
<1>9. WriteFails \/ WriteBodyFails => AllReplies' = sent
  BY <1>1 DEF WriteFails, WriteBodyFails, AllReplies
<1>10. IntoInner \/ DropWriter => AllReplies' = AllReplies \/ AllReplies' = sent
  BY <1>1 DEF IntoInner, DropWriter, AllReplies
<1> QED BY <1>1, <1>2, <1>4, <1>5, <1>6, <1>7, <1>8, <1>9, <1>10 DEF KeepAlive

(* The replies stay in order, and serve() knows how far they are. *)
LEMMA AnsweringStep == RepliesInv /\ [Next]_vars => RepliesInOrder' /\ Answering'
<1> SUFFICES ASSUME RepliesInv, [Next]_vars PROVE RepliesInOrder' /\ Answering'
  OBVIOUS
<1>0. /\ ServeInv /\ RepliesInOrder /\ Answering /\ n \in Nat /\ AllReplies \in Seq(Replies)
      /\ out \in Seq(Replies) /\ sent \in Seq(Replies)
      /\ pc \in {"expect", "call", "using", "write", "outcome"} => n > 1
      /\ after \in {"parse", "write", "outcome", "exit"}
  BY ReplyEffect, QueueAssumed
     DEF RepliesInv, ServeInv, Control, Position, RQ!TypeOK, RQ!QueueAssumption
<1>1. ASSUME AllReplies' = AllReplies
      PROVE  /\ RepliesInOrder'
             /\ \A q : AnsweredUpTo(q)' <=> AnsweredUpTo(q)
             /\ \A k, whats : LastReply(k, whats)' <=> LastReply(k, whats)
  <2>1. RepliesInOrder'
    BY <1>0, <1>1, SMT DEF RepliesInOrder, Final
  <2>2. \A q : AnsweredUpTo(q)' <=> AnsweredUpTo(q)
    BY <1>1, Zenon DEF AnsweredUpTo, Final
  <2>3. \A k, whats : LastReply(k, whats)' <=> LastReply(k, whats)
    BY <1>1, Zenon DEF LastReply
  <2> QED BY <2>1, <2>2, <2>3
<1>2. ASSUME AllReplies' = AllReplies, n' = n, pc' = pc, after' = after, out' = out \/ out' = << >>
      PROVE  RepliesInOrder' /\ Answering'
  <2>1. /\ AnsweredUpTo(n - 1)' <=> AnsweredUpTo(n - 1)
        /\ AnsweredUpTo(n - 2)' <=> AnsweredUpTo(n - 2)
        /\ \A whats : LastReply(n - 1, whats)' <=> LastReply(n - 1, whats)
    BY <1>2 DEF AnsweredUpTo, LastReply
  <2> QED BY <1>0, <1>1, <1>2, <2>1 DEF Answering
<1>3. ASSUME pc' \in {"exit", "unwind", "upgrade", "into_inner", "handler", "done"} \/ (pc' = "using" /\ after' = "exit")
      PROVE  Answering'
  BY <1>3 DEF Answering
<1>4. ASSUME pc \in {"expect", "write", "outcome"}, NEW what \in {"continue", "reject", "head", "end"}
      PROVE  n - 2 \in Nat /\ n - 1 \in Nat /\ [k |-> n - 1, what |-> what] \in Replies
  <2>1. n - 1 \in Readers
    BY <1>0, <1>4, ReplyEffect
  <2> QED BY <1>0, <1>4, <2>1 DEF Replies
<1>5. CASE ExpectContinue
  <2>1. pc = "expect" /\ pc' = "call" /\ n' = n /\ AnsweredUpTo(n - 2)
    BY <1>0, <1>5 DEF ExpectContinue, Answering, queueVars
  <2>2. PICK q \in Nat, e \in Replies : q = n - 2 /\ e = [k |-> n - 1, what |-> "continue"]
    BY <1>4, <2>1
  <2>3. AllReplies' = Append(AllReplies, e) /\ AnsweredUpTo(q) /\ e.k = q + 1 /\ e.what = "continue"
    BY <1>0, <1>5, <2>1, <2>2, ReplyEffect
  <2>4. RepliesInOrder' /\ AnsweredUpTo(q)'
    BY <1>0, <2>2, <2>3, ReplyAppended
  <2>5. AnsweredUpTo(n - 2)'
    BY <2>1, <2>2, <2>4 DEF AnsweredUpTo
  <2> QED BY <2>1, <2>4, <2>5 DEF Answering
<1>6. CASE ExpectReject
  <2>1. /\ pc = "expect" /\ n' = n /\ AnsweredUpTo(n - 2) /\ out' = << >>
        /\ pc' = "parse" \/ (pc' = "using" /\ after' = "parse")
    BY <1>0, <1>6 DEF ExpectReject, UseBodyThen, Answering, queueVars
  <2>2. PICK q \in Nat, e \in Replies : q = n - 2 /\ e = [k |-> n - 1, what |-> "reject"]
    BY <1>4, <2>1
  <2>3. AllReplies' = Append(AllReplies, e) /\ AnsweredUpTo(q) /\ e.k = q + 1 /\ e.what = "reject"
    BY <1>0, <1>6, <2>1, <2>2, ReplyEffect
  <2>4. RepliesInOrder' /\ AnsweredUpTo(e.k)' /\ LastReply(e.k, {e.what})'
    BY <1>0, <2>2, <2>3, ReplyAppended
  <2>5. AnsweredUpTo(n - 1)' /\ LastReply(n - 1, {"reject"})' /\ LastReply(n - 1, {"end", "reject"})'
    BY <2>1, <2>2, <2>4 DEF AnsweredUpTo, LastReply
  <2> QED BY <2>1, <2>4, <2>5 DEF Answering
<1>7. CASE WriteResponse
  <2>1. pc = "write" /\ n' = n /\ AnsweredUpTo(n - 2) /\ sent' = sent
    BY <1>0, <1>7 DEF WriteResponse, Answering, queueVars
  <2>2. CASE out' = out /\ pc' \in {"exit", "using"} /\ (pc' = "using" => after' = "exit")
    <3>1. AllReplies' = AllReplies
      BY <2>1, <2>2 DEF AllReplies
    <3> QED BY <1>1, <1>3, <2>2, <3>1
  <2>3. CASE /\ AllReplies' = Append(AllReplies, [k |-> n - 1, what |-> "head"])
             /\ pc' = "outcome" \/ (pc' = "using" /\ after' = "outcome")
    <3>1. PICK q \in Nat, e \in Replies : q = n - 2 /\ e = [k |-> n - 1, what |-> "head"]
      BY <1>4, <2>1
    <3>2. AllReplies' = Append(AllReplies, e) /\ AnsweredUpTo(q) /\ e.k = q + 1 /\ e.what = "head"
      BY <1>0, <2>1, <2>3, <3>1
    <3>3. RepliesInOrder' /\ AnsweredUpTo(e.k)' /\ LastReply(e.k, {e.what})'
      BY <1>0, <3>1, <3>2, ReplyAppended
    <3>4. AnsweredUpTo(n - 1)' /\ LastReply(n - 1, {"head"})'
      BY <2>1, <3>1, <3>3 DEF AnsweredUpTo, LastReply
    <3> QED BY <2>3, <3>3, <3>4 DEF Answering
  <2> QED BY <1>0, <1>7, <2>2, <2>3, ReplyEffect
<1>8. CASE KeepAlive \/ Close \/ Upgrade
  <2>1. pc = "outcome" /\ n' = n /\ AnsweredUpTo(n - 1) /\ LastReply(n - 1, {"head"})
    BY <1>0, <1>8 DEF KeepAlive, Close, Upgrade, Answering, queueVars
  <2>2. PICK q \in Nat, e \in Replies : q = n - 1 /\ e = [k |-> n - 1, what |-> "end"]
    BY <1>4, <2>1
  <2>3. /\ AllReplies' = Append(AllReplies, e) /\ AnsweredUpTo(q) /\ e.k = q /\ e.what = "end"
        /\ LastReply(q, {"head"})
    BY <1>0, <1>8, <2>1, <2>2, ReplyEffect
  <2>4. RepliesInOrder' /\ AnsweredUpTo(e.k)' /\ LastReply(e.k, {e.what})'
    BY <1>0, <2>2, <2>3, ReplyAppended
  <2>5. AnsweredUpTo(n - 1)' /\ LastReply(n - 1, {"end", "reject"})'
    BY <2>1, <2>2, <2>4 DEF AnsweredUpTo, LastReply
  <2>6. CASE KeepAlive
    <3>1. pc' = "parse" /\ out' = << >>
      BY <2>6 DEF KeepAlive
    <3> QED BY <2>4, <2>5, <3>1 DEF Answering
  <2>7. CASE Close \/ Upgrade
    BY <1>3, <2>4, <2>7 DEF Close, Upgrade
  <2> QED BY <1>8, <2>6, <2>7
<1>9. CASE WriteFails \/ WriteBodyFails \/ IntoInner \/ DropWriter
  <2>1. AllReplies' = AllReplies \/ AllReplies' = sent
    BY <1>0, <1>9, ReplyEffect
  <2>2. RepliesInOrder'
    BY <1>0, <1>1, <2>1, RepliesLost
  <2>3. Answering'
    BY <1>3, <1>9 DEF WriteFails, UseBodyThen, WriteBodyFails, IntoInner, DropWriter
  <2> QED BY <2>2, <2>3
<1>10. CASE UsePiece
  BY <1>0, <1>2, <1>10, ReplyEffect DEF UsePiece, BodyPiece, RQ!Read, loopVars
<1>11. CASE Start
  <2>1. pc = "start" /\ pc' = "parse" /\ n = 0 /\ n' = 1 /\ UNCHANGED <<out, sent>> /\ AllReplies = << >>
    BY <1>0, <1>11 DEF Start, RQ!Enqueue, Answering, replyVars, RepliesInv, ServeInv, Control, Position
  <2>2. AllReplies' = << >> /\ out' = << >>
    <3>1. Len(sent) + Len(out) = 0
      BY <1>0, <2>1, Concatenated, EmptyLen DEF AllReplies
    <3> QED BY <1>0, <2>1, <3>1, EmptyLen DEF AllReplies
  <2>3. AnsweredUpTo(n - 1)'
    BY <2>1, <2>2 DEF AnsweredUpTo
  <2> QED BY <1>0, <1>1, <2>1, <2>2, <2>3 DEF Answering
<1>12. CASE Dispatch
  <2>1. /\ pc = "dispatch" /\ pc' \in {"expect", "call"} /\ n' = n + 1 /\ UNCHANGED <<out, sent>>
        /\ AnsweredUpTo(n - 1)
    BY <1>0, <1>12 DEF Dispatch, RQ!Enqueue, Answering, replyVars
  <2>2. AllReplies' = AllReplies
    BY <2>1 DEF AllReplies
  <2>3. (n - 2)' = n - 1
    BY <1>0, <2>1
  <2>4. AnsweredUpTo(n - 2)'
    BY <2>1, <2>2, <2>3 DEF AnsweredUpTo
  <2> QED BY <1>1, <2>1, <2>2, <2>4 DEF Answering
<1>13. CASE ParsePiece \/ ParseEof \/ ParseReadFails \/ ParsedWithoutStream \/ ParsedWithStream \/ BufferBody
  <2>1. /\ pc \in {"parse", "body"} /\ pc' \in {"parse", "body", "fail", "dispatch"} /\ n' = n
        /\ UNCHANGED <<out, sent>>
    BY <1>13 DEF ParsePiece, ParseEof, ParseReadFails, ParsedWithoutStream, ParsedWithStream, BufferBody,
       RQ!Read, RQ!DropCurrent, queueVars, replyVars
  <2>2. AllReplies' = AllReplies
    BY <2>1 DEF AllReplies
  <2>3. AnsweredUpTo(n - 1)' /\ (n > 1 => LastReply(n - 1, {"end", "reject"}))'
    BY <1>0, <2>1, <2>2 DEF Answering, AnsweredUpTo, LastReply
  <2> QED BY <1>0, <1>1, <2>1, <2>2, <2>3 DEF Answering
<1>14. CASE ParseFailed
  BY <1>1, <1>3, <1>14 DEF ParseFailed, replyVars, AllReplies
<1>15. CASE Call \/ CallSpawn \/ CallEcho \/ CallCapture
  <2>1. /\ pc = "call" /\ n' = n /\ UNCHANGED <<out, sent>>
        /\ pc' \in {"exit", "write"} \/ (pc' = "using" /\ after' \in {"write", "exit"})
    BY <1>15 DEF Call, CallSpawn, CallEcho, CallCapture, UseBodyThen, queueVars, replyVars
  <2>2. AllReplies' = AllReplies
    BY <2>1 DEF AllReplies
  <2>3. AnsweredUpTo(n - 2)'
    BY <1>0, <2>1, <2>2 DEF Answering, AnsweredUpTo
  <2> QED BY <1>1, <2>1, <2>2, <2>3 DEF Answering
<1>16. CASE UseDone \/ UseTimeout
  <2>1. /\ pc = "using" /\ n' = n /\ UNCHANGED <<out, sent, after>> /\ pc' \in {after, "exit"}
    BY <1>16 DEF UseDone, UseTimeout, LetGo, RQ!DropCurrent, replyVars
  <2>2. AllReplies' = AllReplies
    BY <2>1 DEF AllReplies
  <2>3. /\ AnsweredUpTo(n - 1)' <=> AnsweredUpTo(n - 1)
        /\ AnsweredUpTo(n - 2)' <=> AnsweredUpTo(n - 2)
        /\ \A whats : LastReply(n - 1, whats)' <=> LastReply(n - 1, whats)
    BY <2>1, <2>2 DEF AnsweredUpTo, LastReply
  <2>4. LastReply(n - 1, {"reject"}) => LastReply(n - 1, {"end", "reject"})
    BY DEF LastReply
  <2> QED BY <1>0, <1>1, <2>1, <2>2, <2>3, <2>4 DEF Answering
<1>17. CASE DropQueue
  BY <1>1, <1>3, <1>17 DEF DropQueue, replyVars, AllReplies
<1>18. CASE HandlerReturns
  BY <1>1, <1>3, <1>18 DEF HandlerReturns, replyVars, AllReplies
<1>19. CASE ParseRecv \/ DropReader \/ ClientStep \/ (\E k \in Readers : ThreadStep(k)) \/ UNCHANGED vars
  <2>1. UNCHANGED <<pc, after, n, out, sent>>
    BY <1>19 DEF ParseRecv, DropReader, RQ!Recv, RQ!DropWaiting, RQ!FinishDrop,
       ClientStep, ClientStart, ClientSend, ClientSendEarly, PutOnWire, ClientClose,
       ThreadStep, ThreadPiece, ThreadDone, ThreadTimeout, BodyPiece, LetGo, RQ!Read, RQ!DropCurrent,
       vars, queueVars, loopVars, replyVars
  <2>2. AllReplies' = AllReplies
    BY <2>1 DEF AllReplies
  <2> QED BY <1>2, <2>1, <2>2
<1> QED
  BY <1>5, <1>6, <1>7, <1>8, <1>9, <1>10, <1>11, <1>12, <1>13, <1>14, <1>15, <1>16, <1>17, <1>18, <1>19
     DEF Next, ServerStep, CapturedForever, Terminated

(* How far the replies are, at every place of serve(): they are in order,   *)
(* and exactly those to the requests before the current one are complete.   *)
THEOREM RepliesInvHolds == SafeSpec => []RepliesInv
<1>1. Init => RepliesInOrder /\ Answering
  <2> SUFFICES ASSUME Init PROVE RepliesInOrder /\ Answering
    OBVIOUS
  <2>1. AllReplies = << >> /\ pc = "start"
    BY DEF Init, AllReplies
  <2> QED BY <2>1 DEF RepliesInOrder, Answering
<1>2. RepliesInOrder /\ Answering /\ ServeInv /\ [Next]_vars => (RepliesInOrder /\ Answering)'
  BY AnsweringStep DEF RepliesInv
<1> QED BY <1>1, <1>2, ServeInvHolds, PTL DEF SafeSpec, RepliesInv

(* Every request gets one final reply, in the order of the requests.        *)
THEOREM AnswersInOrder == SafeSpec => []RepliesInOrder
  BY RepliesInvHolds, PTL DEF RepliesInv

(* serve() blocks for the next request only when the replies to all before  *)
(* are complete and on the socket.                                          *)
THEOREM NothingLeftUnsent == SafeSpec => []AnsweredBeforeNext
<1>1. RepliesInv => AnsweredBeforeNext
  <2> SUFFICES ASSUME RepliesInv, pc \in {"parse", "body", "dispatch"} PROVE AnsweredBeforeNext
    BY DEF AnsweredBeforeNext
  <2>1. out = << >> /\ (n > 1 => LastReply(n - 1, {"end", "reject"})) /\ sent \in Seq(Replies)
    BY DEF RepliesInv, Answering, ServeInv
  <2>2. AllReplies = sent
    BY <2>1, EmptyRight DEF AllReplies
  <2> QED BY <2>1, <2>2 DEF AnsweredBeforeNext, LastReply
<1> QED BY <1>1, RepliesInvHolds, PTL

-----------------------------------------------------------------------------
(* Everything on the wire belongs to a request the client has started, and  *)
(* the parser has seen a request line only after there was one.             *)
WirePieces == [k : Readers, t : PieceKinds]
Belongs(s) == \A i \in DOMAIN s : s[i].k <= Len(reqs)
ClientTyped ==
    /\ reqs \in Seq(ClientRequests) /\ Len(reqs) <= MaxRequests
    /\ unsent \in Seq(WirePieces) /\ wire \in Seq(WirePieces)
    /\ eof \in {"open", "closed"}
    /\ Belongs(unsent) /\ Belongs(wire)
    /\ got # "nothing" => Len(reqs) > 0
LoopTyped ==
    /\ pc \in {"start", "parse", "body", "fail", "dispatch", "expect", "call", "using", "write",
               "outcome", "upgrade", "into_inner", "handler", "exit", "unwind", "done"}
    /\ got \in {"nothing", "blank", "line", "junk"}
    /\ req \in RequestRecords
    /\ res \in Responses(Lengths)
BodyTyped ==
    /\ kind \in [Readers -> {"Reader", "Iter"}]
    /\ form \in [Readers -> {"Body", "drain", "read", "abandon", "chunks"}]
    /\ left \in [Readers -> Nat]
    /\ late \subseteq Readers
TypeInv == ServeInv /\ ClientTyped /\ LoopTyped /\ BodyTyped

(* The pieces of a request. *)
LEMMA PiecesTyped ==
    ASSUME NEW k \in Readers, NEW r
    PROVE  /\ Pieces(k, r) \in Seq(WirePieces)
           /\ \A i \in DOMAIN Pieces(k, r) : Pieces(k, r)[i].k = k
<1>1. BodyPieces(r.body) \in Seq(PieceKinds)
  <2>1. BodyPieces(r.body) \in {<< "data" >>, << "data", "data" >>, << "chunk", "last", "crlf" >>, << >>}
    BY DEF BodyPieces
  <2>2. {<< "data" >>, << "data", "data" >>, << "chunk", "last", "crlf" >>, << >>} \subseteq Seq(PieceKinds)
    BY DEF PieceKinds
  <2> QED BY <2>1, <2>2
<1>2. << "line", "fields" >> \in Seq(PieceKinds)
  BY DEF PieceKinds
<1>3. Shape(r) \in Seq(PieceKinds) /\ Len(Shape(r)) \in Nat
  BY <1>1, <1>2, Concatenated DEF Shape
<1>4. ASSUME NEW i \in 1..Len(Shape(r)) PROVE [k |-> k, t |-> Shape(r)[i]] \in WirePieces
  BY <1>3 DEF WirePieces
<1>5. Pieces(k, r) \in [1..Len(Shape(r)) -> WirePieces]
  BY <1>4 DEF Pieces
<1>6. \A i \in DOMAIN Pieces(k, r) : Pieces(k, r)[i].k = k
  BY DEF Pieces
<1> QED BY <1>3, <1>5, <1>6, SeqDef

(* What the client sends. *)
LEMMA ClientTypedStep == TypeInv /\ [Next]_vars => ClientTyped'
<1> SUFFICES ASSUME TypeInv, [Next]_vars PROVE ClientTyped'
  OBVIOUS
<1>0. /\ ClientTyped /\ LoopTyped /\ reqs \in Seq(ClientRequests) /\ Len(reqs) \in Nat /\ MaxRequests \in Nat
      /\ unsent \in Seq(WirePieces) /\ wire \in Seq(WirePieces) /\ Len(wire) \in Nat /\ DOMAIN wire = 1..Len(wire)
      /\ Belongs(unsent) /\ Belongs(wire)
  BY ServeAssumption DEF TypeInv, ClientTyped
<1>1. CASE UNCHANGED <<clientVars, got>>
  BY <1>0, <1>1 DEF ClientTyped, clientVars, Belongs
<1>2. CASE UNCHANGED clientVars /\ got' = "nothing"
  BY <1>0, <1>2 DEF ClientTyped, clientVars, Belongs
<1>3. CASE ParsePiece
  <2>1. UNCHANGED clientVars /\ Available
    BY <1>3 DEF ParsePiece
  <2>2. Len(reqs) > 0
    <3>1. Len(consumed) + 1 \in DOMAIN wire
      BY <1>0, <2>1, QueueAssumed DEF Available, TypeInv, ServeInv, RQ!TypeOK, RQ!QueueAssumption
    <3>2. wire[Len(consumed) + 1].k \in Nat /\ wire[Len(consumed) + 1].k > 0
      <4>1. wire[Len(consumed) + 1] \in WirePieces
        BY <1>0, <3>1
      <4> QED BY <4>1 DEF WirePieces, Readers
    <3>3. wire[Len(consumed) + 1].k <= Len(reqs)
      BY <1>0, <3>1 DEF Belongs
    <3> QED BY <1>0, <3>2, <3>3
  <2> QED BY <1>0, <2>1, <2>2 DEF ClientTyped, clientVars, Belongs
<1>4. CASE ClientStart
  <2>1. PICK r \in ClientRequests :
            reqs' = Append(reqs, r) /\ unsent' = Pieces(Len(reqs) + 1, r)
    BY <1>4 DEF ClientStart
  <2>2. Len(reqs) < MaxRequests /\ UNCHANGED <<wire, eof, got>>
    BY <1>4 DEF ClientStart, loopVars
  <2>3. reqs' \in Seq(ClientRequests) /\ Len(reqs') = Len(reqs) + 1
    BY <1>0, <2>1, Appended
  <2>4. Len(reqs) + 1 \in Readers
    BY <1>0, <2>2 DEF Readers, MaxReaders
  <2>5. unsent' \in Seq(WirePieces) /\ \A i \in DOMAIN unsent' : unsent'[i].k = Len(reqs')
    BY <2>1, <2>3, <2>4, PiecesTyped
  <2>6. Belongs(unsent)'
    BY <1>0, <2>3, <2>5 DEF Belongs
  <2>7. Belongs(wire)'
    <3> SUFFICES ASSUME NEW i \in DOMAIN wire PROVE wire[i].k <= Len(reqs')
      BY <2>2 DEF Belongs
    <3>1. wire[i] \in WirePieces /\ wire[i].k <= Len(reqs)
      BY <1>0 DEF Belongs
    <3>2. wire[i].k \in Nat
      BY <3>1 DEF WirePieces, Readers
    <3> QED BY <1>0, <2>3, <3>1, <3>2
  <2>8. Len(reqs') <= MaxRequests /\ Len(reqs') > 0
    BY <1>0, <2>2, <2>3
  <2> QED BY <1>0, <2>2, <2>3, <2>5, <2>6, <2>7, <2>8 DEF ClientTyped
<1>5. CASE ClientSend \/ ClientSendEarly
  <2>1. /\ unsent # << >> /\ wire' = Append(wire, Head(unsent)) /\ unsent' = Tail(unsent)
        /\ UNCHANGED <<reqs, eof, got>>
    BY <1>5 DEF ClientSend, ClientSendEarly, PutOnWire, loopVars
  <2>2. /\ Len(unsent) \in Nat /\ Len(unsent) > 0 /\ DOMAIN unsent = 1..Len(unsent) /\ Head(unsent) = unsent[1]
        /\ unsent[1] \in WirePieces /\ unsent' \in Seq(WirePieces) /\ Len(unsent') = Len(unsent) - 1
        /\ \A i \in 1..(Len(unsent) - 1) : unsent'[i] = unsent[i + 1]
    BY <1>0, <2>1, NonEmpty
  <2>3. /\ wire' \in Seq(WirePieces) /\ DOMAIN wire' = 1..(Len(wire) + 1) /\ wire'[Len(wire) + 1] = unsent[1]
        /\ \A i \in 1..Len(wire) : wire'[i] = wire[i]
    BY <1>0, <2>1, <2>2, Appended
  <2>4. Belongs(wire)'
    BY <1>0, <2>1, <2>2, <2>3 DEF Belongs
  <2>5. Belongs(unsent)'
    <3>1. DOMAIN unsent' = 1..(Len(unsent) - 1)
      BY <2>2
    <3> QED BY <1>0, <2>1, <2>2, <3>1 DEF Belongs
  <2> QED BY <1>0, <2>1, <2>2, <2>3, <2>4, <2>5 DEF ClientTyped
<1>6. CASE ClientClose
  BY <1>0, <1>6 DEF ClientClose, ClientTyped, Belongs, loopVars
<1> QED
  BY <1>1, <1>2, <1>3, <1>4, <1>5, <1>6, SMTT(30)
     DEF Next, ServerStep, ThreadStep, ClientStep, CapturedForever, Terminated, vars, loopVars,
         Start, ParseRecv, ParseEof, BufferBody, ParseReadFails, ParsedWithoutStream, ParsedWithStream, ParseFailed,
         Dispatch, ExpectContinue, ExpectReject, Call, CallSpawn, CallEcho, CallCapture, UsePiece, UseDone,
         UseTimeout, WriteResponse, KeepAlive, Close, Upgrade, WriteFails, WriteBodyFails, DropReader, DropQueue,
         IntoInner, HandlerReturns, DropWriter, ThreadPiece, ThreadDone, ThreadTimeout

(* The requests and the responses that the loop works on. *)
LEMMA LoopTypedStep == TypeInv /\ [Next]_vars => LoopTyped'
<1> SUFFICES ASSUME TypeInv, [Next]_vars PROVE LoopTyped'
  OBVIOUS
<1>0. /\ LoopTyped /\ ClientTyped /\ reqs \in Seq(ClientRequests) /\ Len(reqs) \in Nat
      /\ ClientRequests \subseteq RequestRecords /\ Answers \subseteq Responses(Lengths)
      /\ req \in RequestRecords /\ res \in Responses(Lengths)
      /\ after \in {"parse", "write", "outcome", "exit"}
  BY ServeAssumption DEF TypeInv, ServeInv, ClientTyped, LoopTyped
<1>1. got' \in {"nothing", "blank", "line", "junk"}
  <2>1. got' \in {got, "nothing"} \/ ParsePiece
    BY DEF Next, ServerStep, ThreadStep, ClientStep, CapturedForever, Terminated, vars, loopVars,
         Start, ParseRecv, ParseEof, BufferBody, ParseReadFails, ParsedWithoutStream, ParsedWithStream, ParseFailed,
         Dispatch, ExpectContinue, ExpectReject, Call, CallSpawn, CallEcho, CallCapture, UsePiece, UseDone,
         UseTimeout, WriteResponse, KeepAlive, Close, Upgrade, WriteFails, WriteBodyFails, DropReader, DropQueue,
         IntoInner, HandlerReturns, DropWriter, ThreadPiece, ThreadDone, ThreadTimeout,
         ClientStart, ClientSend, ClientSendEarly, PutOnWire, ClientClose
  <2> QED BY <1>0, <2>1 DEF LoopTyped, ParsePiece, HeadAfter
<1>2. pc' \in {"start", "parse", "body", "fail", "dispatch", "expect", "call", "using", "write",
               "outcome", "upgrade", "into_inner", "handler", "exit", "unwind", "done"}
  <2>1. \/ pc' \in {"parse", "body", "fail", "dispatch", "expect", "call", "using", "write",
                    "outcome", "upgrade", "into_inner", "handler", "exit", "unwind", "done"}
        \/ pc' = pc
        \/ pc' = after
    BY DEF Next, ServerStep, ThreadStep, ClientStep, CapturedForever, Terminated, vars, loopVars,
         Start, ParseRecv, ParsePiece, ParseEof, BufferBody, ParseReadFails, ParsedWithoutStream, ParsedWithStream,
         ParseFailed, Dispatch, ExpectContinue, ExpectReject, Call, CallSpawn, CallEcho, CallCapture, UsePiece, UseDone,
         UseTimeout, WriteResponse, KeepAlive, Close, Upgrade, WriteFails, WriteBodyFails, DropReader, DropQueue,
         IntoInner, HandlerReturns, DropWriter, ThreadPiece, ThreadDone, ThreadTimeout, UseBodyThen,
         ClientStart, ClientSend, ClientSendEarly, PutOnWire, ClientClose
  <2> QED BY <1>0, <2>1 DEF LoopTyped
<1>3. req' \in RequestRecords
  <2>1. CASE req' = req
    BY <1>0, <2>1
  <2>2. CASE ParsePiece
    <3>1. NextPiece.k \in 1..Len(reqs)
      <4>1. Len(consumed) + 1 \in DOMAIN wire
        BY <2>2, QueueAssumed
           DEF ParsePiece, Available, TypeInv, ServeInv, ClientTyped, RQ!TypeOK, RQ!QueueAssumption
      <4>2. wire[Len(consumed) + 1] \in WirePieces /\ wire[Len(consumed) + 1].k <= Len(reqs)
        BY <1>0, <4>1 DEF ClientTyped, Belongs
      <4> QED BY <1>0, <4>2 DEF NextPiece, WirePieces, Readers
    <3>2. reqs[NextPiece.k] \in RequestRecords
      BY <1>0, <3>1
    <3> QED BY <1>0, <2>2, <3>2 DEF ParsePiece
  <2>3. CASE ParseEof
    <3>1. CASE got = "line"
      <4>1. reqs[Len(reqs)] \in RequestRecords
        BY <1>0, <3>1 DEF ClientTyped
      <4>2. Truncated(reqs[Len(reqs)]) \in RequestRecords
        BY <4>1 DEF Truncated, RequestRecords
      <4> QED BY <1>0, <2>3, <4>2 DEF ParseEof
    <3> QED BY <1>0, <2>3, <3>1 DEF ParseEof
  <2>4. CASE BufferBody
    <3>1. [req EXCEPT !.body = "buffered"] \in RequestRecords
      BY <1>0 DEF RequestRecords
    <3> QED BY <2>4, <3>1 DEF BufferBody
  <2>5. req' = req \/ ParsePiece \/ ParseEof \/ BufferBody
    BY DEF Next, ServerStep, ThreadStep, ClientStep, CapturedForever, Terminated, vars, loopVars,
         Start, ParseRecv, ParseReadFails, ParsedWithoutStream, ParsedWithStream,
         ParseFailed, Dispatch, ExpectContinue, ExpectReject, Call, CallSpawn, CallEcho, CallCapture, UsePiece, UseDone,
         UseTimeout, WriteResponse, KeepAlive, Close, Upgrade, WriteFails, WriteBodyFails, DropReader, DropQueue,
         IntoInner, HandlerReturns, DropWriter, ThreadPiece, ThreadDone, ThreadTimeout,
         ClientStart, ClientSend, ClientSendEarly, PutOnWire, ClientClose
  <2> QED BY <2>1, <2>2, <2>3, <2>4, <2>5
<1>4. res' \in Responses(Lengths)
  <2>1. ASSUME NEW a \in Responses(Lengths) PROVE Prepared(a, req) \in Responses(Lengths)
    BY DEF Prepared, Responses
  <2>3. CASE Call \/ CallSpawn \/ CallCapture
    BY <1>0, <2>1, <2>3 DEF Call, CallSpawn, CallCapture
  <2>4. CASE CallEcho
    <3>1. PICK a \in Answers : res' = Prepared([a EXCEPT !.len = IF kind[Current] = "Reader" THEN {2000} ELSE {}], req)
      BY <2>4 DEF CallEcho
    <3>2. a \in Responses(Lengths) /\ {2000} \in Lengths /\ {} \in Lengths
      BY <1>0 DEF Lengths
    <3>3. [a EXCEPT !.len = IF kind[Current] = "Reader" THEN {2000} ELSE {}] \in Responses(Lengths)
      BY <3>2 DEF Responses
    <3> QED BY <2>1, <3>1, <3>3
  <2>5. res' = res \/ Call \/ CallSpawn \/ CallEcho \/ CallCapture
    BY DEF Next, ServerStep, ThreadStep, ClientStep, CapturedForever, Terminated, vars, loopVars,
         Start, ParseRecv, ParsePiece, ParseEof, BufferBody, ParseReadFails, ParsedWithoutStream, ParsedWithStream,
         ParseFailed, Dispatch, ExpectContinue, ExpectReject, UsePiece, UseDone,
         UseTimeout, WriteResponse, KeepAlive, Close, Upgrade, WriteFails, WriteBodyFails, DropReader, DropQueue,
         IntoInner, HandlerReturns, DropWriter, ThreadPiece, ThreadDone, ThreadTimeout,
         ClientStart, ClientSend, ClientSendEarly, PutOnWire, ClientClose
  <2> QED BY <1>0, <2>3, <2>4, <2>5
<1> QED BY <1>1, <1>2, <1>3, <1>4 DEF LoopTyped

(* The bodies. *)
LEMMA BodyTypedStep == TypeInv /\ [Next]_vars => BodyTyped'
<1> SUFFICES ASSUME TypeInv, [Next]_vars PROVE BodyTyped'
  OBVIOUS
<1>0. BodyTyped /\ (pc = "using" => n - 1 \in Readers)
  BY QueueAssumed DEF TypeInv, ServeInv, Control, Position, RQ!TypeOK, RQ!QueueAssumption, Readers
<1>1. CASE UNCHANGED <<kind, form, left, late>>
  BY <1>0, <1>1 DEF BodyTyped
<1>2. CASE ParsedWithStream
  <2>1. Len(BodyPieces("large")) = 2
    BY DEF BodyPieces
  <2>2. UNCHANGED <<form, late>>
    BY <1>2 DEF ParsedWithStream
  <2>3. kind' \in [Readers -> {"Reader", "Iter"}]
    BY <1>0, <1>2 DEF BodyTyped, ParsedWithStream
  <2>4. PICK l \in Nat : left' = [left EXCEPT ![n] = l]
    BY <1>2, <2>1 DEF ParsedWithStream
  <2>5. left' \in [Readers -> Nat]
    BY <1>0, <2>4 DEF BodyTyped
  <2> QED BY <1>0, <2>2, <2>3, <2>5 DEF BodyTyped
<1>3. ASSUME NEW use \in {"drain", "read", "abandon", "chunks"}, NEW next, UseBodyThen(use, next),
             UNCHANGED <<kind, left, late>>
      PROVE  BodyTyped'
  BY <1>0, <1>3 DEF BodyTyped, UseBodyThen
<1>4. CASE ExpectReject \/ Call \/ WriteFails
  BY <1>3, <1>4 DEF ExpectReject, Call, WriteFails
<1>5. CASE WriteResponse
  BY <1>1, <1>3, <1>5 DEF WriteResponse
<1>6. CASE CallSpawn
  BY <1>0, <1>6 DEF CallSpawn, BodyTyped
<1>7. ASSUME NEW k \in Readers, BodyPiece(k), UNCHANGED <<kind, form, late>> PROVE BodyTyped'
  <2>1. left[k] \in Nat
    BY <1>0 DEF BodyTyped
  <2>2. left' \in [Readers -> Nat]
    BY <1>0, <1>7, <2>1 DEF BodyTyped, BodyPiece
  <2> QED BY <1>0, <1>7, <2>2 DEF BodyTyped
<1>8. CASE UsePiece
  BY <1>0, <1>7, <1>8 DEF UsePiece, Current
<1>9. CASE UseDone \/ WriteBodyFails
  BY <1>1, <1>9 DEF UseDone, WriteBodyFails, LetGo
<1>10. CASE UseTimeout
  BY <1>0, <1>10 DEF UseTimeout, LetGo, BodyTyped, Current
<1>11. ASSUME NEW k \in Readers, ThreadStep(k) PROVE BodyTyped'
  <2>1. CASE ThreadPiece(k)
    BY <1>7, <2>1 DEF ThreadPiece
  <2>2. CASE ThreadDone(k)
    BY <1>1, <2>2 DEF ThreadDone, LetGo
  <2>3. CASE ThreadTimeout(k)
    BY <1>0, <2>3 DEF ThreadTimeout, LetGo, BodyTyped
  <2> QED BY <1>11, <2>1, <2>2, <2>3 DEF ThreadStep
<1> QED
  BY <1>1, <1>2, <1>4, <1>5, <1>6, <1>8, <1>9, <1>10, <1>11, SMTT(30)
    DEF Next, ServerStep, ClientStep, CapturedForever, Terminated, vars, bodyVars,
         Start, ParseRecv, ParsePiece, ParseEof, BufferBody, ParseReadFails, ParsedWithoutStream,
         ParseFailed, Dispatch, ExpectContinue, CallEcho, CallCapture, KeepAlive, Close, Upgrade, DropReader, DropQueue,
         IntoInner, HandlerReturns, DropWriter, ClientStart, ClientSend, ClientSendEarly, PutOnWire, ClientClose

(* All of this, in every reachable state. *)
LEMMA TypeInvHolds == SafeSpec => []TypeInv
<1>1. Init => ClientTyped /\ LoopTyped /\ BodyTyped
  BY ServeAssumption DEF Init, ClientTyped, LoopTyped, BodyTyped, Belongs, NoRequest, NoResponse, RequestRecords,
     Responses, Lengths
<1>2. ClientTyped /\ LoopTyped /\ BodyTyped /\ ServeInv /\ [Next]_vars => (ClientTyped /\ LoopTyped /\ BodyTyped)'
  BY ClientTypedStep, LoopTypedStep, BodyTypedStep DEF TypeInv
<1>3. ClientTyped /\ LoopTyped /\ BodyTyped /\ ServeInv => TypeInv
  BY DEF TypeInv
<1> QED BY <1>1, <1>2, <1>3, ServeInvHolds, PTL DEF SafeSpec

(* Every variable of the connection keeps its type: requests are parsed     *)
(* from what some request put on the wire, responses are responses, and no  *)
(* body expects a negative number of pieces.                                *)
THEOREM TypeCorrect == SafeSpec => []TypeOK
<1>1. TypeInv => TypeOK
  BY DEF TypeInv, ClientTyped, LoopTyped, BodyTyped, ServeInv, TypeOK, Owners, WirePieces
<1> QED BY <1>1, TypeInvHolds, PTL
=============================================================================
