-------------------------- MODULE BodyChannelProofs --------------------------
(* What TLAPS proves about BodyChannel: the streamed body of a response, for *)
(* any number of items.                                                      *)
EXTENDS BodyChannel, SequenceLemmas, TLAPS

(* What write_response has written, whether it has reached the socket or    *)
(* not; of the items that send() put into the channel, how many are still   *)
(* there and how many have been taken.                                      *)
Written == wire \o buffer
Pending == IF chan # << >> /\ chan[Len(chan)].t = "error" THEN Len(chan) - 1 ELSE Len(chan)
TakenItems == Len(produced) - Pending
InWritten(m) == \E i \in DOMAIN Written : Written[i].t = "data" /\ Written[i].id = m

(* Items are numbered in the order of send(), and the channel holds the     *)
(* last of them, perhaps with the error of abort() behind them.             *)
Channel ==
    /\ Len(produced) <= MaxItems
    /\ \A i \in DOMAIN produced : produced[i].id = i /\ produced[i].t # "error"
    /\ Pending <= Len(produced)
    /\ \A i \in 1..Pending : chan[i] = produced[TakenItems + i]
    /\ chan # << >> /\ chan[Len(chan)].t = "error" => tx = "aborted"
    /\ pc \in {"tail", "done"} => chan = << >> /\ tx # "open"
    /\ pc \in {"done", "failed"} => rx = "dropped"

(* The data that was written are the items taken from the channel, in their *)
(* order and without a gap.                                                 *)
Framed ==
    /\ \A i \in DOMAIN Written : Written[i].t = "data" => Written[i].id <= TakenItems /\ IsData(Written[i].id)
    /\ \A i, j \in DOMAIN Written :
            i < j /\ Written[i].t = "data" /\ Written[j].t = "data" => Written[i].id < Written[j].id
    /\ pc # "failed" => \A m \in 1..TakenItems : IsData(m) => InWritten(m)
    /\ \A i \in DOMAIN Written, m \in DOMAIN produced :
            Written[i].t = "data" /\ m < Written[i].id /\ IsData(m) => InWritten(m)

(* The shape of the response around the data. *)
Shape ==
    /\ pc = "head" => Written = << >>
    /\ Written = << >> => pc \in {"head", "failed"}
    /\ pc = "done" => buffer = << >>
    /\ \A i \in DOMAIN Written : Written[i].t = "head" <=> i = 1
    /\ encoding = "close" => trailers = << >> /\ \A i \in DOMAIN Written : i > 1 => Written[i].t = "data"
    /\ pc # "done" /\ ~CutShort => \A i \in DOMAIN Written : i > 1 => Written[i].t = "data"
    /\ ~CutShort =>
        \A i, j \in DOMAIN Written : 1 < i /\ i < j /\ Written[i].t # "data" => Written[j].t # "data"
    /\ \A i \in DOMAIN trailers : trailers[i].t = "trailers"
    /\ pc # "done" => \A i \in DOMAIN Written : Written[i].t # "trailers"
    /\ \A i, j \in DOMAIN Written :
            Written[i].t = "trailers" /\ Written[j].t \in {"data", "last"} => j < i

(* The client has read the head, then data, then perhaps one frame that     *)
(* ended the body, or the end of the connection.                            *)
Progress ==
    /\ link = "closed" => pc \in {"done", "failed"}
    /\ pc = "failed" => client = "gone"
    /\ client = "head" => pos = 0
    /\ pos = 0 => got = << >>
    /\ client = "body" => pos = Len(got) + 1
    /\ Len(got) = 0 \/ Len(got) < pos
    /\ \A i \in DOMAIN got : wire[i + 1].t = "data" /\ wire[i + 1].id = got[i]
    /\ client = "ended" =>
        \/ pos = Len(got) + 2 /\ wire[pos].t # "data"
        \/ pos = Len(got) + 1 /\ pos = Len(wire) /\ pc = "done"

ChannelInv == TypeOK /\ Channel /\ Framed /\ Shape /\ Progress

-----------------------------------------------------------------------------
USE ChannelAssumption DEF Ids, Mark

LEMMA InitInv == Init => ChannelInv
<1> SUFFICES ASSUME Init PROVE ChannelInv
  OBVIOUS
<1>1. Written = << >>
  BY DEF Init, Written
<1>2. TypeOK
  BY DEF Init, TypeOK
<1>3. Channel
  BY DEF Init, Channel, Pending, TakenItems
<1>4. Framed /\ Shape
  BY <1>1 DEF Init, Framed, Shape, IsData, TakenItems, Pending
<1>5. Progress
  BY DEF Init, Progress
<1> QED BY <1>2, <1>3, <1>4, <1>5 DEF ChannelInv

(* The item at the head of the channel is the next one in the order of      *)
(* send(), and taking it counts as such.                                    *)
LEMMA HeadOfChannel ==
    ASSUME TypeOK, Channel, NEW t \in {"data", "empty", "trailers"}, Taken(t), produced' = produced
    PROVE  /\ Pending > 0 /\ TakenItems + 1 \in DOMAIN produced
           /\ Head(chan) = [t |-> t, id |-> TakenItems + 1]
           /\ produced[TakenItems + 1] = Head(chan)
           /\ Pending' = Pending - 1 /\ TakenItems' = TakenItems + 1
           /\ chan' \in Seq(Sent)
           /\ \A i \in 1..Pending' : chan'[i] = produced[TakenItems' + i]
           /\ chan' # << >> => chan # << >> /\ chan'[Len(chan')] = chan[Len(chan)]
<1>0. chan \in Seq(Sent) /\ produced \in Seq(Sent) /\ Len(produced) \in Nat
  BY DEF TypeOK
<1>1. chan # << >> /\ chan[1].t = t /\ Len(chan) \in Nat /\ Len(chan) > 0 /\ chan[1] \in Sent
  BY <1>0, NonEmpty DEF Taken
<1>2. Pending \in 1..Len(chan) /\ (chan[Len(chan)].t = "error" => Len(chan) > 1)
  BY <1>1 DEF Pending
<1>3. chan[1] = produced[TakenItems + 1] /\ TakenItems + 1 \in 1..Len(produced)
  BY <1>0, <1>2 DEF TakenItems, Channel
<1>4. chan[1] = [t |-> t, id |-> TakenItems + 1]
  BY <1>0, <1>1, <1>3 DEF Sent, Channel
<1>5. /\ chan' \in Seq(Sent) /\ Len(chan') = Len(chan) - 1
      /\ \A i \in 1..(Len(chan) - 1) : chan'[i] = chan[i + 1]
  BY <1>0, <1>1, NonEmpty DEF Taken
<1>51. chan' = << >> <=> Len(chan) = 1
  BY <1>1, <1>5, EmptyLen
<1>6. chan' # << >> => chan'[Len(chan')] = chan[Len(chan)]
  BY <1>1, <1>5
<1>7. Pending' = Pending - 1
  BY <1>1, <1>2, <1>5, <1>51, <1>6 DEF Pending
<1>8. TakenItems' = TakenItems + 1
  BY <1>0, <1>2, <1>7 DEF TakenItems
<1>9. \A i \in 1..Pending' : chan'[i] = produced[TakenItems' + i]
  <2> SUFFICES ASSUME NEW i \in 1..Pending' PROVE chan'[i] = produced[TakenItems' + i]
    OBVIOUS
  <2>1. i + 1 \in 1..Pending /\ i \in 1..(Len(chan) - 1)
    BY <1>1, <1>2, <1>7
  <2>2. chan'[i] = chan[i + 1] /\ chan[i + 1] = produced[TakenItems + (i + 1)]
    BY <1>5, <2>1 DEF Channel
  <2>3. TakenItems + (i + 1) = TakenItems' + i
    BY <1>0, <1>2, <1>8 DEF TakenItems
  <2> QED BY <2>2, <2>3
<1>10. Head(chan) = chan[1] /\ TakenItems + 1 \in DOMAIN produced
  BY <1>0, <1>1, <1>3, NonEmpty
<1> QED BY <1>1, <1>2, <1>3, <1>4, <1>5, <1>6, <1>7, <1>8, <1>9, <1>10

(* No other step changes how many items have been taken, but for the drop   *)
(* of the channel with what is in it.                                       *)
LEMMA ChannelStep ==
    ASSUME TypeOK, Channel, [Next]_vars
    PROVE  Channel' /\ (NextData \/ NextEmpty \/ NextTrailers \/ WriteFails \/ TakenItems' = TakenItems)
<1> DEFINE Goal == Channel' /\ (NextData \/ NextEmpty \/ NextTrailers \/ WriteFails \/ TakenItems' = TakenItems)
<1>0. /\ chan \in Seq(Sent) /\ produced \in Seq(Sent) /\ Len(chan) \in Nat /\ Len(produced) \in Nat
      /\ DOMAIN produced = 1..Len(produced)
  BY DEF TypeOK
<1>1. ASSUME NEW t \in Items, Send(t) PROVE Goal
  <2> DEFINE item == [t |-> t, id |-> Len(produced) + 1]
  <2>1. /\ tx = "open" /\ rx = "open" /\ UNCHANGED <<tx, rx, pc>>
        /\ chan' = Append(chan, item) /\ produced' = Append(produced, item)
        /\ Len(produced) < MaxItems
    BY <1>1 DEF Send
  <2>2. item \in Sent /\ item.t # "error" /\ item.id = Len(produced) + 1
    BY <1>0, <2>1 DEF Sent
  <2> HIDE DEF item
  <2>3. /\ Len(produced') = Len(produced) + 1 /\ produced'[Len(produced) + 1] = item
        /\ \A i \in 1..Len(produced) : produced'[i] = produced[i]
        /\ DOMAIN produced' = 1..(Len(produced) + 1)
    BY <1>0, <2>1, <2>2, Appended
  <2>4. /\ Len(chan') = Len(chan) + 1 /\ chan'[Len(chan) + 1] = item
        /\ \A i \in 1..Len(chan) : chan'[i] = chan[i]
        /\ chan' # << >>
    BY <1>0, <2>1, <2>2, Appended, SMTT(30)
  <2>5. Pending = Len(chan)
    BY <2>1 DEF Channel, Pending
  <2>6. Pending' = Len(chan) + 1
    BY <2>2, <2>4 DEF Pending
  <2>7. TakenItems' = TakenItems /\ TakenItems \in Nat /\ TakenItems + Len(chan) = Len(produced)
    BY <1>0, <2>3, <2>5, <2>6 DEF TakenItems, Channel
  <2>8. \A i \in 1..Pending' : chan'[i] = produced'[TakenItems' + i]
    <3> SUFFICES ASSUME NEW i \in 1..Pending' PROVE chan'[i] = produced'[TakenItems + i]
      BY <2>7
    <3>1. CASE i = Len(chan) + 1
      BY <1>0, <2>3, <2>4, <2>7, <3>1
    <3>2. CASE i \in 1..Len(chan)
      <4>1. TakenItems + i \in 1..Len(produced) /\ chan[i] = produced[TakenItems + i]
        BY <1>0, <2>5, <2>7, <3>2 DEF Channel
      <4> QED BY <2>3, <2>4, <3>2, <4>1
    <3> QED BY <1>0, <2>6, <3>1, <3>2
  <2>9. \A i \in DOMAIN produced' : produced'[i].id = i /\ produced'[i].t # "error"
    BY <1>0, <2>2, <2>3 DEF Channel
  <2>10. chan'[Len(chan')].t # "error"
    BY <2>2, <2>4
  <2>11. Len(produced') <= MaxItems /\ Pending' <= Len(produced')
    BY <1>0, <2>1, <2>3, <2>5, <2>6 DEF Channel
  <2> QED BY <2>1, <2>7, <2>8, <2>9, <2>10, <2>11 DEF Channel
<1>2. ASSUME NEW how \in Endings, End(how) PROVE Goal
  <2>1. CASE chan' = chan
    BY <1>2, <2>1 DEF End, Channel, Pending, TakenItems
  <2>2. CASE chan' = Append(chan, Mark("error")) /\ how = "aborted"
    <3>1. Mark("error") \in Sent
      BY DEF Sent
    <3>2. /\ Len(chan') = Len(chan) + 1 /\ chan'[Len(chan) + 1].t = "error"
          /\ \A i \in 1..Len(chan) : chan'[i] = chan[i]
          /\ chan' # << >>
      BY <1>0, <2>2, <3>1, Appended
    <3>3. Pending = Len(chan) /\ Pending' = Pending
      BY <1>0, <1>2, <3>2 DEF End, Channel, Pending
    <3> QED BY <1>0, <1>2, <2>2, <3>2, <3>3 DEF End, Channel, TakenItems
  <2> QED BY <1>2, <2>1, <2>2 DEF End
<1>3. CASE NextData \/ NextEmpty \/ NextTrailers
  <2>1. PICK t \in {"data", "empty", "trailers"} : Taken(t)
    BY <1>3 DEF NextData, NextEmpty, NextTrailers
  <2>2. UNCHANGED <<produced, tx, rx, pc>> /\ pc = "next"
    BY <1>3, <2>1 DEF NextData, NextEmpty, NextTrailers, Taken
  <2>3. /\ Pending' = Pending - 1
        /\ \A i \in 1..Pending' : chan'[i] = produced[TakenItems' + i]
        /\ chan' # << >> => chan # << >> /\ chan'[Len(chan')] = chan[Len(chan)]
    BY <2>1, <2>2, HeadOfChannel
  <2>4. Pending \in Int
    BY <1>0 DEF Pending
  <2>5. Channel'
    BY <1>0, <2>2, <2>3, <2>4 DEF Channel
  <2> QED BY <1>3, <2>5
<1>4. CASE NextError
  <2>0. chan # << >> /\ chan[1].t = "error" /\ chan' = Tail(chan) /\ pc = "next"
    BY <1>0, <1>4, NonEmpty DEF NextError, Taken
  <2>1. Len(chan) \in Nat /\ Len(chan) > 0
    BY <1>0, <2>0, NonEmpty
  <2>2. Len(chan) < 2
    <3> SUFFICES ASSUME ~(Len(chan) < 2) PROVE FALSE
      OBVIOUS
    <3>1. Pending \in Nat /\ Pending > 0
      BY <2>1 DEF Pending
    <3>2. chan[1] = produced[TakenItems + 1] /\ TakenItems + 1 \in DOMAIN produced
      BY <1>0, <3>1 DEF TakenItems, Channel
    <3> QED BY <2>0, <3>2 DEF Channel
  <2>3. Pending = 0 /\ tx = "aborted"
    <3>1. PICK l \in Nat : l = Len(chan)
      BY <2>1
    <3>2. l = 1 /\ chan[l].t = "error"
      BY <2>0, <2>1, <2>2, <3>1
    <3> QED BY <2>0, <3>1, <3>2 DEF Pending, Channel
  <2>4. chan' = << >>
    BY <1>0, <2>0, <2>1, <2>2, NonEmpty, EmptyLen
  <2>5. Pending' = 0
    BY <2>4 DEF Pending
  <2> QED BY <1>0, <1>4, <2>3, <2>4, <2>5 DEF NextError, Channel, TakenItems
<1>5. CASE WriteFails
  <2>1. chan' = << >> /\ Pending' = 0
    BY <1>5 DEF WriteFails, Pending
  <2> QED BY <1>0, <1>5, <2>1 DEF WriteFails, Channel, TakenItems
<1>6. CASE UNCHANGED <<chan, produced, tx, rx, pc>>
  BY <1>6 DEF Channel, Pending, TakenItems
<1>7. CASE WriteHead \/ NoMore \/ WriteTail
  BY <1>7 DEF WriteHead, NoMore, WriteTail, Channel, Pending, TakenItems
<1> QED
  BY <1>1, <1>2, <1>3, <1>4, <1>5, <1>6, <1>7
     DEF Next, Writer, Reader, Spill, ReadHead, ReadBody, ReadEof, HangUp, Over, vars

-----------------------------------------------------------------------------
(* The frames that end a chunked body. *)
EndFrames == << Mark("last") >> \o trailers \o << Mark("crlf") >>
EmptyChunk == << Mark("last"), Mark("crlf") >>

LEMMA FrameTypes ==
    /\ Mark("head") \in Frames /\ Mark("last") \in Frames /\ Mark("crlf") \in Frames
    /\ Mark("head").t = "head" /\ Mark("last").t = "last" /\ Mark("crlf").t = "crlf"
    /\ EmptyChunk \in Seq(Frames)
    /\ TypeOK => EndFrames \in Seq(Frames)
<1>1. /\ Mark("head") \in Frames /\ Mark("last") \in Frames /\ Mark("crlf") \in Frames
      /\ Mark("head").t = "head" /\ Mark("last").t = "last" /\ Mark("crlf").t = "crlf"
  BY DEF Frames
<1> QED BY <1>1 DEF EmptyChunk, EndFrames, TypeOK

(* What each step of write_response adds to what has been written. *)
LEMMA WrittenEffect ==
    ASSUME TypeOK, Channel, [Next]_vars
    PROVE  /\ Written \in Seq(Frames)
           /\ WriteHead => Written' = Append(Written, Mark("head"))
           /\ NextData => Head(chan) \in Frames /\ Written' = Append(Written, Head(chan))
           /\ NextEmpty => Written' = IF encoding = "chunked" THEN Written \o EmptyChunk ELSE Written
           /\ WriteTail => Written' = IF encoding = "chunked" THEN Written \o EndFrames ELSE Written
           /\ WriteFails => Written' = wire
           /\ \/ WriteHead \/ NextData \/ NextEmpty \/ WriteTail \/ WriteFails
              \/ Written' = Written
<1>0. wire \in Seq(Frames) /\ buffer \in Seq(Frames) /\ trailers \in Seq(Frames)
  BY DEF TypeOK
<1>1. Written \in Seq(Frames)
  BY <1>0 DEF Written
<1>2. ASSUME WriteHead PROVE Written' = Append(Written, Mark("head"))
  BY <1>0, <1>2, FrameTypes, AppendRight DEF WriteHead, Written
<1>3. ASSUME NextData PROVE Head(chan) \in Frames /\ Written' = Append(Written, Head(chan))
  <2>1. Taken("data") /\ produced' = produced
    BY <1>3 DEF NextData
  <2>2. Head(chan) \in Frames
    <3>1. Head(chan) = [t |-> "data", id |-> TakenItems + 1] /\ TakenItems + 1 \in DOMAIN produced
      BY <2>1, HeadOfChannel
    <3>2. TakenItems + 1 \in 0..MaxItems
      <4>1. DOMAIN produced = 1..Len(produced) /\ Len(produced) \in Nat
        BY DEF TypeOK
      <4> QED BY <3>1, <4>1 DEF Channel
    <3> QED BY <3>1, <3>2 DEF Frames
  <2>3. CASE encoding = "chunked"
    <3>1. wire' = Append(Written, Head(chan)) /\ buffer' = << >>
      BY <1>0, <1>3, <2>2, <2>3, AppendRight DEF NextData, Written
    <3>2. wire' \in Seq(Frames)
      BY <1>1, <2>2, <3>1, Appended
    <3> QED BY <2>2, <3>1, <3>2, EmptyRight DEF Written
  <2>4. CASE encoding # "chunked"
    <3>1. wire' = wire /\ buffer' = Append(buffer, Head(chan))
      BY <1>3, <2>4 DEF NextData
    <3> QED BY <1>0, <2>2, <3>1, AppendRight DEF Written
  <2> QED BY <2>2, <2>3, <2>4
<1>4. ASSUME NextEmpty
      PROVE  Written' = IF encoding = "chunked" THEN Written \o EmptyChunk ELSE Written
  <2>1. CASE encoding = "chunked"
    <3>1. wire' = Written \o EmptyChunk /\ buffer' = << >>
      BY <1>4, <2>1 DEF NextEmpty, Written, EmptyChunk
    <3>2. wire' \in Seq(Frames)
      BY <1>1, <3>1, FrameTypes, Concatenated
    <3> QED BY <2>1, <3>1, <3>2, EmptyRight DEF Written
  <2>2. CASE encoding # "chunked"
    BY <1>4, <2>2 DEF NextEmpty, Written
  <2> QED BY <2>1, <2>2
<1>5. ASSUME WriteTail
      PROVE  Written' = IF encoding = "chunked" THEN Written \o EndFrames ELSE Written
  <2>1. CASE encoding = "chunked"
    <3>1. wire' = wire \o buffer \o << Mark("last") >> \o trailers \o << Mark("crlf") >> /\ buffer' = << >>
      BY <1>5, <2>1 DEF WriteTail
    <3>2. wire' = Written \o EndFrames
      <4>1. << Mark("last") >> \in Seq(Frames) /\ << Mark("crlf") >> \in Seq(Frames)
        BY FrameTypes
      <4> QED BY <1>0, <1>1, <3>1, <4>1, ConcatAssociative, SMTT(30) DEF Written, EndFrames
    <3>3. wire' \in Seq(Frames)
      BY <1>1, <3>2, FrameTypes, Concatenated
    <3> QED BY <2>1, <3>1, <3>2, <3>3, EmptyRight DEF Written
  <2>2. CASE encoding # "chunked"
    BY <1>1, <1>5, <2>2, EmptyRight DEF WriteTail, Written
  <2> QED BY <2>1, <2>2
<1>6. ASSUME WriteFails PROVE Written' = wire
  BY <1>0, <1>6, EmptyRight DEF WriteFails, Written
<1>7. ASSUME Spill PROVE Written' = Written
  BY <1>1, <1>7, EmptyRight DEF Spill, Written
<1>8. \/ WriteHead \/ NextData \/ NextEmpty \/ WriteTail \/ WriteFails \/ Written' = Written
  BY <1>7 DEF Next, Writer, Reader, Send, End, NextTrailers, NextError, NoMore,
     ReadHead, ReadBody, ReadEof, HangUp, Over, vars, Written
<1> QED BY <1>1, <1>2, <1>3, <1>4, <1>5, <1>6, <1>8

(* The frames that follow the chunks of a body. *)
LEMMA EndingFrames ==
    ASSUME TypeOK, Shape
    PROVE  /\ EndFrames \in Seq(Frames) /\ Len(EndFrames) \in Nat /\ DOMAIN EndFrames = 1..Len(EndFrames)
           /\ Len(EndFrames) > 1 /\ EndFrames[1].t = "last"
           /\ \A i \in 2..Len(EndFrames) : EndFrames[i].t \in {"trailers", "crlf"}
           /\ Len(EmptyChunk) = 2 /\ EmptyChunk[1].t = "last" /\ EmptyChunk[2].t = "crlf"
<1> DEFINE a == << Mark("last") >>
           c == << Mark("crlf") >>
<1>1. trailers \in Seq(Frames) /\ \A i \in DOMAIN trailers : trailers[i].t = "trailers"
  BY DEF TypeOK, Shape
<1>2. /\ a \in Seq(Frames) /\ c \in Seq(Frames) /\ Len(a) = 1 /\ Len(c) = 1
      /\ a[1].t = "last" /\ c[1].t = "crlf"
  BY FrameTypes
<1>3. EndFrames = (a \o trailers) \o c
  BY DEF EndFrames
<1>4. Len(EmptyChunk) = 2 /\ EmptyChunk[1].t = "last" /\ EmptyChunk[2].t = "crlf"
  BY DEF EmptyChunk
<1> HIDE DEF a, c
<1>5. /\ a \o trailers \in Seq(Frames) /\ Len(a \o trailers) = 1 + Len(trailers) /\ Len(trailers) \in Nat
      /\ DOMAIN trailers = 1..Len(trailers)
      /\ (a \o trailers)[1] = a[1]
      /\ \A i \in 1..Len(trailers) : (a \o trailers)[1 + i] = trailers[i]
  <2>1. /\ a \o trailers \in Seq(Frames) /\ Len(a \o trailers) = Len(a) + Len(trailers) /\ Len(trailers) \in Nat
        /\ \A i \in 1..Len(a) : (a \o trailers)[i] = a[i]
        /\ \A i \in 1..Len(trailers) : (a \o trailers)[Len(a) + i] = trailers[i]
    BY <1>1, <1>2, Concatenated, SMTT(30)
  <2>2. 1 \in 1..1 /\ DOMAIN trailers = 1..Len(trailers)
    BY <1>1
  <2> QED BY <1>2, <2>1, <2>2
<1>6. /\ EndFrames \in Seq(Frames) /\ Len(EndFrames) = Len(trailers) + 2 /\ DOMAIN EndFrames = 1..Len(EndFrames)
      /\ \A i \in 1..(1 + Len(trailers)) : EndFrames[i] = (a \o trailers)[i]
      /\ EndFrames[Len(trailers) + 2] = c[1]
  <2>1. /\ EndFrames \in Seq(Frames) /\ Len(EndFrames) = Len(a \o trailers) + Len(c)
        /\ DOMAIN EndFrames = 1..(Len(a \o trailers) + Len(c))
        /\ \A i \in 1..Len(a \o trailers) : EndFrames[i] = (a \o trailers)[i]
        /\ \A i \in 1..Len(c) : EndFrames[Len(a \o trailers) + i] = c[i]
    BY <1>2, <1>3, <1>5, Concatenated
  <2>2. EndFrames[(1 + Len(trailers)) + 1] = c[1]
    BY <1>2, <1>5, <2>1
  <2> QED BY <1>2, <1>5, <2>1, <2>2
<1>7. ASSUME NEW i \in 2..Len(EndFrames) PROVE EndFrames[i].t \in {"trailers", "crlf"}
  <2>1. CASE i = Len(trailers) + 2
    BY <1>2, <1>6, <2>1
  <2>2. CASE i - 1 \in 1..Len(trailers)
    <3>1. EndFrames[i] = (a \o trailers)[1 + (i - 1)]
      BY <1>5, <1>6, <2>2
    <3> QED BY <1>1, <1>5, <2>2, <3>1, SMTT(30)
  <2> QED BY <1>5, <1>6, <2>1, <2>2
<1> QED BY <1>2, <1>4, <1>5, <1>6, <1>7

(* But for a chunk of data and for a failure, a step keeps what has been    *)
(* written and adds no data to it.                                          *)
LEMMA NoDataWritten ==
    ASSUME TypeOK, Channel, Shape, [Next]_vars, ~NextData, ~WriteFails
    PROVE  /\ Written' \in Seq(Frames) /\ Len(Written) \in Nat /\ Len(Written') \in Nat
           /\ Len(Written) <= Len(Written')
           /\ DOMAIN Written = 1..Len(Written) /\ DOMAIN Written' = 1..Len(Written')
           /\ \A i \in 1..Len(Written) : Written'[i] = Written[i]
           /\ \A i \in (Len(Written) + 1)..Len(Written') : Written'[i].t # "data"
<1>0. Written \in Seq(Frames) /\ Len(Written) \in Nat /\ DOMAIN Written = 1..Len(Written)
  BY WrittenEffect
<1>1. CASE Written' = Written
  BY <1>0, <1>1
<1>2. CASE WriteHead
  <2>1. Written' = Append(Written, Mark("head"))
    BY <1>2, WrittenEffect
  <2> QED BY <1>0, <2>1, Appended, FrameTypes
<1>3. ASSUME NEW more \in Seq(Frames), Written' = Written \o more, \A i \in 1..Len(more) : more[i].t # "data"
      PROVE  /\ Written' \in Seq(Frames) /\ Len(Written') \in Nat /\ Len(Written) <= Len(Written')
             /\ DOMAIN Written' = 1..Len(Written')
             /\ \A i \in 1..Len(Written) : Written'[i] = Written[i]
             /\ \A i \in (Len(Written) + 1)..Len(Written') : Written'[i].t # "data"
  <2>1. /\ Written' \in Seq(Frames) /\ Len(more) \in Nat /\ Len(Written') = Len(Written) + Len(more)
        /\ DOMAIN Written' = 1..Len(Written')
        /\ \A i \in 1..Len(Written) : Written'[i] = Written[i]
        /\ \A i \in 1..Len(more) : Written'[Len(Written) + i] = more[i]
    BY <1>0, <1>3, Concatenated
  <2>2. ASSUME NEW i \in (Len(Written) + 1)..Len(Written') PROVE Written'[i].t # "data"
    <3>1. PICK j \in 1..Len(more) : i = Len(Written) + j
      <4>1. i - Len(Written) \in 1..Len(more) /\ i = Len(Written) + (i - Len(Written))
        BY <1>0, <2>1
      <4> QED BY <4>1
    <3> QED BY <1>3, <2>1, <3>1
  <2> QED BY <1>0, <2>1, <2>2
<1>4. CASE NextEmpty /\ Written' # Written
  <2>1. Written' = Written \o EmptyChunk
    BY <1>4, WrittenEffect
  <2>2. EmptyChunk \in Seq(Frames) /\ \A i \in 1..Len(EmptyChunk) : EmptyChunk[i].t # "data"
    <3>1. \A i \in 1..2 : i = 1 \/ i = 2
      OBVIOUS
    <3> QED BY <1>0, <3>1, EndingFrames, FrameTypes
  <2> HIDE DEF EmptyChunk
  <2> QED BY <1>0, <1>3, <2>1, <2>2
<1>5. CASE WriteTail /\ Written' # Written
  <2>1. Written' = Written \o EndFrames
    BY <1>5, WrittenEffect
  <2>2. EndFrames \in Seq(Frames) /\ \A i \in 1..Len(EndFrames) : EndFrames[i].t # "data"
    BY EndingFrames
  <2> QED BY <1>0, <1>3, <2>1, <2>2
<1> QED BY <1>1, <1>2, <1>4, <1>5, WrittenEffect

LEMMA Counts ==
    ASSUME TypeOK, Channel
    PROVE  /\ produced \in Seq(Sent) /\ Len(produced) \in Nat /\ DOMAIN produced = 1..Len(produced)
           /\ Len(chan) \in Nat /\ Pending \in Nat /\ TakenItems \in 0..Len(produced)
<1>1. chan \in Seq(Sent) /\ produced \in Seq(Sent)
  BY DEF TypeOK
<1>2. Pending \in Nat /\ Len(chan) \in Nat
  <2>1. chan # << >> => Len(chan) \in Nat /\ Len(chan) > 0
    BY <1>1, NonEmpty
  <2> QED BY <1>1, <2>1 DEF Pending
<1> QED BY <1>1, <1>2 DEF TakenItems, Channel

(* What a step does to the items that were sent and taken, when it is not   *)
(* the taking of a chunk of data or the end of a failed response.           *)
LEMMA NoDataTaken ==
    ASSUME TypeOK, Channel, [Next]_vars, ~NextData, ~WriteFails
    PROVE  /\ TakenItems' \in Nat /\ TakenItems <= TakenItems'
           /\ Len(produced) <= Len(produced') /\ DOMAIN produced' = 1..Len(produced')
           /\ \A m \in DOMAIN produced : IsData(m)' <=> IsData(m)
           /\ \A m \in (TakenItems + 1)..TakenItems' : ~IsData(m)'
           /\ pc = "failed" <=> pc' = "failed"
<1>0. /\ produced \in Seq(Sent) /\ Len(produced) \in Nat /\ DOMAIN produced = 1..Len(produced)
      /\ TakenItems \in 0..Len(produced)
  BY Counts
<1>1. pc = "failed" <=> pc' = "failed"
  BY DEF Next, Writer, Reader, Spill, Send, End, WriteHead, NextEmpty, NextTrailers, NextError, NoMore, WriteTail,
     ReadHead, ReadBody, ReadEof, HangUp, Over, vars, Taken
<1>2. ASSUME NEW t \in Items, Send(t)
      PROVE  /\ Len(produced) <= Len(produced') /\ DOMAIN produced' = 1..Len(produced')
             /\ \A m \in DOMAIN produced : IsData(m)' <=> IsData(m)
  <2>1. [t |-> t, id |-> Len(produced) + 1] \in Sent /\ produced' = Append(produced, [t |-> t, id |-> Len(produced) + 1])
    BY <1>0, <1>2 DEF Send, Sent
  <2>2. /\ Len(produced') = Len(produced) + 1 /\ DOMAIN produced' = 1..(Len(produced) + 1)
        /\ \A i \in 1..Len(produced) : produced'[i] = produced[i]
    BY <1>0, <2>1, Appended
  <2> QED BY <1>0, <2>2 DEF IsData
<1>3. (\E t \in Items : Send(t)) \/ produced' = produced
  BY DEF Next, Writer, Reader, Spill, End, WriteHead, NextEmpty, NextTrailers, NextError, NoMore, WriteTail,
     ReadHead, ReadBody, ReadEof, HangUp, Over, vars, NextData, WriteFails
<1>4. /\ Len(produced) <= Len(produced') /\ DOMAIN produced' = 1..Len(produced')
      /\ \A m \in DOMAIN produced : IsData(m)' <=> IsData(m)
  <2>1. CASE produced' = produced
    BY <1>0, <2>1 DEF IsData
  <2> QED BY <1>2, <1>3, <2>1
<1>5. CASE TakenItems' = TakenItems
  BY <1>0, <1>1, <1>4, <1>5
<1>6. CASE NextEmpty \/ NextTrailers
  <2>1. PICK t \in {"empty", "trailers"} : Taken(t) /\ produced' = produced
    BY <1>6 DEF NextEmpty, NextTrailers
  <2>2. /\ TakenItems' = TakenItems + 1
        /\ Head(chan) = [t |-> t, id |-> TakenItems + 1]
        /\ produced[TakenItems + 1] = Head(chan)
    BY <2>1, HeadOfChannel
  <2>3. \A m \in (TakenItems + 1)..TakenItems' : ~IsData(m)'
    <3> SUFFICES ASSUME NEW m \in (TakenItems + 1)..TakenItems' PROVE ~IsData(m)'
      OBVIOUS
    <3>1. m = TakenItems + 1
      BY <1>0, <2>2
    <3>2. produced'[m].t = t
      BY <2>1, <2>2, <3>1
    <3> QED BY <3>2 DEF IsData
  <2> QED BY <1>0, <1>1, <1>4, <2>2, <2>3
<1> QED BY <1>5, <1>6, ChannelStep

(* The data on the wire stays what was taken from the channel. *)
LEMMA FramedStep == ChannelInv /\ [Next]_vars => Framed'
<1> SUFFICES ASSUME ChannelInv, [Next]_vars PROVE Framed'
  OBVIOUS
<1>0. TypeOK /\ Channel /\ Framed /\ Shape
  BY DEF ChannelInv
<1>1. /\ Written \in Seq(Frames) /\ Len(Written) \in Nat /\ DOMAIN Written = 1..Len(Written)
      /\ produced \in Seq(Sent) /\ Len(produced) \in Nat /\ DOMAIN produced = 1..Len(produced)
      /\ TakenItems \in 0..Len(produced) /\ Len(chan) \in Nat
  BY <1>0, WrittenEffect, Counts
<1>2. CASE ~NextData /\ ~WriteFails
  <2>1. /\ Len(Written) <= Len(Written') /\ DOMAIN Written' = 1..Len(Written') /\ Len(Written') \in Nat
        /\ \A i \in 1..Len(Written) : Written'[i] = Written[i]
        /\ \A i \in (Len(Written) + 1)..Len(Written') : Written'[i].t # "data"
    BY <1>0, <1>2, NoDataWritten
  <2>2. /\ TakenItems' \in Nat /\ TakenItems <= TakenItems'
        /\ Len(produced) <= Len(produced') /\ DOMAIN produced' = 1..Len(produced')
        /\ \A m \in DOMAIN produced : IsData(m)' <=> IsData(m)
        /\ \A m \in (TakenItems + 1)..TakenItems' : ~IsData(m)'
        /\ pc = "failed" <=> pc' = "failed"
    BY <1>0, <1>2, NoDataTaken
  <2>3. \A i \in DOMAIN Written' : Written'[i].t = "data" => i \in DOMAIN Written /\ Written'[i] = Written[i]
    BY <1>1, <2>1
  <2>4. \A m : InWritten(m) => InWritten(m)'
    BY <1>1, <2>1 DEF InWritten
  <2>5. \A i \in DOMAIN Written : Written[i].t = "data" =>
            Written[i].id \in 1..TakenItems /\ IsData(Written[i].id)
    BY <1>0, <1>1 DEF Framed, IsData
  <2>6. (\A i \in DOMAIN Written : Written[i].t = "data" => Written[i].id <= TakenItems /\ IsData(Written[i].id))'
    <3> SUFFICES ASSUME NEW i \in DOMAIN Written', Written'[i].t = "data"
                 PROVE  (Written[i].id <= TakenItems /\ IsData(Written[i].id))'
      OBVIOUS
    <3>1. PICK d : d = Written'[i].id
      OBVIOUS
    <3>2. d \in 1..TakenItems /\ IsData(d) /\ d \in DOMAIN produced
      BY <1>1, <2>3, <2>5, <3>1
    <3>3. d <= TakenItems' /\ IsData(d)'
      BY <1>1, <2>2, <3>2
    <3> QED BY <3>1, <3>3
  <2>7. \A i, j \in DOMAIN Written' :
            i < j /\ Written'[i].t = "data" /\ Written'[j].t = "data" => Written'[i].id < Written'[j].id
    BY <1>0, <2>3 DEF Framed
  <2>8. ASSUME pc' # "failed", NEW m \in 1..TakenItems', IsData(m)' PROVE InWritten(m)'
    <3>1. m \in 1..TakenItems /\ m \in DOMAIN produced
      BY <1>1, <2>2, <2>8
    <3> QED BY <1>0, <2>2, <2>4, <2>8, <3>1 DEF Framed
  <2>9. ASSUME NEW i \in DOMAIN Written', NEW m \in DOMAIN produced',
               Written'[i].t = "data", m < Written'[i].id, IsData(m)'
        PROVE  InWritten(m)'
    <3>1. i \in DOMAIN Written /\ Written'[i] = Written[i]
      BY <2>3, <2>9
    <3>2. m \in DOMAIN produced
      BY <1>1, <2>2, <2>5, <2>9, <3>1
    <3> QED BY <1>0, <2>2, <2>4, <2>9, <3>1, <3>2 DEF Framed
  <2> QED BY <2>6, <2>7, <2>8, <2>9 DEF Framed
<1>3. CASE NextData
  <2>1. Taken("data") /\ produced' = produced /\ pc' = pc /\ pc = "next"
    BY <1>3 DEF NextData, Taken
  <2>a. PICK new : new = TakenItems + 1
    OBVIOUS
  <2>2. /\ new \in DOMAIN produced /\ Head(chan) = [t |-> "data", id |-> new]
        /\ produced[new] = Head(chan) /\ TakenItems' = new
    BY <1>0, <2>1, <2>a, HeadOfChannel
  <2>3. Written' = Append(Written, Head(chan)) /\ Head(chan) \in Frames
    BY <1>0, <1>3, WrittenEffect
  <2>4. /\ DOMAIN Written' = 1..(Len(Written) + 1)
        /\ \A i \in 1..Len(Written) : Written'[i] = Written[i]
        /\ Written'[Len(Written) + 1] = [t |-> "data", id |-> new]
    BY <1>1, <2>2, <2>3, Appended
  <2>5. IsData(new) /\ \A m : IsData(m)' <=> IsData(m)
    BY <2>1, <2>2 DEF IsData
  <2>6. \A m : InWritten(m) => InWritten(m)'
    BY <1>1, <2>4 DEF InWritten
  <2>7. InWritten(new)'
    BY <1>1, <2>4 DEF InWritten
  <2>8. (\A i \in DOMAIN Written : Written[i].t = "data" => Written[i].id <= TakenItems /\ IsData(Written[i].id))'
    <3> SUFFICES ASSUME NEW i \in DOMAIN Written', Written'[i].t = "data"
                 PROVE  (Written[i].id <= TakenItems /\ IsData(Written[i].id))'
      OBVIOUS
    <3>1. PICK d : d = Written'[i].id
      OBVIOUS
    <3>2. CASE i = Len(Written) + 1
      BY <1>1, <2>2, <2>4, <2>5, <2>a, <3>1, <3>2
    <3>3. CASE i \in DOMAIN Written
      <4>1. d <= TakenItems /\ IsData(d) /\ d \in DOMAIN produced
        BY <1>0, <1>1, <2>4, <3>1, <3>3 DEF Framed, IsData
      <4> QED BY <1>1, <2>2, <2>5, <2>a, <3>1, <4>1
    <3> QED BY <1>1, <2>4, <3>2, <3>3
  <2>9. \A i, j \in DOMAIN Written' :
            i < j /\ Written'[i].t = "data" /\ Written'[j].t = "data" => Written'[i].id < Written'[j].id
    <3> SUFFICES ASSUME NEW i \in DOMAIN Written', NEW j \in DOMAIN Written', i < j,
                        Written'[i].t = "data", Written'[j].t = "data"
                 PROVE  Written'[i].id < Written'[j].id
      OBVIOUS
    <3>1. i \in DOMAIN Written /\ Written'[i] = Written[i]
      BY <1>1, <2>4
    <3>2. Written[i].id <= TakenItems /\ Written[i].id \in Nat
      BY <1>0, <1>1, <3>1 DEF Framed, IsData
    <3>3. CASE j = Len(Written) + 1
      BY <1>1, <2>4, <2>a, <3>1, <3>2, <3>3
    <3>4. CASE j \in DOMAIN Written
      BY <1>0, <1>1, <2>4, <3>1, <3>4 DEF Framed
    <3> QED BY <1>1, <2>4, <3>3, <3>4
  <2>10. \A m \in 1..TakenItems' : IsData(m)' => InWritten(m)'
    BY <1>0, <1>1, <2>1, <2>2, <2>5, <2>6, <2>7, <2>a DEF Framed
  <2>11. ASSUME NEW i \in DOMAIN Written', NEW m \in DOMAIN produced',
                Written'[i].t = "data", m < Written'[i].id, IsData(m)'
         PROVE  InWritten(m)'
    <3>1. m \in 1..TakenItems'
      <4>1. Written'[i].id <= TakenItems' /\ Written'[i].id \in DOMAIN produced
        BY <2>1, <2>8, <2>11 DEF IsData
      <4> QED BY <1>1, <2>1, <2>2, <2>11, <2>a, <4>1
    <3> QED BY <2>10, <2>11, <3>1
  <2> QED BY <2>8, <2>9, <2>10, <2>11 DEF Framed
<1>4. CASE WriteFails
  <2>1. pc' = "failed" /\ produced' = produced /\ chan' = << >>
    BY <1>4 DEF WriteFails
  <2>2. wire \in Seq(Frames) /\ buffer \in Seq(Frames) /\ Written' = wire
    BY <1>0, <1>4, WrittenEffect DEF TypeOK
  <2>3. /\ Len(wire) \in Nat /\ Len(wire) <= Len(Written) /\ DOMAIN wire = 1..Len(wire)
        /\ \A i \in 1..Len(wire) : Written[i] = wire[i]
    BY <2>2, Concatenated DEF Written
  <2>4. TakenItems' = Len(produced)
    BY <1>1, <2>1 DEF TakenItems, Pending
  <2>5. \A m : IsData(m)' <=> IsData(m)
    BY <2>1 DEF IsData
  <2>6. (\A i \in DOMAIN Written : Written[i].t = "data" => Written[i].id <= TakenItems /\ IsData(Written[i].id))'
    <3> SUFFICES ASSUME NEW i \in DOMAIN wire, wire[i].t = "data"
                 PROVE  wire[i].id <= Len(produced) /\ (IsData(Written[i].id))'
      BY <2>2, <2>4
    <3>1. PICK d : d = wire[i].id
      OBVIOUS
    <3>2. d <= TakenItems /\ IsData(d)
      BY <1>0, <1>1, <2>3, <3>1 DEF Framed
    <3> QED BY <1>1, <2>1, <2>2, <3>1, <3>2 DEF IsData
  <2>7. \A i, j \in DOMAIN Written' :
            i < j /\ Written'[i].t = "data" /\ Written'[j].t = "data" => Written'[i].id < Written'[j].id
    BY <1>0, <1>1, <2>2, <2>3 DEF Framed
  <2>8. ASSUME NEW i \in DOMAIN Written', NEW m \in DOMAIN produced',
               Written'[i].t = "data", m < Written'[i].id, IsData(m)'
        PROVE  InWritten(m)'
    <3>1. i \in DOMAIN Written /\ Written[i] = wire[i] /\ i \in 1..Len(wire) /\ Written'[i] = Written[i]
      BY <1>1, <2>2, <2>3
    <3>2. InWritten(m)
      BY <1>0, <2>1, <2>5, <2>8, <3>1 DEF Framed
    <3>3. PICK j \in DOMAIN Written : Written[j].t = "data" /\ Written[j].id = m
      BY <3>2 DEF InWritten
    <3>4. j \in DOMAIN wire /\ Written'[j] = Written[j]
      <4>1. ~ (i < j)
        <5>1. i < j => Written[i].id < m
          BY <1>0, <2>8, <3>1, <3>3 DEF Framed
        <5>2. Written[i].id \in Nat /\ m \in Nat /\ m < Written[i].id
          BY <1>0, <1>1, <2>1, <2>8, <3>1 DEF Framed, IsData
        <5> QED BY <5>1, <5>2
      <4> QED BY <1>1, <2>2, <2>3, <3>1, <4>1
    <3> QED BY <2>2, <3>3, <3>4 DEF InWritten
  <2> QED BY <2>1, <2>6, <2>7, <2>8 DEF Framed
<1> QED BY <1>2, <1>3, <1>4

-----------------------------------------------------------------------------
(* A body once cut short stays so, and an empty chunk cuts it short. *)
LEMMA CutShortStays ==
    ASSUME TypeOK, Channel, [Next]_vars, ~CutShort'
    PROVE  ~CutShort /\ (NextEmpty => encoding # "chunked")
<1>0. /\ produced \in Seq(Sent) /\ Len(produced) \in Nat /\ DOMAIN produced = 1..Len(produced)
  BY Counts
<1>1. encoding' = encoding
  BY DEF Next, Writer, Reader, Spill, Send, End, WriteHead, NextData, NextEmpty, NextTrailers, NextError, NoMore,
     WriteTail, WriteFails, ReadHead, ReadBody, ReadEof, HangUp, Over, vars
<1>2. CASE produced' = produced
  <2>1. ~CutShort
    BY <1>1, <1>2 DEF CutShort
  <2>2. ASSUME NextEmpty PROVE encoding # "chunked"
    <3>1. TakenItems + 1 \in DOMAIN produced /\ produced[TakenItems + 1].t = "empty"
      BY <1>2, <2>2, HeadOfChannel DEF NextEmpty
    <3> QED BY <2>1, <3>1 DEF CutShort
  <2> QED BY <2>1, <2>2
<1>3. ASSUME NEW t \in Items, Send(t) PROVE ~CutShort /\ ~NextEmpty
  <2>1. [t |-> t, id |-> Len(produced) + 1] \in Sent /\ produced' = Append(produced, [t |-> t, id |-> Len(produced) + 1])
    BY <1>0, <1>3 DEF Send, Sent
  <2>2. /\ DOMAIN produced' = 1..(Len(produced) + 1) /\ Len(produced') = Len(produced) + 1
        /\ \A i \in 1..Len(produced) : produced'[i] = produced[i]
    BY <1>0, <2>1, Appended
  <2>3. ~NextEmpty
    BY <1>0, <2>2 DEF NextEmpty
  <2> QED BY <1>0, <1>1, <2>2, <2>3 DEF CutShort
<1>4. (\E t \in Items : Send(t)) \/ produced' = produced
  BY DEF Next, Writer, Reader, Spill, End, WriteHead, NextData, NextEmpty, NextTrailers, NextError, NoMore,
     WriteTail, WriteFails, ReadHead, ReadBody, ReadEof, HangUp, Over, vars
<1> QED BY <1>2, <1>3, <1>4

LEMMA ShapeStep == ChannelInv /\ [Next]_vars => Shape'
<1> SUFFICES ASSUME ChannelInv, [Next]_vars PROVE Shape'
  OBVIOUS
<1>0. TypeOK /\ Channel /\ Shape
  BY DEF ChannelInv
<1>1. /\ Written \in Seq(Frames) /\ Len(Written) \in Nat /\ DOMAIN Written = 1..Len(Written)
      /\ Written = << >> <=> Len(Written) = 0
  BY <1>0, WrittenEffect, EmptyLen
<1>2. /\ encoding' = encoding /\ encoding \in {"chunked", "close"}
      /\ ~CutShort' => ~CutShort
  <2>1. encoding \in {"chunked", "close"}
    BY <1>0 DEF TypeOK
  <2>2. encoding' = encoding
    BY DEF Next, Writer, Reader, Spill, Send, End, WriteHead, NextData, NextEmpty, NextTrailers, NextError, NoMore,
       WriteTail, WriteFails, ReadHead, ReadBody, ReadEof, HangUp, Over, vars
  <2> QED BY <1>0, <2>1, <2>2, CutShortStays
<1>3. (trailers \in Seq(Frames))' /\ (\A i \in DOMAIN trailers : trailers[i].t = "trailers")'
      /\ (encoding = "close" => trailers = << >>)'
  <2>1. CASE trailers' = trailers
    BY <1>0, <1>2, <2>1 DEF Shape, TypeOK
  <2>2. CASE NextTrailers /\ encoding = "chunked"
    <3>1. Head(chan) = [t |-> "trailers", id |-> TakenItems + 1] /\ TakenItems + 1 \in DOMAIN produced
      BY <1>0, <2>2, HeadOfChannel DEF NextTrailers
    <3>2. TakenItems + 1 \in 0..MaxItems
      BY <1>0, <3>1, Counts DEF Channel
    <3>3. Head(chan) \in Frames /\ Head(chan).t = "trailers"
      BY <3>1, <3>2 DEF Frames
    <3>4. trailers' = Append(trailers, Head(chan)) /\ trailers \in Seq(Frames)
      BY <1>0, <2>2 DEF NextTrailers, TypeOK
    <3>5. /\ trailers' \in Seq(Frames) /\ Len(trailers) \in Nat /\ DOMAIN trailers = 1..Len(trailers)
          /\ DOMAIN trailers' = 1..(Len(trailers) + 1) /\ trailers'[Len(trailers) + 1] = Head(chan)
          /\ \A i \in 1..Len(trailers) : trailers'[i] = trailers[i]
      BY <3>3, <3>4, Appended
    <3>6. \A i \in DOMAIN trailers' : trailers'[i].t = "trailers"
      BY <1>0, <3>3, <3>5 DEF Shape
    <3> QED BY <1>2, <2>2, <3>5, <3>6
  <2>3. trailers' = trailers \/ (NextTrailers /\ encoding = "chunked")
    BY DEF Next, Writer, Reader, Spill, Send, End, WriteHead, NextData, NextEmpty, NextTrailers, NextError, NoMore,
       WriteTail, WriteFails, ReadHead, ReadBody, ReadEof, HangUp, Over, vars
  <2> QED BY <2>1, <2>2, <2>3
<1>4. CASE Written' = Written /\ ~WriteTail /\ ~WriteHead /\ ~WriteFails
  <2>1. /\ pc = "head" <=> pc' = "head"
        /\ pc = "done" <=> pc' = "done"
        /\ pc = "failed" <=> pc' = "failed"
        /\ pc = "done" => buffer' = buffer
    BY <1>4 DEF Next, Writer, Reader, Spill, Send, End, NextData, NextEmpty, NextTrailers, NextError, NoMore,
       ReadHead, ReadBody, ReadEof, HangUp, Over, vars, Taken
  <2> QED BY <1>0, <1>2, <1>3, <1>4, <2>1 DEF Shape
<1>5. CASE WriteHead
  <2>1. Written' = Append(Written, Mark("head")) /\ Len(Written) = 0 /\ pc' = "next"
    BY <1>0, <1>1, <1>5, WrittenEffect DEF Shape, WriteHead
  <2>2. Written' # << >> /\ DOMAIN Written' = 1..1 /\ Written'[1].t = "head"
    BY <1>1, <2>1, FrameTypes, Appended
  <2>3. \A i \in DOMAIN Written' : i = 1
    BY <2>2
  <2> QED BY <1>3, <2>1, <2>2, <2>3 DEF Shape
<1>6. CASE NextData
  <2>1. /\ Written' = Append(Written, Head(chan)) /\ Head(chan) \in Frames /\ Head(chan).t = "data"
        /\ pc' = "next" /\ pc = "next" /\ Len(Written) > 0
    BY <1>0, <1>1, <1>6, WrittenEffect DEF Shape, NextData, Taken
  <2>2. /\ Written' # << >> /\ DOMAIN Written' = 1..(Len(Written) + 1)
        /\ Written'[Len(Written) + 1].t = "data"
        /\ \A i \in 1..Len(Written) : Written'[i] = Written[i]
    BY <1>1, <2>1, Appended
  <2>3. \A i \in DOMAIN Written' : Written'[i].t = "head" <=> i = 1
    BY <1>0, <1>1, <2>1, <2>2 DEF Shape
  <2>4. encoding = "close" \/ ~CutShort' => \A i \in DOMAIN Written' : i > 1 => Written'[i].t = "data"
    BY <1>0, <1>1, <1>2, <2>1, <2>2 DEF Shape
  <2>5. \A i \in DOMAIN Written' : Written'[i].t # "trailers"
    BY <1>0, <1>1, <2>1, <2>2 DEF Shape
  <2> QED BY <1>2, <1>3, <2>1, <2>2, <2>3, <2>4, <2>5 DEF Shape
<1>7. CASE NextEmpty /\ Written' # Written
  <2>1. /\ Written' = Written \o EmptyChunk /\ encoding = "chunked" /\ CutShort'
        /\ pc' = "next" /\ pc = "next" /\ Len(Written) > 0
    <3>1. pc = "next" /\ pc' = "next"
      BY <1>7 DEF NextEmpty, Taken
    <3>2. Written' = Written \o EmptyChunk /\ encoding = "chunked"
      BY <1>0, <1>7, WrittenEffect
    <3>3. CutShort'
      BY <1>0, <1>7, <3>2, CutShortStays
    <3>4. Len(Written) > 0
      BY <1>0, <1>1, <3>1 DEF Shape
    <3> QED BY <3>1, <3>2, <3>3, <3>4
  <2>2. EmptyChunk \in Seq(Frames) /\ Len(EmptyChunk) = 2 /\ EmptyChunk[1].t = "last" /\ EmptyChunk[2].t = "crlf"
    BY <1>0, FrameTypes, EndingFrames
  <2>3. /\ DOMAIN Written' = 1..(Len(Written) + 2) /\ Len(Written') = Len(Written) + 2
        /\ \A i \in 1..Len(Written) : Written'[i] = Written[i]
        /\ \A i \in 1..2 : Written'[Len(Written) + i] = EmptyChunk[i]
    <3>1. /\ DOMAIN Written' = 1..(Len(Written) + Len(EmptyChunk)) /\ Len(Written') = Len(Written) + Len(EmptyChunk)
          /\ \A i \in 1..Len(Written) : Written'[i] = Written[i]
          /\ \A i \in 1..Len(EmptyChunk) : Written'[Len(Written) + i] = EmptyChunk[i]
      <4>1. PICK e \in Seq(Frames) : e = EmptyChunk
        BY <2>2
      <4>2. /\ Len(Written \o e) = Len(Written) + Len(e) /\ DOMAIN (Written \o e) = 1..(Len(Written) + Len(e))
            /\ \A i \in 1..Len(Written) : (Written \o e)[i] = Written[i]
            /\ \A i \in 1..Len(e) : (Written \o e)[Len(Written) + i] = e[i]
        BY <1>1, Concatenated
      <4> QED BY <2>1, <4>1, <4>2
    <3> QED BY <2>2, <3>1
  <2>4. /\ Written'[Len(Written) + 1].t = "last" /\ Written'[Len(Written) + 2].t = "crlf"
        /\ Written' # << >>
    <3>1. 1 \in 1..2 /\ 2 \in 1..2
      OBVIOUS
    <3> QED BY <1>1, <2>2, <2>3, <3>1
  <2>5. \A i \in DOMAIN Written' : Written'[i].t = "head" <=> i = 1
    BY <1>0, <1>1, <2>1, <2>3, <2>4 DEF Shape
  <2>6. \A i \in DOMAIN Written' : Written'[i].t # "trailers"
    BY <1>0, <1>1, <2>1, <2>3, <2>4 DEF Shape
  <2> QED BY <1>2, <1>3, <2>1, <2>4, <2>5, <2>6 DEF Shape
<1>8. CASE WriteTail
  <2>1. pc = "tail" /\ pc' = "done" /\ buffer' = << >> /\ Len(Written) > 0
    BY <1>0, <1>1, <1>8 DEF Shape, WriteTail
  <2>2. CASE encoding # "chunked"
    <3>1. Written' = Written
      BY <1>0, <1>8, <2>2, WrittenEffect
    <3> QED BY <1>0, <1>2, <1>3, <2>1, <2>2, <3>1 DEF Shape
  <2>3. CASE encoding = "chunked"
    <3>1. Written' = Written \o EndFrames
      BY <1>0, <1>8, <2>3, WrittenEffect
    <3>2. /\ EndFrames \in Seq(Frames) /\ Len(EndFrames) \in Nat /\ Len(EndFrames) > 1 /\ EndFrames[1].t = "last"
          /\ \A i \in 2..Len(EndFrames) : EndFrames[i].t \in {"trailers", "crlf"}
      BY <1>0, EndingFrames
    <3>3. /\ DOMAIN Written' = 1..(Len(Written) + Len(EndFrames)) /\ Len(Written') = Len(Written) + Len(EndFrames)
          /\ \A i \in 1..Len(Written) : Written'[i] = Written[i]
          /\ \A i \in 1..Len(EndFrames) : Written'[Len(Written) + i] = EndFrames[i]
      BY <1>1, <3>1, <3>2, Concatenated
    <3>4. \A i \in DOMAIN Written' :
            \/ i \in DOMAIN Written /\ Written'[i] = Written[i]
            \/ i = Len(Written) + 1 /\ Written'[i].t = "last"
            \/ i > Len(Written) + 1 /\ Written'[i].t \in {"trailers", "crlf"}
      <4> SUFFICES ASSUME NEW i \in DOMAIN Written', i \notin DOMAIN Written
                   PROVE  \/ i = Len(Written) + 1 /\ Written'[i].t = "last"
                          \/ i > Len(Written) + 1 /\ Written'[i].t \in {"trailers", "crlf"}
        BY <1>1, <3>3
      <4>1. i - Len(Written) \in 1..Len(EndFrames) /\ Len(Written) + (i - Len(Written)) = i
        BY <1>1, <3>2, <3>3
      <4>2. Written'[i] = EndFrames[i - Len(Written)]
        BY <3>3, <4>1
      <4>3. CASE i - Len(Written) = 1
        BY <1>1, <3>2, <4>1, <4>2, <4>3
      <4>4. CASE i - Len(Written) \in 2..Len(EndFrames)
        BY <1>1, <3>2, <3>3, <4>1, <4>2, <4>4
      <4> QED BY <3>2, <4>1, <4>3, <4>4
    <3>5. DOMAIN Written' \subseteq Nat /\ Written' # << >>
      BY <1>1, <3>2, <3>3
    <3>6. \A i \in DOMAIN Written' : Written'[i].t = "head" <=> i = 1
      BY <1>0, <1>1, <2>1, <3>3, <3>4 DEF Shape
    <3>7. ~CutShort' =>
            \A i, j \in DOMAIN Written' : 1 < i /\ i < j /\ Written'[i].t # "data" => Written'[j].t # "data"
      <4> SUFFICES ASSUME ~CutShort', NEW i \in DOMAIN Written', NEW j \in DOMAIN Written', 1 < i, i < j,
                          Written'[i].t # "data"
                   PROVE  Written'[j].t # "data"
        OBVIOUS
      <4>1. i \notin DOMAIN Written
        BY <1>0, <1>2, <2>1, <3>4 DEF Shape
      <4> QED BY <1>1, <3>3, <3>4, <3>5, <4>1
    <3>8. \A i, j \in DOMAIN Written' :
            Written'[i].t = "trailers" /\ Written'[j].t \in {"data", "last"} => j < i
      <4> SUFFICES ASSUME NEW i \in DOMAIN Written', NEW j \in DOMAIN Written',
                          Written'[i].t = "trailers", Written'[j].t \in {"data", "last"}
                   PROVE  j < i
        OBVIOUS
      <4>1. i > Len(Written) + 1
        BY <1>0, <2>1, <3>4 DEF Shape
      <4>2. j <= Len(Written) + 1
        BY <1>1, <3>4, <3>5
      <4> QED BY <1>1, <3>5, <4>1, <4>2
    <3> QED BY <1>2, <1>3, <2>1, <2>3, <3>5, <3>6, <3>7, <3>8 DEF Shape
  <2> QED BY <2>2, <2>3
<1>9. CASE WriteFails
  <2>1. pc' = "failed" /\ pc # "done"
    BY <1>9 DEF WriteFails, Writing
  <2>2. wire \in Seq(Frames) /\ buffer \in Seq(Frames) /\ Written' = wire
    BY <1>0, <1>9, WrittenEffect DEF TypeOK
  <2>3. DOMAIN Written' \subseteq DOMAIN Written /\ \A i \in DOMAIN Written' : Written'[i] = Written[i]
    BY <1>1, <2>2, Concatenated DEF Written
  <2> QED BY <1>0, <1>2, <1>3, <2>1, <2>3 DEF Shape
<1> QED BY <1>0, <1>4, <1>5, <1>6, <1>7, <1>8, <1>9, WrittenEffect

-----------------------------------------------------------------------------
(* Bytes that have gone out stay: the wire only grows, and not after the    *)
(* response is over.                                                        *)
LEMMA WireGrows ==
    ASSUME ChannelInv, [Next]_vars
    PROVE  /\ wire' \in Seq(Frames) /\ buffer' \in Seq(Frames)
           /\ Len(wire) \in Nat /\ Len(wire') \in Nat /\ Len(wire) <= Len(wire')
           /\ \A i \in 1..Len(wire) : wire'[i] = wire[i]
           /\ pc \in {"done", "failed"} => wire' = wire /\ pc' = pc
<1> DEFINE Goal == /\ wire' \in Seq(Frames) /\ buffer' \in Seq(Frames)
                   /\ Len(wire) \in Nat /\ Len(wire') \in Nat /\ Len(wire) <= Len(wire')
                   /\ \A i \in 1..Len(wire) : wire'[i] = wire[i]
<1>9. pc \in {"done", "failed"} => wire' = wire /\ pc' = pc
  BY DEF Next, Writer, Reader, Spill, Send, End, WriteHead, NextData, NextEmpty, NextTrailers, NextError, NoMore,
     WriteTail, WriteFails, Writing, ReadHead, ReadBody, ReadEof, HangUp, Over, vars, Taken
<1> SUFFICES Goal
  BY <1>9
<1>0. wire \in Seq(Frames) /\ buffer \in Seq(Frames) /\ << >> \in Seq(Frames) /\ TypeOK /\ Channel /\ Shape
  BY DEF ChannelInv, TypeOK
<1>1. ASSUME NEW more \in Seq(Frames), wire' = (wire \o buffer) \o more, buffer' = << >> PROVE Goal
  <2>1. /\ wire \o buffer \in Seq(Frames) /\ Len(wire) \in Nat /\ Len(buffer) \in Nat
        /\ Len(wire \o buffer) = Len(wire) + Len(buffer)
        /\ \A i \in 1..Len(wire) : (wire \o buffer)[i] = wire[i]
    BY <1>0, Concatenated
  <2>2. /\ wire' \in Seq(Frames) /\ Len(more) \in Nat
        /\ Len(wire') = Len(wire \o buffer) + Len(more)
        /\ \A i \in 1..Len(wire \o buffer) : wire'[i] = (wire \o buffer)[i]
    BY <1>1, <2>1, Concatenated
  <2> QED BY <1>0, <1>1, <2>1, <2>2
<1>2. CASE wire' = wire /\ buffer' \in Seq(Frames)
  BY <1>0, <1>2
<1>3. CASE wire' = wire \o buffer /\ buffer' = << >>
  BY <1>0, <1>1, <1>3, Concatenated, EmptyRight
<1>4. CASE NextData
  <2>1. Head(chan) \in Frames
    BY <1>0, <1>4, WrittenEffect
  <2>2. CASE encoding = "chunked"
    <3>1. wire' = (wire \o buffer) \o << Head(chan) >> /\ buffer' = << >> /\ << Head(chan) >> \in Seq(Frames)
      BY <1>4, <2>1, <2>2 DEF NextData
    <3> QED BY <1>1, <3>1
  <2>3. CASE encoding # "chunked"
    <3>1. wire' = wire /\ buffer' = Append(buffer, Head(chan))
      BY <1>4, <2>3 DEF NextData
    <3>2. buffer' \in Seq(Frames)
      BY <1>0, <2>1, <3>1, Appended
    <3> QED BY <1>2, <3>1, <3>2
  <2> QED BY <2>2, <2>3
<1>5. CASE WriteHead
  <2>1. wire' = wire /\ buffer' = Append(buffer, Mark("head"))
    BY <1>5 DEF WriteHead
  <2>2. buffer' \in Seq(Frames)
    BY <1>0, <2>1, Appended, FrameTypes
  <2> QED BY <1>2, <2>1, <2>2
<1>6. CASE NextEmpty
  <2>1. CASE encoding = "chunked"
    <3>1. wire' = (wire \o buffer) \o EmptyChunk /\ buffer' = << >>
      BY <1>6, <2>1 DEF NextEmpty, EmptyChunk
    <3>2. EmptyChunk \in Seq(Frames)
      BY FrameTypes
    <3> QED BY <1>1, <3>1, <3>2
  <2>2. CASE encoding # "chunked"
    BY <1>0, <1>2, <1>6, <2>2 DEF NextEmpty
  <2> QED BY <2>1, <2>2
<1>7. CASE WriteTail
  <2>0. wire' \in Seq(Frames) /\ buffer' = << >>
    <3>1. << Mark("last") >> \in Seq(Frames) /\ << Mark("crlf") >> \in Seq(Frames) /\ trailers \in Seq(Frames)
      BY <1>0, FrameTypes DEF TypeOK
    <3>2. PICK a \in Seq(Frames), c \in Seq(Frames) : a = << Mark("last") >> /\ c = << Mark("crlf") >>
      BY <3>1
    <3>3. wire \o buffer \in Seq(Frames)
      BY <1>0, Concatenated
    <3>4. wire \o buffer \o a \in Seq(Frames)
      BY <3>3, Concatenated
    <3>5. wire \o buffer \o a \o trailers \in Seq(Frames)
      BY <3>1, <3>4, Concatenated
    <3>6. wire \o buffer \o a \o trailers \o c \in Seq(Frames)
      BY <3>5, Concatenated
    <3> QED BY <1>7, <3>2, <3>3, <3>6 DEF WriteTail
  <2>1. CASE encoding = "chunked"
    <3>1. Written' = Written \o EndFrames
      BY <1>0, <1>7, <2>1, WrittenEffect
    <3>2. wire' = Written'
      BY <2>0, EmptyRight DEF Written
    <3>3. wire' = (wire \o buffer) \o EndFrames
      BY <3>1, <3>2 DEF Written
    <3>4. EndFrames \in Seq(Frames)
      BY <1>0, FrameTypes
    <3> QED BY <1>1, <2>0, <3>3, <3>4
  <2>2. CASE encoding # "chunked"
    BY <1>3, <1>7, <2>2 DEF WriteTail
  <2> QED BY <2>1, <2>2
<1>8. Goal
  <2>1. \/ wire' = wire /\ buffer' \in Seq(Frames)
        \/ wire' = wire \o buffer /\ buffer' = << >>
        \/ NextData \/ WriteHead \/ NextEmpty \/ WriteTail
    BY <1>0 DEF Next, Writer, Reader, Spill, Send, End, NextTrailers, NextError, NoMore,
       WriteFails, ReadHead, ReadBody, ReadEof, HangUp, Over, vars
  <2> QED BY <1>2, <1>3, <1>4, <1>5, <1>6, <1>7, <2>1
<1> QED BY <1>8

(* What the client reads next. *)
LEMMA FrameRead ==
    ASSUME ChannelInv, NEW i \in 1..Len(wire), wire[i].t = "data"
    PROVE  wire[i].id \in Ids
<1>0. TypeOK /\ Channel /\ Framed /\ wire \in Seq(Frames) /\ buffer \in Seq(Frames)
  BY DEF ChannelInv, TypeOK
<1>1. i \in DOMAIN Written /\ Written[i] = wire[i]
  BY <1>0, Concatenated DEF Written
<1>2. wire[i].id \in DOMAIN produced
  BY <1>0, <1>1 DEF Framed, IsData
<1> QED BY <1>0, <1>2, Counts DEF Channel

LEMMA TypeStep == ChannelInv /\ [Next]_vars => TypeOK'
<1> SUFFICES ASSUME ChannelInv, [Next]_vars PROVE TypeOK'
  OBVIOUS
<1>0. TypeOK /\ Channel /\ Shape /\ Framed
  BY DEF ChannelInv
<1>1. (encoding \in Encodings /\ tx \in {"open", "dropped", "aborted"} /\ rx \in {"open", "dropped"}
       /\ pc \in {"head", "next", "tail", "done", "failed"}
       /\ link \in {"open", "closed"} /\ client \in {"head", "body", "ended", "gone"})'
  <2>1. encoding \in Encodings /\ tx \in {"open", "dropped", "aborted"} /\ rx \in {"open", "dropped"}
        /\ pc \in {"head", "next", "tail", "done", "failed"}
        /\ link \in {"open", "closed"} /\ client \in {"head", "body", "ended", "gone"}
    BY <1>0 DEF TypeOK
  <2>2. CASE \E t \in Items : Send(t)
    BY <2>1, <2>2 DEF Send
  <2>3. CASE \E how \in Endings : End(how)
    BY <2>1, <2>3 DEF End
  <2> QED BY <2>1, <2>2, <2>3 DEF Next, Writer, Reader, Spill, WriteHead, NextData, NextEmpty, NextTrailers, NextError,
     NoMore, WriteTail, WriteFails, ReadHead, ReadBody, ReadEof, HangUp, Over, vars, Taken
<1>2. chan' \in Seq(Sent) /\ produced' \in Seq(Sent)
  <2>0. chan \in Seq(Sent) /\ produced \in Seq(Sent) /\ Len(produced) \in Nat /\ << >> \in Seq(Sent)
    BY <1>0 DEF TypeOK
  <2>1. ASSUME NEW t \in Items, Send(t) PROVE chan' \in Seq(Sent) /\ produced' \in Seq(Sent)
    <3>1. [t |-> t, id |-> Len(produced) + 1] \in Sent
      BY <2>0, <2>1 DEF Send, Sent
    <3> QED BY <2>0, <2>1, <3>1, Appended DEF Send
  <2>2. ASSUME NEW how \in Endings, End(how) PROVE chan' \in Seq(Sent) /\ produced' \in Seq(Sent)
    <3>1. Mark("error") \in Sent
      BY DEF Sent
    <3> QED BY <2>0, <2>2, <3>1, Appended DEF End
  <2>3. chan # << >> => Tail(chan) \in Seq(Sent)
    BY <2>0, NonEmpty
  <2>4. \/ chan' = chan /\ produced' = produced
        \/ chan' = << >> /\ produced' = produced
        \/ chan # << >> /\ chan' = Tail(chan) /\ produced' = produced
        \/ \E t \in Items : Send(t)
        \/ \E how \in Endings : End(how)
    BY DEF Next, Writer, Reader, Spill, WriteHead, NextData, NextEmpty, NextTrailers, NextError,
       NoMore, WriteTail, WriteFails, ReadHead, ReadBody, ReadEof, HangUp, Over, vars, Taken
  <2> QED BY <2>0, <2>1, <2>2, <2>3, <2>4
<1>3. trailers' \in Seq(Frames)
  <2>0. trailers \in Seq(Frames)
    BY <1>0 DEF TypeOK
  <2>1. CASE NextTrailers
    <3>1. Head(chan) = [t |-> "trailers", id |-> TakenItems + 1] /\ TakenItems + 1 \in DOMAIN produced
      BY <1>0, <2>1, HeadOfChannel DEF NextTrailers
    <3>2. TakenItems + 1 \in 0..MaxItems
      BY <1>0, <3>1, Counts DEF Channel
    <3>3. Head(chan) \in Frames
      BY <3>1, <3>2 DEF Frames
    <3> QED BY <2>0, <2>1, <3>3, Appended DEF NextTrailers
  <2>2. NextTrailers \/ trailers' = trailers
    BY DEF Next, Writer, Reader, Spill, Send, End, WriteHead, NextData, NextEmpty, NextError,
       NoMore, WriteTail, WriteFails, ReadHead, ReadBody, ReadEof, HangUp, Over, vars
  <2> QED BY <2>0, <2>1, <2>2
<1>4. wire' \in Seq(Frames) /\ buffer' \in Seq(Frames) /\ Len(wire) \in Nat /\ Len(wire') \in Nat /\ Len(wire) <= Len(wire')
  BY WireGrows
<1>5. pos' \in 0..Len(wire')
  <2>1. pos \in 0..Len(wire)
    BY <1>0 DEF TypeOK
  <2>2. \/ pos' = pos
        \/ pos < Len(wire) /\ pos' = pos + 1
    BY DEF Next, Writer, Reader, Spill, Send, End, WriteHead, NextData, NextEmpty, NextTrailers, NextError,
       NoMore, WriteTail, WriteFails, ReadHead, ReadBody, ReadEof, HangUp, Over, vars
  <2> QED BY <1>4, <2>1, <2>2
<1>6. got' \in Seq(Ids)
  <2>0. got \in Seq(Ids) /\ pos \in 0..Len(wire)
    BY <1>0 DEF TypeOK
  <2>1. CASE got' = got
    BY <2>0, <2>1
  <2>2. CASE ReadBody /\ got' # got
    <3>1. got' = Append(got, wire[pos + 1].id) /\ wire[pos + 1].t = "data" /\ pos + 1 \in 1..Len(wire)
      BY <1>4, <2>0, <2>2 DEF ReadBody
    <3>2. wire[pos + 1].id \in Ids
      BY <3>1, FrameRead
    <3> QED BY <2>0, <3>1, <3>2, Appended
  <2>3. ReadBody \/ got' = got
    BY DEF Next, Writer, Reader, Spill, Send, End, WriteHead, NextData, NextEmpty, NextTrailers, NextError,
       NoMore, WriteTail, WriteFails, ReadHead, ReadEof, HangUp, Over, vars
  <2> QED BY <2>1, <2>2, <2>3
<1> QED BY <1>1, <1>2, <1>3, <1>4, <1>5, <1>6 DEF TypeOK

LEMMA ProgressStep == ChannelInv /\ [Next]_vars => Progress'
<1> SUFFICES ASSUME ChannelInv, [Next]_vars PROVE Progress'
  OBVIOUS
<1>0. /\ TypeOK /\ Progress /\ pos \in 0..Len(wire) /\ got \in Seq(Ids) /\ Len(got) \in Nat
      /\ DOMAIN got = 1..Len(got)
  BY DEF ChannelInv, TypeOK
<1>1. /\ Len(wire) \in Nat /\ Len(wire') \in Nat /\ Len(wire) <= Len(wire')
      /\ \A i \in 1..Len(wire) : wire'[i] = wire[i]
      /\ pc \in {"done", "failed"} => wire' = wire /\ pc' = pc
  BY WireGrows
<1>2. (link = "closed" => pc \in {"done", "failed"})' /\ (pc = "failed" => client = "gone")'
  BY <1>0 DEF Progress, Next, Writer, Reader, Spill, Send, End, WriteHead, NextData, NextEmpty, NextTrailers,
     NextError, NoMore, WriteTail, WriteFails, ReadHead, ReadBody, ReadEof, HangUp, Over, vars, Taken
<1>3. \A i \in DOMAIN got : i + 1 \in 1..Len(wire)
  BY <1>0, <1>1 DEF Progress
<1>4. CASE pos' = pos /\ got' = got /\ (client' = client \/ client' = "gone")
  <2>1. ASSUME NEW i \in DOMAIN got' PROVE wire'[i + 1].t = "data" /\ wire'[i + 1].id = got'[i]
    <3>1. i \in DOMAIN got /\ got'[i] = got[i] /\ wire'[i + 1] = wire[i + 1]
      BY <1>1, <1>3, <1>4
    <3>2. wire[i + 1].t = "data" /\ wire[i + 1].id = got[i]
      BY <1>0, <3>1 DEF Progress
    <3> QED BY <3>1, <3>2
  <2>2. (client = "ended" =>
            \/ pos = Len(got) + 2 /\ wire[pos].t # "data"
            \/ pos = Len(got) + 1 /\ pos = Len(wire) /\ pc = "done")'
    BY <1>0, <1>1, <1>4 DEF Progress
  <2> QED BY <1>0, <1>2, <1>4, <2>1, <2>2 DEF Progress
<1>5. CASE ReadHead
  <2>1. pos = 0 /\ got = << >> /\ pos' = 1 /\ got' = << >> /\ client' = "body" /\ Len(got') = 0 /\ DOMAIN got' = {}
    BY <1>0, <1>5 DEF ReadHead, Progress
  <2> QED BY <1>2, <2>1 DEF Progress
<1>6. CASE ReadBody
  <2>1. pos = Len(got) + 1 /\ pos' = pos + 1 /\ pos + 1 \in 1..Len(wire) /\ wire' = wire
    BY <1>0, <1>1, <1>6 DEF ReadBody, Progress
  <2>2. CASE wire[pos + 1].t = "data"
    <3>1. got' = Append(got, wire[pos + 1].id) /\ client' = "body"
      BY <1>6, <2>2 DEF ReadBody
    <3>2. wire[pos + 1].id \in Ids
      BY <2>1, <2>2, FrameRead
    <3>3. /\ Len(got') = Len(got) + 1 /\ DOMAIN got' = 1..(Len(got) + 1) /\ got'[Len(got) + 1] = wire[pos + 1].id
          /\ \A i \in 1..Len(got) : got'[i] = got[i]
      BY <1>0, <3>1, <3>2, Appended
    <3>4. \A i \in DOMAIN got' : wire'[i + 1].t = "data" /\ wire'[i + 1].id = got'[i]
      BY <1>0, <2>1, <2>2, <3>3 DEF Progress
    <3> QED BY <1>0, <1>2, <2>1, <3>1, <3>3, <3>4 DEF Progress
  <2>3. CASE wire[pos + 1].t # "data"
    <3>1. got' = got /\ client' = "ended"
      BY <1>6, <2>3 DEF ReadBody
    <3> QED BY <1>0, <1>2, <2>1, <2>3, <3>1 DEF Progress
  <2> QED BY <2>2, <2>3
<1>7. CASE ReadEof
  <2>1. /\ client = "body" /\ client' = "ended" /\ pos = Len(wire) /\ link = "closed"
        /\ UNCHANGED <<wire, pos, got, pc>>
    BY <1>7 DEF ReadEof
  <2>2. pc = "done" /\ pos = Len(got) + 1
    BY <1>0, <2>1 DEF Progress
  <2> QED BY <1>0, <1>2, <2>1, <2>2 DEF Progress
<1> QED
  BY <1>4, <1>5, <1>6, <1>7
  DEF Next, Writer, Reader, Spill, Send, End, WriteHead, NextData, NextEmpty, NextTrailers, NextError,
      NoMore, WriteTail, WriteFails, HangUp, Over, vars

(* The inductive invariant: TLC checks its parts on small instances, and    *)
(* here it holds for any number of items.                                   *)
THEOREM ChannelInvariant == Spec => []ChannelInv
<1>1. ChannelInv /\ [Next]_vars => ChannelInv'
  <2> SUFFICES ASSUME ChannelInv, [Next]_vars PROVE ChannelInv'
    OBVIOUS
  <2>1. Channel'
    BY ChannelStep DEF ChannelInv
  <2> QED BY <2>1, TypeStep, FramedStep, ShapeStep, ProgressStep DEF ChannelInv
<1> QED BY <1>1, InitInv, PTL DEF Spec

(* Every variable of the channel, the writer and the client keeps its type. *)
THEOREM TypeCorrect == Spec => []TypeOK
<1>1. ChannelInv => TypeOK
  BY DEF ChannelInv
<1> QED BY <1>1, ChannelInvariant, PTL

-----------------------------------------------------------------------------
(* What is on the wire is the beginning of what was written. *)
LEMMA WireOfWritten ==
    ASSUME ChannelInv
    PROVE  /\ Len(wire) \in Nat /\ DOMAIN wire = 1..Len(wire) /\ Len(got) \in Nat /\ DOMAIN got = 1..Len(got)
           /\ DOMAIN Written = 1..Len(Written) /\ Len(Written) \in Nat /\ Len(wire) <= Len(Written)
           /\ \A i \in DOMAIN wire : i \in DOMAIN Written /\ Written[i] = wire[i]
           /\ \A i \in DOMAIN got : i + 1 \in DOMAIN wire /\ wire[i + 1].t = "data" /\ wire[i + 1].id = got[i]
           /\ pos \in 0..Len(wire)
<1>0. wire \in Seq(Frames) /\ buffer \in Seq(Frames) /\ got \in Seq(Ids) /\ pos \in 0..Len(wire) /\ Progress
  BY DEF ChannelInv, TypeOK
<1>1. /\ Len(wire) \in Nat /\ DOMAIN wire = 1..Len(wire) /\ Len(got) \in Nat /\ DOMAIN got = 1..Len(got)
  BY <1>0
<1>2. /\ DOMAIN Written = 1..Len(Written) /\ Len(Written) \in Nat /\ Len(wire) <= Len(Written)
      /\ \A i \in DOMAIN wire : i \in DOMAIN Written /\ Written[i] = wire[i]
  BY <1>0, <1>1, Concatenated DEF Written
<1>3. ASSUME NEW i \in DOMAIN got PROVE i + 1 \in DOMAIN wire
  <2>1. Len(got) = 0 \/ Len(got) < pos
    BY <1>0 DEF Progress
  <2>2. i \in 1..Len(got)
    BY <1>1
  <2>3. i + 1 \in 1..Len(wire)
    BY <1>0, <1>1, <2>1, <2>2
  <2> QED BY <1>1, <2>3
<1> QED BY <1>0, <1>1, <1>2, <1>3 DEF Progress

(* A chunk that was written before what the client has read has arrived. *)
LEMMA ReadSoFar ==
    ASSUME ChannelInv, NEW i \in DOMAIN Written, Written[i].t = "data", i <= Len(got) + 1
    PROVE  Arrived(Written[i].id)
<1>1. i # 1
  BY DEF ChannelInv, Shape
<1>2. i - 1 \in DOMAIN got /\ (i - 1) + 1 = i
  BY <1>1, WireOfWritten
<1>3. got[i - 1] = Written[i].id
  BY <1>2, WireOfWritten
<1> QED BY <1>2, <1>3 DEF Arrived

(* The client reads the chunks in the order of send(), none twice and none  *)
(* left out in the middle, whatever the encoding, the flushes of the        *)
(* BufWriter and the end of the channel.                                    *)
THEOREM ReadsInOrder == Spec => []InOrder
<1>1. ASSUME ChannelInv PROVE InOrder
  <2>0. Framed /\ Channel /\ TypeOK
    BY <1>1 DEF ChannelInv
  <2>1. ASSUME NEW i \in DOMAIN got
        PROVE  /\ i + 1 \in DOMAIN Written /\ Written[i + 1].t = "data" /\ Written[i + 1].id = got[i]
               /\ IsData(got[i]) /\ got[i] \in Nat
    <3>1. i + 1 \in DOMAIN Written /\ Written[i + 1].t = "data" /\ Written[i + 1].id = got[i]
      BY <1>1, WireOfWritten
    <3> QED BY <2>0, <3>1, Counts DEF Framed, IsData
  <2>2. \A i, j \in DOMAIN got : i < j => got[i] < got[j]
    <3> SUFFICES ASSUME NEW i \in DOMAIN got, NEW j \in DOMAIN got, i < j PROVE got[i] < got[j]
      OBVIOUS
    <3>1. i + 1 < j + 1
      BY <1>1, WireOfWritten
    <3> QED BY <2>0, <2>1, <3>1 DEF Framed
  <2>3. ASSUME NEW m \in DOMAIN produced, NEW j \in DOMAIN got, IsData(m), m < got[j] PROVE Arrived(m)
    <3>1. PICK i \in DOMAIN Written : Written[i].t = "data" /\ Written[i].id = m
      BY <2>0, <2>1, <2>3 DEF Framed, InWritten
    <3>2. ~ (j + 1 < i)
      <4>1. j + 1 < i => got[j] < m
        BY <2>0, <2>1, <3>1 DEF Framed
      <4> QED BY <2>0, <2>1, <2>3, <4>1, Counts
    <3>3. i <= Len(got) + 1
      BY <1>1, <3>1, <3>2, WireOfWritten
    <3> QED BY <1>1, <3>1, <3>3, ReadSoFar
  <2> QED BY <2>1, <2>2, <2>3 DEF InOrder
<1> QED BY <1>1, ChannelInvariant, PTL

(* The end of a body is its end: unless a chunk of no bytes cut it short, a *)
(* client that comes to it has every chunk, and the service is done.        *)
THEOREM EndsComplete == Spec => []Unabridged
<1>1. ASSUME ChannelInv PROVE Unabridged
  <2>0. Framed /\ Channel /\ TypeOK /\ Shape /\ Progress
    BY <1>1 DEF ChannelInv
  <2> SUFFICES ASSUME ~CutShort, client = "ended"
               PROVE  tx # "open" /\ \A m \in DOMAIN produced : IsData(m) => Arrived(m)
    BY DEF Unabridged, Complete
  <2>1. \/ pos = Len(got) + 2 /\ wire[pos].t # "data"
        \/ pos = Len(got) + 1 /\ pos = Len(wire) /\ pc = "done"
    BY <2>0 DEF Progress
  <2>2. pc = "done"
    <3> SUFFICES ASSUME pc # "done" PROVE FALSE
      OBVIOUS
    <3>1. pos \in DOMAIN wire /\ pos > 1 /\ wire[pos].t # "data"
      BY <1>1, <2>1, WireOfWritten
    <3>2. pos \in DOMAIN Written /\ Written[pos].t # "data"
      BY <1>1, <3>1, WireOfWritten
    <3> QED BY <2>0, <3>1, <3>2 DEF Shape
  <2>3. chan = << >> /\ tx # "open" /\ TakenItems = Len(produced)
    BY <2>0, <2>2, Counts DEF Channel, TakenItems, Pending
  <2>4. Written = wire
    BY <2>0, <2>2, EmptyRight DEF Written, Shape, TypeOK
  <2>5. ASSUME NEW m \in DOMAIN produced, IsData(m) PROVE Arrived(m)
    <3>1. InWritten(m)
      BY <2>0, <2>2, <2>3, <2>5, Counts DEF Framed
    <3>2. PICK i \in DOMAIN Written : Written[i].t = "data" /\ Written[i].id = m
      BY <3>1 DEF InWritten
    <3>3. i <= Len(got) + 1
      <4>1. CASE pos = Len(got) + 2 /\ wire[pos].t # "data"
        <5>1. pos \in DOMAIN Written /\ Written[pos].t # "data" /\ pos > 1
          BY <1>1, <4>1, WireOfWritten
        <5>2. ~ (pos < i) /\ pos # i
          BY <2>0, <3>2, <5>1 DEF Shape
        <5> QED BY <1>1, <4>1, <5>2, WireOfWritten
      <4>2. CASE pos = Len(got) + 1 /\ pos = Len(wire)
        BY <1>1, <2>4, <4>2, WireOfWritten
      <4> QED BY <2>1, <4>1, <4>2
    <3> QED BY <1>1, <3>2, <3>3, ReadSoFar
  <2> QED BY <2>3, <2>5
<1> QED BY <1>1, ChannelInvariant, PTL

(* Trailers never come before data or the last chunk. *)
THEOREM TrailersComeLast == Spec => []TrailersLast
<1>1. ASSUME ChannelInv PROVE TrailersLast
  <2>1. Shape
    BY <1>1 DEF ChannelInv
  <2> QED BY <1>1, <2>1, WireOfWritten DEF Shape, TrailersLast
<1> QED BY <1>1, ChannelInvariant, PTL
=============================================================================
