----------------------------- MODULE BodyProofs -----------------------------
(***************************************************************************)
(* What TLAPS proves about Body, for bodies of any length in any chunks,   *)
(* buffers of any size and any number of bytes from the peer.              *)
(***************************************************************************)
EXTENDS Body, SequenceLemmas, TLAPS

(* The clones and the mutex: only the clone "reader" holds it, while it     *)
(* reads, and the clone "writer" becomes the stream after its write.        *)
Owning ==
    /\ inner \subseteq {"writer"} /\ busy["writer"] \in {"idle", "writing"}
    /\ \A h \in Handles : busy[h] # "idle" => h \in alive
    /\ lock # "none" => busy[lock] = "reading"
    /\ inner # {} => reply # "none"
    /\ busy["writer"] = "writing" => reply = "none"
    /\ kind = "Rustls" /\ inner # {} => alive = inner /\ ~poisoned

(* The number of bytes that were read from the connection, which are the    *)
(* first that the peer has sent.                                            *)
Taken == sent - Len(inbox)

Numbered ==
    /\ inbox \in Seq(Nat) /\ Len(inbox) <= sent
    /\ \A i \in 1..Len(inbox) : inbox[i] = Taken + i

(* A result ends the use of a body, and tells how it was used. *)
Ended ==
    /\ result # "none" => phase # "use"
    /\ result = "ok" => via = "bytes"
    /\ result = "end" => via \in {"reader", "chunks"}
    /\ via = "none" => result = "none"

(* What was taken from the connection was given to the application, and the *)
(* rest is counted.                                                         *)
Streamed ==
    body.type = "Reader" =>
        /\ IF body.len = Unknown THEN left = Unknown
           ELSE left = (IF Taken < body.len THEN body.len - Taken ELSE 0)
        /\ via # "chunks" /\ body.len # Unknown => Taken <= body.len
        /\ IF via = "drop" THEN out = << >>
           ELSE Len(out) = Taken /\ \A i \in 1..Len(out) : out[i] = i
        /\ via = "none" => Taken = 0
        /\ result \in {"ok", "end"} \/ (result = "dropped" /\ faults = {}) =>
            left = 0 \/ (inbox = << >> /\ ~open)

(* The chunks of a body in memory that were not taken, and their bytes. *)
Position == Len(body.into_chunks) - Len(items) + 1
Unread == JoinedFrom(body.into_chunks)[Position]
Whence ==
    /\ Len(items) <= Len(body.into_chunks)
    /\ \A i \in 1..Len(items) : items[i] = body.into_chunks[Len(body.into_chunks) - Len(items) + i]

(* What was got, what is at hand and what was not taken are the body,       *)
(* until an empty buffer or an error throws away the rest.                  *)
Divided ==
    \/ (out \o cursor) \o Unread = Joined(body.into_chunks)
    \/ /\ items = << >> /\ cursor = << >> /\ ("skipped" \in faults \/ Fails(body.into_chunks))
       /\ \E rest \in Seq(Nat) : out \o rest = Joined(body.into_chunks)

InMemory ==
    body.type # "Reader" =>
        /\ via \in {"none", "drop"} => out = << >> /\ cursor = << >>
        /\ via = "bytes" =>
            IF Fails(body.into_chunks) THEN out = << >> /\ result = "err"
            ELSE out = Joined(body.into_chunks)
        /\ via \in {"reader", "chunks"} => Whence /\ Divided
        /\ via = "chunks" => cursor = << >>
        /\ result = "end" => cursor = << >> /\ items = << >>

BodyInv == TypeOK /\ Owning /\ Numbered /\ Ended /\ Streamed /\ InMemory

-----------------------------------------------------------------------------
(* The bytes of chunks. *)

LEMMA Bytes ==
    ASSUME NEW chunks \in Seq(Chunks), NEW k \in 1..Len(chunks)
    PROVE  chunks[k].bytes \in Seq(Nat) /\ (chunks[k].t # "data" => chunks[k].bytes = << >>)
  BY DEF Chunks

(* What the recursive JoinedFrom computes: its equation has a solution, for *)
(* any number of chunks, whose values are sequences of bytes.               *)
LEMMA JoinedFromProperties ==
    ASSUME NEW chunks \in Seq(Chunks)
    PROVE  /\ \A k \in 1..(Len(chunks) + 1) : JoinedFrom(chunks)[k] \in Seq(Nat)
           /\ JoinedFrom(chunks)[Len(chunks) + 1] = << >>
           /\ \A k \in 1..Len(chunks) :
                 JoinedFrom(chunks)[k] = chunks[k].bytes \o JoinedFrom(chunks)[k + 1]
  <1>1. PICK N \in Nat : N = Len(chunks)
    OBVIOUS
  <1> DEFINE Equation(h) == h = [k \in 1..(N + 1) |-> IF k > N THEN << >> ELSE chunks[k].bytes \o h[k + 1]]
  <1>2. PICK b \in Seq(Seq(Nat)) : Len(b) = N /\ \A k \in 1..N : b[k] = chunks[k].bytes
    <2>1. \A k \in 1..N : chunks[k].bytes \in Seq(Nat)
      BY <1>1, Bytes
    <2>2. [k \in 1..N |-> chunks[k].bytes] \in Seq(Seq(Nat)) /\ Len([k \in 1..N |-> chunks[k].bytes]) = N
      BY <2>1
    <2> QED
      BY <2>2
  <1>3. PICK f : /\ f \in [1..(N + 1) -> Seq(Nat)] /\ f[N + 1] = << >>
                 /\ \A k \in 1..N : f[k] = b[k] \o f[k + 1]
    <2>1. \E f : /\ f \in [1..(Len(b) + 1) -> Seq(Nat)] /\ f[Len(b) + 1] = << >>
                 /\ \A k \in 1..Len(b) : f[k] = b[k] \o f[k + 1]
      BY JoinExists
    <2> QED
      BY <1>2, <2>1
  <1>4. PICK j : j = JoinedFrom(chunks)
    OBVIOUS
  <1>5. Equation(f)
    <2>1. \A k \in 1..(N + 1) : f[k] = IF k > N THEN << >> ELSE chunks[k].bytes \o f[k + 1]
      <3> TAKE k \in 1..(N + 1)
      <3>1. CASE k > N
        <4>1. k = N + 1
          BY <3>1
        <4> QED
          BY <1>3, <3>1, <4>1
      <3>2. CASE ~(k > N)
        <4>1. k \in 1..N
          BY <3>2
        <4> QED
          BY <1>2, <1>3, <3>2, <4>1
      <3> QED
        BY <3>1, <3>2
    <2>2. f = [k \in 1..(N + 1) |-> f[k]]
      BY <1>3
    <2> QED
      BY <2>1, <2>2, Zenon
  <1>6. Equation(j)
    BY <1>1, <1>4, <1>5 DEF JoinedFrom
  <1>7. \A k \in 1..(N + 1) : j[k] = IF k > N THEN << >> ELSE chunks[k].bytes \o j[k + 1]
    BY <1>6, Zenon
  <1>8. j[N + 1] = << >> /\ \A k \in 1..N : j[k] = chunks[k].bytes \o j[k + 1]
    <2>1. j[N + 1] = << >>
      <3>1. N + 1 \in 1..(N + 1) /\ N + 1 > N
        OBVIOUS
      <3> QED
        BY <1>7, <3>1, Zenon
    <2>2. ASSUME NEW k \in 1..N PROVE j[k] = chunks[k].bytes \o j[k + 1]
      <3>1. k \in 1..(N + 1) /\ ~(k > N)
        OBVIOUS
      <3> QED
        BY <1>7, <3>1, Zenon
    <2> QED
      BY <2>1, <2>2
  <1>9. \A k \in 1..(N + 1) : j[k] \in Seq(Nat)
    <2>1. j[Len(b) + 1] = << >> /\ \A k \in 1..Len(b) : j[k] = b[k] \o j[k + 1]
      BY <1>2, <1>8
    <2>2. \A k \in 1..(Len(b) + 1) : j[k] \in Seq(Nat)
      BY <2>1, JoinTyped
    <2> QED
      BY <1>2, <2>2
  <1> QED
    BY <1>1, <1>4, <1>8, <1>9

(* Trailers in front add nothing. *)
LEMMA TrailersInFront ==
    ASSUME NEW chunks \in Seq(Chunks), NEW i \in 1..(Len(chunks) + 1),
           \A j \in 1..(i - 1) : chunks[j].t = "trailers"
    PROVE  JoinedFrom(chunks)[i] = Joined(chunks)
  <1>0. PICK J : /\ J = JoinedFrom(chunks) /\ \A k \in 1..(Len(chunks) + 1) : J[k] \in Seq(Nat)
                 /\ \A k \in 1..Len(chunks) : J[k] = chunks[k].bytes \o J[k + 1]
    BY JoinedFromProperties
  <1> DEFINE Bad == {m \in Nat : m \in 1..i /\ J[m] # J[1]}
  <1>1. Bad = {}
    <2> SUFFICES ASSUME Bad # {} PROVE FALSE
      OBVIOUS
    <2>1. PICK m \in Bad : \A y \in Bad : m <= y
      <3>1. Bad \in SUBSET Nat
        OBVIOUS
      <3> HIDE DEF Bad
      <3> QED
        BY <3>1, Least
    <2>2. m \in Nat /\ m \in 1..i /\ J[m] # J[1] /\ m # 1
      BY <2>1
    <2>3. m - 1 \in Nat /\ m - 1 \in 1..i /\ m - 1 \in 1..(i - 1) /\ ~(m <= m - 1)
      BY <2>2
    <2>4. J[m - 1] = J[1]
      BY <2>1, <2>3
    <2>5. m - 1 \in 1..Len(chunks) /\ m \in 1..(Len(chunks) + 1) /\ m - 1 + 1 = m
      BY <2>2, <2>3
    <2>6. J[m - 1] = chunks[m - 1].bytes \o J[m] /\ J[m] \in Seq(Nat)
      BY <1>0, <2>5
    <2>7. chunks[m - 1].bytes = << >>
      BY <2>3, <2>5, Bytes
    <2>8. << >> \o J[m] = J[m]
      BY <2>6, ConcatEmptySeq
    <2> QED
      BY <2>2, <2>4, <2>6, <2>7, <2>8
  <1>2. i \in Nat /\ i \in 1..i
    OBVIOUS
  <1> QED
    BY <1>0, <1>1, <1>2 DEF Joined

(* A sequence cut in two. *)
LEMMA CutInTwo ==
    ASSUME NEW S, NEW seq \in Seq(S), NEW k \in Nat
    PROVE  /\ (IF k < Len(seq) THEN SubSeq(seq, 1, k) ELSE seq) \in Seq(S)
           /\ SubSeq(seq, k + 1, Len(seq)) \in Seq(S)
           /\ (IF k < Len(seq) THEN SubSeq(seq, 1, k) ELSE seq) \o SubSeq(seq, k + 1, Len(seq)) = seq
  <1>1. CASE k < Len(seq)
    <2>1. SubSeq(seq, 1, k) \in Seq(S) /\ SubSeq(seq, k + 1, Len(seq)) \in Seq(S)
      BY <1>1
    <2>2. SubSeq(seq, 1, k) \o SubSeq(seq, k + 1, Len(seq)) = seq
      <3>1. PICK m \in 1..(Len(seq) + 1), n \in k..Len(seq) : m = 1 /\ n = Len(seq) /\ k \in (m - 1)..Len(seq)
        BY <1>1
      <3>2. SubSeq(seq, m, k) \o SubSeq(seq, k + 1, n) = SubSeq(seq, m, n)
        BY <3>1, ConcatAdjacentSubSeq
      <3> QED
        BY <3>1, <3>2, SubSeqFull
    <2> QED
      BY <1>1, <2>1, <2>2
  <1>2. CASE ~(k < Len(seq))
    <2>1. SubSeq(seq, k + 1, Len(seq)) = << >>
      BY <1>2
    <2> QED
      BY <1>2, <2>1, EmptyRight
  <1> QED
    BY <1>1, <1>2

LEMMA Regrouped ==
    ASSUME NEW a \in Seq(Nat), NEW b \in Seq(Nat), NEW c \in Seq(Nat)
    PROVE  (a \o b) \o c = a \o (b \o c) /\ b \o c \in Seq(Nat)
  BY ConcatAssociative, SMTT(30)

-----------------------------------------------------------------------------
(* The clones. *)
LEMMA OwningStep == TypeOK /\ Owning /\ [Next]_vars => Owning'
  <1> SUFFICES ASSUME TypeOK, Owning, [Next]_vars PROVE Owning'
    OBVIOUS
  <1> USE DEF connVars, bodyVars
  <1>0. /\ Handles = {"reader", "writer"} /\ busy \in [Handles -> {"idle", "locking", "reading", "writing"}]
        /\ alive \subseteq Handles /\ lock \in Handles \cup {"none"}
    BY BodyAssumption DEF TypeOK, ConnTypeOK
  <1>1. ASSUME UNCHANGED <<connVars, reply>> PROVE Owning'
    BY <1>1 DEF Owning
  <1>2. ASSUME UNCHANGED <<kind, alive, busy, lock, poisoned, inner, reply>> PROVE Owning'
    BY <1>2 DEF Owning
  <1>3. ASSUME BeginRead("reader"), UNCHANGED reply PROVE Owning'
    BY <1>0, <1>3 DEF BeginRead, Owning
  <1>4. ASSUME Lock("reader"), UNCHANGED reply PROVE Owning'
    BY <1>0, <1>4 DEF Lock, Owning
  <1>5. ASSUME LockFails("reader"), UNCHANGED reply PROVE Owning'
    BY <1>0, <1>5 DEF LockFails, Owning
  <1>6. ASSUME EndRead("reader"), UNCHANGED reply PROVE Owning'
    BY <1>0, <1>6 DEF EndRead, Owning
  <1>7. ASSUME ReadPanics("reader"), UNCHANGED reply PROVE Owning'
    BY <1>0, <1>7 DEF ReadPanics, Panics, Owning
  <1>8. ASSUME DropHandle("reader"), UNCHANGED reply PROVE Owning'
    BY <1>0, <1>8 DEF DropHandle, Owning
  <1>9. CASE BeginReply
    BY <1>0, <1>9 DEF BeginReply, BeginWrite, Owning
  <1>10. CASE Reply
    <2>1. CASE EndWrite("writer") /\ reply' # "none"
      BY <1>0, <2>1 DEF EndWrite, Owning
    <2>2. CASE WritePanics("writer") /\ reply' # "none"
      BY <1>0, <2>2 DEF WritePanics, Panics, Owning
    <2> QED
      BY <1>10, <2>1, <2>2 DEF Reply, Write, WriteFails
  <1>11. CASE Upgrade
    <2>1. CASE Downcast("writer")
      BY <1>0, <1>11, <2>1 DEF Upgrade, Downcast, Owning
    <2>2. CASE DowncastPanics("writer")
      BY <1>0, <1>11, <2>2 DEF Upgrade, DowncastPanics, Owning
    <2> QED
      BY <1>11, <2>1, <2>2 DEF Upgrade
  <1>12. CASE Peer
    BY <1>2, <1>12 DEF Peer, PeerCloses, PeerSends
  <1>13. CASE IntoReader \/ IntoChunks \/ IntoBytes \/ DropBody \/ ReadNothing \/ Abandon \/ Rest
    BY <1>1, <1>13 DEF IntoReader, IntoChunks, IntoBytes, DropBody, ReadNothing, Abandon, Rest, vars
  <1>14. CASE NextCursor \/ NextChunk \/ MemoryEnd
    BY <1>1, <1>14 DEF NextCursor, NextChunk, MemoryEnd
  <1>15. ASSUME NEW size \in 1..Buf, ReadCursor(size) PROVE Owning'
    BY <1>1, <1>15 DEF ReadCursor
  <1>16. ASSUME NEW size \in 1..Buf, StreamData(size) PROVE Owning'
    BY <1>6, <1>16 DEF StreamData, ReadData
  <1>17. CASE StreamEnd
    BY <1>1, <1>6, <1>17 DEF StreamEnd, ReadEof
  <1>18. CASE StreamError
    BY <1>5, <1>6, <1>18 DEF StreamError, ReadTimesOut
  <1>19. CASE StreamPanics
    BY <1>7, <1>19 DEF StreamPanics
  <1>20. CASE LetGo
    BY <1>8, <1>20 DEF LetGo
  <1>21. CASE BeginStreamRead \/ LockStream
    BY <1>3, <1>4, <1>21 DEF BeginStreamRead, LockStream
  <1>22. CASE UNCHANGED vars
    BY <1>1, <1>22 DEF vars
  <1> QED
    BY <1>9, <1>10, <1>11, <1>12, <1>13, <1>14, <1>15, <1>16, <1>17, <1>18, <1>19, <1>20, <1>21,
       <1>22 DEF Next, Use

-----------------------------------------------------------------------------
(* What the steps leave alone. *)
Quiet == BeginStreamRead \/ LockStream \/ BeginReply \/ Reply \/ Upgrade \/ Rest \/ UNCHANGED vars

Turn == IntoReader \/ IntoChunks \/ IntoBytes \/ DropBody

MemoryStep == NextCursor \/ NextChunk \/ MemoryEnd \/ ReadNothing \/ \E size \in 1..Buf : ReadCursor(size)

StreamStop == StreamEnd \/ StreamError \/ StreamPanics

LEMMA Steps ==
    [Next]_vars =>
        \/ Quiet \/ Peer \/ Turn \/ MemoryStep \/ StreamStop \/ Abandon \/ LetGo
        \/ \E size \in 1..Buf : StreamData(size)
  BY DEF Next, Use, Quiet, Turn, MemoryStep, StreamStop

LEMMA QuietFrame == Quiet => UNCHANGED <<bodyVars, inbox, open, sent>>
  <1> USE DEF connVars, bodyVars
  <1>1. BeginStreamRead \/ LockStream => UNCHANGED <<bodyVars, inbox, open, sent>>
    BY DEF BeginStreamRead, LockStream, BeginRead, Lock
  <1>2. BeginReply \/ Upgrade => UNCHANGED <<bodyVars, inbox, open, sent>>
    BY DEF BeginReply, BeginWrite, Upgrade, Downcast, DowncastPanics
  <1>3. Reply => UNCHANGED <<bodyVars, inbox, open, sent>>
    BY DEF Reply, Write, WriteFails, EndWrite, WritePanics, Panics
  <1>4. Rest \/ UNCHANGED vars => UNCHANGED <<bodyVars, inbox, open, sent>>
    BY DEF Rest, vars
  <1> QED
    BY <1>1, <1>2, <1>3, <1>4 DEF Quiet

LEMMA StreamFrame ==
    StreamStop \/ Abandon \/ LetGo => UNCHANGED <<body, via, items, cursor, left, out, inbox, open, sent>>
  <1> USE DEF connVars
  <1>1. StreamEnd => UNCHANGED <<body, via, items, cursor, left, out, inbox, open, sent>>
    BY DEF StreamEnd, ReadEof, EndRead
  <1>2. StreamError => UNCHANGED <<body, via, items, cursor, left, out, inbox, open, sent>>
    BY DEF StreamError, ReadTimesOut, EndRead, LockFails
  <1>3. StreamPanics => UNCHANGED <<body, via, items, cursor, left, out, inbox, open, sent>>
    BY DEF StreamPanics, ReadPanics, Panics
  <1>4. Abandon \/ LetGo => UNCHANGED <<body, via, items, cursor, left, out, inbox, open, sent>>
    BY DEF Abandon, LetGo, DropHandle
  <1> QED
    BY <1>1, <1>2, <1>3, <1>4 DEF StreamStop

LEMMA MemoryFrame ==
    /\ Turn => via = "none" /\ UNCHANGED <<body, left, faults, inbox, open, sent>>
    /\ MemoryStep =>
        /\ UNCHANGED <<body, via, left, inbox, open, sent>>
        /\ body.type # "Reader" /\ via \in {"reader", "chunks"} /\ phase = "use"
  <1> USE DEF connVars
  <1>1. Turn => via = "none" /\ UNCHANGED <<body, left, faults, inbox, open, sent>>
    BY DEF Turn, IntoReader, IntoChunks, IntoBytes, DropBody
  <1>2. MemoryStep =>
            /\ UNCHANGED <<body, via, left, inbox, open, sent>>
            /\ body.type # "Reader" /\ via \in {"reader", "chunks"} /\ phase = "use"
    BY DEF MemoryStep, NextCursor, NextChunk, MemoryEnd, ReadNothing, ReadCursor, Using
  <1> QED
    BY <1>1, <1>2

-----------------------------------------------------------------------------
(* The bytes of the peer. *)

(* A read of some size takes so many bytes from the front. *)
LEMMA ReadEffect ==
    ASSUME Numbered, sent \in Nat, NEW size \in 1..Buf, StreamData(size)
    PROVE  /\ size \in 1..Len(inbox) /\ inbox' \in Seq(Nat)
           /\ Len(inbox') = Len(inbox) - size /\ UNCHANGED <<sent, open>>
           /\ Taken' = Taken + size
           /\ \A i \in 1..Len(inbox') : inbox'[i] = inbox[size + i]
           /\ SubSeq(inbox, 1, size) \in Seq(Nat) /\ Len(SubSeq(inbox, 1, size)) = size
           /\ \A i \in 1..size : SubSeq(inbox, 1, size)[i] = Taken + i
  <1>1. /\ size \in 1..Len(inbox) /\ inbox' = SubSeq(inbox, size + 1, Len(inbox))
        /\ UNCHANGED <<sent, open>>
    BY DEF StreamData, ReadData, EndRead
  <1>2. inbox \in Seq(Nat) /\ Len(inbox) \in Nat /\ size \in Nat
    BY <1>1 DEF Numbered
  <1>3. /\ inbox' \in Seq(Nat) /\ Len(inbox') = Len(inbox) - size
        /\ \A i \in 1..Len(inbox') : inbox'[i] = inbox[size + i]
    BY <1>1, <1>2
  <1>4. /\ SubSeq(inbox, 1, size) \in Seq(Nat) /\ Len(SubSeq(inbox, 1, size)) = size
        /\ \A i \in 1..size : SubSeq(inbox, 1, size)[i] = inbox[i]
    BY <1>1, <1>2
  <1>5. \A i \in 1..size : inbox[i] = Taken + i
    BY <1>1, <1>2 DEF Numbered
  <1>6. Taken' = Taken + size
    <2>1. sent' - Len(inbox') = sent - (Len(inbox) - size)
      BY <1>1, <1>3
    <2>2. sent - (Len(inbox) - size) = sent - Len(inbox) + size
      BY <1>2
    <2> QED
      BY <2>1, <2>2 DEF Taken
  <1> QED
    BY <1>1, <1>3, <1>4, <1>5, <1>6

LEMMA NumberedStep == TypeOK /\ Numbered /\ [Next]_vars => Numbered'
  <1> SUFFICES ASSUME TypeOK, Numbered, [Next]_vars PROVE Numbered'
    OBVIOUS
  <1>0. sent \in Nat /\ inbox \in Seq(Nat) /\ Len(inbox) \in Nat /\ Len(inbox) <= sent
    <2>1. sent \in 0..PeerBytes
      BY DEF TypeOK
    <2>2. inbox \in Seq(Nat) /\ Len(inbox) <= sent
      BY DEF Numbered
    <2> QED
      BY <2>1, <2>2, BodyAssumption
  <1>1. ASSUME UNCHANGED <<inbox, sent>> PROVE Numbered'
    BY <1>1 DEF Numbered, Taken
  <1>2. CASE Peer
    <2>1. CASE PeerSends(sent + 1) /\ sent' = sent + 1
      <3>1. inbox' = Append(inbox, sent + 1) /\ sent + 1 \in Nat
        BY <1>0, <2>1 DEF PeerSends
      <3>2. /\ inbox' \in Seq(Nat) /\ Len(inbox') = Len(inbox) + 1 /\ inbox'[Len(inbox) + 1] = sent + 1
            /\ \A i \in 1..Len(inbox) : inbox'[i] = inbox[i]
        BY <1>0, <3>1, Appended
      <3>3. Taken' = Taken
        BY <1>0, <2>1, <3>2 DEF Taken
      <3>4. ASSUME NEW i \in 1..Len(inbox') PROVE inbox'[i] = Taken' + i
        <4>1. CASE i = Len(inbox) + 1
          BY <1>0, <3>2, <3>3, <4>1 DEF Taken
        <4>2. CASE i # Len(inbox) + 1
          <5>1. i \in 1..Len(inbox)
            BY <1>0, <3>2, <4>2
          <5> QED
            BY <3>2, <3>3, <5>1 DEF Numbered
        <4> QED
          BY <4>1, <4>2
      <3> QED
        BY <1>0, <2>1, <3>2, <3>4 DEF Numbered
    <2>2. CASE PeerCloses /\ UNCHANGED sent
      BY <1>1, <2>2 DEF PeerCloses
    <2> QED
      BY <1>2, <2>1, <2>2 DEF Peer
  <1>3. ASSUME NEW size \in 1..Buf, StreamData(size) PROVE Numbered'
    <2>1. /\ size \in 1..Len(inbox) /\ inbox' \in Seq(Nat)
          /\ Len(inbox') = Len(inbox) - size /\ UNCHANGED sent
          /\ Taken' = Taken + size
          /\ \A i \in 1..Len(inbox') : inbox'[i] = inbox[size + i]
      BY <1>0, <1>3, ReadEffect
    <2>2. Taken \in Int /\ size \in Nat
      BY <1>0, <2>1 DEF Taken
    <2>3. ASSUME NEW i \in 1..Len(inbox') PROVE inbox'[i] = Taken' + i
      <3>1. size + i \in 1..Len(inbox)
        BY <1>0, <2>1, <2>2
      <3>2. inbox[size + i] = Taken + (size + i)
        BY <3>1 DEF Numbered
      <3> QED
        BY <2>1, <2>2, <3>2
    <2>4. Len(inbox') <= sent'
      BY <1>0, <2>1, <2>2
    <2> QED
      BY <2>1, <2>3, <2>4 DEF Numbered
  <1> QED
    BY <1>1, <1>2, <1>3, Steps, QuietFrame, MemoryFrame, StreamFrame

-----------------------------------------------------------------------------
(* How a body ends. *)
LEMMA EndedStep == TypeOK /\ Ended /\ [Next]_vars => Ended'
  <1> SUFFICES ASSUME TypeOK, Ended, [Next]_vars PROVE Ended'
    OBVIOUS
  <1> USE DEF Ended
  <1>0. via \in {"none", "reader", "bytes", "chunks", "drop"}
    BY DEF TypeOK
  <1>1. ASSUME UNCHANGED <<via, phase, result>> PROVE Ended'
    BY <1>1
  <1>2. CASE Quiet \/ Peer
    BY <1>1, <1>2, QuietFrame DEF Peer, bodyVars
  <1>3. CASE Turn
    BY <1>3 DEF Turn, IntoReader, IntoChunks, IntoBytes, DropBody, Finish
  <1>4. CASE MemoryStep
    BY <1>4 DEF MemoryStep, NextCursor, NextChunk, MemoryEnd, ReadNothing, ReadCursor, Using, Finish
  <1>5. CASE StreamEnd
    <2>1. via' = via /\ via # "none" /\ phase' # "use" /\ result' = AtEnd
      BY <1>5 DEF StreamEnd, Streaming, Finish
    <2>2. AtEnd \in {"ok", "dropped", "end"} /\ (AtEnd = "ok" => via = "bytes")
          /\ (AtEnd = "end" => via \in {"reader", "chunks"})
      BY <1>0, <2>1 DEF AtEnd
    <2> QED
      BY <2>1, <2>2
  <1>6. CASE StreamError \/ StreamPanics \/ Abandon \/ LetGo
    BY <1>6 DEF StreamError, StreamPanics, Streaming, Abandon, LetGo, Finish
  <1>7. ASSUME NEW size \in 1..Buf, StreamData(size) PROVE Ended'
    BY <1>1, <1>7 DEF StreamData
  <1> QED
    BY <1>2, <1>3, <1>4, <1>5, <1>6, <1>7, Steps DEF StreamStop

-----------------------------------------------------------------------------
(* A body that is read from the connection. *)
LEMMA StreamedStep == TypeOK /\ Numbered /\ Ended /\ Streamed /\ [Next]_vars => Streamed'
  <1> SUFFICES ASSUME TypeOK, Numbered, Ended, Streamed, [Next]_vars, body'.type = "Reader"
               PROVE  Streamed'
    BY DEF Streamed
  <1>0. /\ sent \in Nat /\ inbox \in Seq(Nat) /\ Len(inbox) \in Nat /\ Len(inbox) <= sent
        /\ Taken \in Nat /\ out \in Seq(Nat) /\ Len(out) \in Nat
    <2>1. sent \in 0..PeerBytes /\ out \in Seq(Nat)
      BY DEF TypeOK
    <2>2. inbox \in Seq(Nat) /\ Len(inbox) <= sent
      BY DEF Numbered
    <2> QED
      BY <2>1, <2>2, BodyAssumption DEF Taken
  <1>1. body' = body
    BY Steps, QuietFrame, MemoryFrame, StreamFrame DEF Peer, bodyVars, StreamData
  <1>2. /\ body.len # Unknown => body.len \in Nat
        /\ Unknown \notin Nat
    <2>1. body.len \in Nat \cup {Unknown}
      BY BodyAssumption DEF TypeOK, IsBody
    <2> QED
      BY <1>0, <2>1 DEF Unknown
  <1>3. CASE Quiet
    BY <1>3, QuietFrame DEF Streamed, Taken, bodyVars
  <1>4. CASE Peer
    <2>1. Taken' = Taken /\ UNCHANGED bodyVars
      <3>1. CASE PeerSends(sent + 1) /\ sent' = sent + 1
        <4>1. Len(inbox') = Len(inbox) + 1
          BY <1>0, <3>1 DEF PeerSends
        <4> QED
          BY <1>0, <1>4, <3>1, <4>1 DEF Peer, Taken
      <3>2. CASE PeerCloses /\ UNCHANGED sent
        BY <1>4, <3>2 DEF Peer, PeerCloses, Taken
      <3> QED
        BY <1>4, <3>1, <3>2 DEF Peer
    <2>2. open /\ (inbox = << >> /\ ~open => inbox' = << >> /\ ~open')
      BY <1>4 DEF Peer, PeerSends, PeerCloses
    <2> QED
      BY <1>1, <2>1, <2>2 DEF Streamed, bodyVars
  <1>5. CASE Turn
    <2>1. via = "none" /\ UNCHANGED <<left, inbox, open, sent, faults>> /\ Taken' = Taken /\ via' # "none"
      BY <1>5, MemoryFrame DEF Taken, Turn, IntoReader, IntoChunks, IntoBytes, DropBody
    <2>2. UNCHANGED <<out, result>>
      BY <1>1, <1>5 DEF Turn, IntoReader, IntoChunks, IntoBytes, DropBody
    <2>3. Taken = 0 /\ Len(out) = 0 /\ result = "none" /\ body.type = "Reader"
      BY <1>1, <2>1 DEF Streamed, Ended
    <2>4. out = << >>
      BY <1>0, <2>3, EmptyLen
    <2> QED
      BY <1>1, <1>2, <2>1, <2>2, <2>3, <2>4 DEF Streamed
  <1>6. CASE MemoryStep
    BY <1>1, <1>6, MemoryFrame
  <1>7. CASE StreamEnd
    <2>1. UNCHANGED <<body, via, left, out, inbox, open, sent, faults>> /\ Taken' = Taken
      BY <1>7, StreamFrame DEF StreamStop, Taken, StreamEnd
    <2>2. left = 0 \/ (inbox = << >> /\ ~open)
      BY <1>7 DEF StreamEnd, Exhausted, ReadEof
    <2> QED
      BY <1>1, <2>1, <2>2 DEF Streamed
  <1>8. CASE StreamError \/ StreamPanics \/ Abandon
    <2>1. UNCHANGED <<body, via, left, out, inbox, open, sent>> /\ Taken' = Taken
      BY <1>8, StreamFrame DEF StreamStop, Taken
    <2>2. result = "none"
      BY <1>8 DEF StreamError, StreamPanics, Abandon, Streaming, Ended
    <2>3. result' \notin {"ok", "end"} /\ (result' = "dropped" => faults' # {})
      BY <1>8, <2>2 DEF StreamError, StreamPanics, Abandon, Finish
    <2> QED
      BY <1>1, <2>1, <2>3 DEF Streamed
  <1>9. CASE LetGo
    BY <1>9, StreamFrame DEF LetGo, Streamed, Taken
  <1>10. ASSUME NEW size \in 1..Buf, StreamData(size) PROVE Streamed'
    <2>1. /\ size \in 1..Len(inbox) /\ Taken' = Taken + size
          /\ SubSeq(inbox, 1, size) \in Seq(Nat) /\ Len(SubSeq(inbox, 1, size)) = size
          /\ \A i \in 1..size : SubSeq(inbox, 1, size)[i] = Taken + i
      BY <1>0, <1>10, ReadEffect
    <2>2. /\ via # "none" /\ body.type = "Reader" /\ Take(size) /\ UNCHANGED <<via, result>>
          /\ out' = (IF via = "drop" THEN out ELSE out \o SubSeq(inbox, 1, size))
          /\ left' = (IF left = Unknown THEN left ELSE IF size < left THEN left - size ELSE 0)
          /\ result = "none"
      BY <1>10 DEF StreamData, Streaming, Ended
    <2>3. size \in Nat /\ size > 0
      BY <1>0, <2>1
    <2>4. via # "chunks" /\ body.len # Unknown => Taken' <= body.len
      <3> SUFFICES ASSUME via # "chunks", body.len # Unknown PROVE Taken' <= body.len
        OBVIOUS
      <3>0. /\ body.len \in Nat /\ Taken <= body.len
            /\ left = (IF Taken < body.len THEN body.len - Taken ELSE 0)
        BY <1>2, <2>2 DEF Streamed
      <3>1. body.len \in Nat /\ left = body.len - Taken /\ Taken <= body.len /\ left # Unknown
        BY <1>0, <3>0 DEF Unknown
      <3>2. size <= left
        BY <2>2, <3>1 DEF Take
      <3> QED
        BY <1>0, <2>1, <2>3, <3>1, <3>2
    <2>5. IF body.len = Unknown THEN left' = Unknown
          ELSE left' = (IF Taken' < body.len THEN body.len - Taken' ELSE 0)
      <3>1. CASE body.len = Unknown
        BY <2>2, <3>1 DEF Streamed
      <3>2. CASE body.len # Unknown
        <4>0. body.len \in Nat /\ left = (IF Taken < body.len THEN body.len - Taken ELSE 0)
          BY <1>2, <2>2, <3>2 DEF Streamed
        <4>1. left \in Nat
          BY <1>0, <4>0
        <4>2. left' = IF size < left THEN left - size ELSE 0
          BY <2>2, <4>1 DEF Unknown
        <4> QED
          BY <1>0, <2>1, <2>3, <3>2, <4>0, <4>2, SMTT(30)
      <3> QED
        BY <3>1, <3>2
    <2>6. IF via = "drop" THEN out' = << >>
          ELSE Len(out') = Taken' /\ \A i \in 1..Len(out') : out'[i] = i
      <3>1. CASE via = "drop"
        BY <2>2, <3>1 DEF Streamed
      <3>2. CASE via # "drop"
        <4>1. PICK t \in Seq(Nat) : t = SubSeq(inbox, 1, size)
          BY <2>1
        <4>2. Len(t) = size /\ (\A i \in 1..size : t[i] = Taken + i) /\ out' = out \o t
          BY <2>1, <2>2, <3>2, <4>1
        <4>3. Len(out) = Taken /\ \A i \in 1..Len(out) : out[i] = i
          BY <2>2, <3>2 DEF Streamed
        <4>4. /\ Len(out') = Len(out) + Len(t)
              /\ \A i \in 1..Len(out) : out'[i] = out[i]
              /\ \A i \in 1..Len(t) : out'[Len(out) + i] = t[i]
          <5>1. PICK o \in Seq(Nat) : o = out
            BY <1>0
          <5>2. /\ Len(o \o t) = Len(o) + Len(t)
                /\ \A i \in 1..Len(o) : (o \o t)[i] = o[i]
                /\ \A i \in 1..Len(t) : (o \o t)[Len(o) + i] = t[i]
            BY Concatenated
          <5> QED
            BY <4>2, <5>1, <5>2
        <4>5. ASSUME NEW i \in 1..Len(out') PROVE out'[i] = i
          <5>1. CASE i <= Len(out)
            BY <1>0, <4>3, <4>4, <5>1
          <5>2. CASE i > Len(out)
            <6>1. i - Len(out) \in 1..Len(t) /\ Len(out) + (i - Len(out)) = i
              BY <1>0, <2>3, <4>2, <4>4, <5>2
            <6>2. out'[Len(out) + (i - Len(out))] = t[i - Len(out)] /\ t[i - Len(out)] = Taken + (i - Len(out))
              BY <4>2, <4>4, <6>1
            <6> QED
              BY <1>0, <4>3, <6>1, <6>2
          <5>3. i \in Nat
            BY <1>0, <2>3, <4>2, <4>4
          <5> QED
            BY <1>0, <5>1, <5>2, <5>3
        <4>6. Len(out') = Taken'
          BY <2>1, <4>2, <4>3, <4>4
        <4> QED
          BY <3>2, <4>5, <4>6
      <3> QED
        BY <3>1, <3>2
    <2> QED
      BY <1>1, <2>2, <2>4, <2>5, <2>6 DEF Streamed
  <1> QED
    BY <1>3, <1>4, <1>5, <1>6, <1>7, <1>8, <1>9, <1>10, Steps DEF StreamStop

-----------------------------------------------------------------------------
(* A body in memory. *)

(* What the types say of the chunks and of what is joined from them. *)
LEMMA ChunksTyped ==
    ASSUME TypeOK
    PROVE  /\ IsBody(body) /\ body.into_chunks \in Seq(Chunks) /\ Len(body.into_chunks) \in Nat
           /\ items \in Seq(Chunks) /\ Len(items) \in Nat /\ cursor \in Seq(Nat) /\ out \in Seq(Nat)
           /\ Joined(body.into_chunks) \in Seq(Nat)
           /\ JoinedFrom(body.into_chunks)[Len(body.into_chunks) + 1] = << >>
           /\ Whence => Position \in 1..(Len(body.into_chunks) + 1) /\ Unread \in Seq(Nat)
           /\ items = << >> => Unread = << >>
  <1>1. /\ IsBody(body) /\ items \in Seq(Chunks) /\ Len(items) \in Nat /\ cursor \in Seq(Nat)
        /\ out \in Seq(Nat)
    BY BodyAssumption DEF TypeOK
  <1>2. body.into_chunks \in Seq(Chunks) /\ Len(body.into_chunks) \in Nat
    BY <1>1 DEF IsBody
  <1>3. /\ \A k \in 1..(Len(body.into_chunks) + 1) : JoinedFrom(body.into_chunks)[k] \in Seq(Nat)
        /\ JoinedFrom(body.into_chunks)[Len(body.into_chunks) + 1] = << >>
    BY <1>2, JoinedFromProperties
  <1>4. Joined(body.into_chunks) \in Seq(Nat)
    <2>1. 1 \in 1..(Len(body.into_chunks) + 1)
      BY <1>2
    <2> QED
      BY <1>3, <2>1 DEF Joined
  <1>5. ASSUME Whence PROVE Position \in 1..(Len(body.into_chunks) + 1) /\ Unread \in Seq(Nat)
    <2>1. Position \in 1..(Len(body.into_chunks) + 1)
      BY <1>1, <1>2, <1>5 DEF Whence, Position
    <2> QED
      BY <1>3, <2>1 DEF Unread
  <1>6. ASSUME items = << >> PROVE Unread = << >>
    <2>1. Position = Len(body.into_chunks) + 1
      BY <1>2, <1>6 DEF Position
    <2> QED
      BY <1>3, <2>1 DEF Unread
  <1> QED
    BY <1>1, <1>2, <1>3, <1>4, <1>5, <1>6

(* The next chunk of those that were not taken. *)
LEMMA NextTaken ==
    ASSUME TypeOK, Whence, items # << >>, UNCHANGED body,
           items' = IF Head(items).t = "error" THEN << >> ELSE Tail(items)
    PROVE  /\ Whence' /\ Head(items).bytes \in Seq(Nat) /\ items' \in Seq(Chunks)
           /\ IF Head(items).t = "error"
              THEN Fails(body.into_chunks) /\ Head(items).bytes = << >>
              ELSE Unread' \in Seq(Nat) /\ Unread = Head(items).bytes \o Unread'
  <1>1. PICK C \in Seq(Chunks) : C = body.into_chunks
    BY ChunksTyped
  <1>2. PICK p \in Nat : p = Position
    BY ChunksTyped
  <1>3. /\ Len(C) \in Nat /\ Len(items) \in Nat /\ Len(items) > 0 /\ Len(items) <= Len(C)
        /\ Head(items) = items[1] /\ Tail(items) \in Seq(Chunks) /\ Len(Tail(items)) = Len(items) - 1
        /\ \A i \in 1..(Len(items) - 1) : Tail(items)[i] = items[i + 1]
    BY <1>1, ChunksTyped, NonEmpty DEF Whence
  <1>4. p = Len(C) - Len(items) + 1 /\ p \in 1..Len(C) /\ p + 1 \in 1..(Len(C) + 1)
    BY <1>1, <1>2, <1>3 DEF Position
  <1>5. \A i \in 1..Len(items) : items[i] = C[Len(C) - Len(items) + i]
    BY <1>1 DEF Whence
  <1>6. Head(items) = C[p]
    BY <1>3, <1>4, <1>5
  <1>7. C[p].bytes \in Seq(Nat) /\ (C[p].t # "data" => C[p].bytes = << >>)
    BY <1>4, Bytes
  <1>8. /\ JoinedFrom(C)[p] = C[p].bytes \o JoinedFrom(C)[p + 1]
        /\ JoinedFrom(C)[p + 1] \in Seq(Nat)
    BY <1>4, JoinedFromProperties
  <1>9. body'.into_chunks = C
    BY <1>1
  <1>10. CASE Head(items).t = "error"
    <2>1. items' = << >> /\ Len(items') = 0
      BY <1>10
    <2>2. Whence'
      <3>1. Len(items') <= Len(C) /\ 1..Len(items') = {}
        BY <1>3, <2>1
      <3> QED
        BY <1>9, <3>1 DEF Whence
    <2>3. Fails(body.into_chunks)
      BY <1>1, <1>4, <1>6, <1>10 DEF Fails
    <2> QED
      BY <1>6, <1>7, <1>10, <2>1, <2>2, <2>3
  <1>11. CASE Head(items).t # "error"
    <2>1. items' = Tail(items)
      BY <1>11
    <2>2. PICK n \in Nat : n = Len(items) /\ n > 0 /\ n <= Len(C) /\ p = Len(C) - n + 1
      BY <1>3, <1>4
    <2>3. Len(items') = n - 1
      BY <1>3, <2>1, <2>2, Zenon
    <2>4. Whence'
      <3>1. Len(items') <= Len(C)
        BY <1>3, <2>1
      <3>2. ASSUME NEW i \in 1..Len(items') PROVE items'[i] = C[Len(C) - Len(items') + i]
        <4>1. i \in 1..(n - 1)
          BY <2>3, Zenon
        <4>2. i \in Nat /\ i + 1 \in 1..n /\ Len(C) - (n - 1) + i = Len(C) - n + (i + 1)
          BY <1>3, <4>1
        <4>3. /\ i \in 1..(Len(items) - 1) /\ i + 1 \in 1..Len(items)
              /\ Len(C) - Len(items') + i = Len(C) - Len(items) + (i + 1)
          BY <2>2, <2>3, <4>1, <4>2, Zenon
        <4> QED
          BY <1>3, <1>5, <2>1, <4>3
      <3> QED
        BY <1>9, <3>1, <3>2 DEF Whence
    <2>5. Position' = p + 1
      <3>1. Position' = Len(C) - Len(items') + 1
        BY <1>9 DEF Position
      <3> QED
        BY <1>3, <2>2, <2>3, <3>1
    <2> QED
      BY <1>1, <1>9, <1>2, <1>3, <1>6, <1>7, <1>8, <1>11, <2>1, <2>4, <2>5 DEF Unread
  <1> QED
    BY <1>10, <1>11

LEMMA InMemoryStep ==
    TypeOK /\ Ended /\ InMemory /\ [Next]_vars => InMemory'
  <1> SUFFICES ASSUME TypeOK, Ended, InMemory, [Next]_vars, body'.type # "Reader" PROVE InMemory'
    BY DEF InMemory
  <1>0. body' = body /\ body.type # "Reader"
    BY Steps, QuietFrame, MemoryFrame, StreamFrame DEF Peer, bodyVars, StreamData
  <1>1. /\ IsBody(body) /\ body.into_chunks \in Seq(Chunks) /\ Len(body.into_chunks) \in Nat
        /\ items \in Seq(Chunks) /\ Len(items) \in Nat /\ cursor \in Seq(Nat) /\ out \in Seq(Nat)
        /\ Joined(body.into_chunks) \in Seq(Nat)
        /\ JoinedFrom(body.into_chunks)[Len(body.into_chunks) + 1] = << >>
    BY ChunksTyped
  <1>2. ASSUME UNCHANGED bodyVars PROVE InMemory'
    BY <1>2 DEF InMemory, Whence, Divided, Unread, Position, bodyVars
  <1>3. ASSUME UNCHANGED <<body, via, items, cursor, out, faults>>,
               result' = result \/ (result' # "end" /\ via # "bytes")
                   \/ (result' = "end" /\ cursor = << >> /\ items = << >> /\ via # "bytes")
        PROVE  InMemory'
    BY <1>3 DEF InMemory, Whence, Divided, Unread, Position
  <1>4. CASE Abandon \/ LetGo
    BY <1>3, <1>4 DEF Abandon, LetGo, Finish
  <1>5. CASE MemoryEnd
    BY <1>3, <1>5 DEF MemoryEnd, Finish, Using
  <1>6. CASE IntoReader
    <2>1. /\ via = "none" /\ via' = "reader" /\ out = << >> /\ out' = << >> /\ result = "none"
          /\ result' = "none"
      BY <1>0, <1>6 DEF IntoReader, InMemory, Ended
    <2>2. SUFFICES Whence' /\ Divided'
      BY <2>1 DEF InMemory
    <2>3. PICK C \in Seq(Chunks) : C = body.into_chunks /\ C = body'.into_chunks /\ Len(C) \in Nat
      BY <1>0, <1>1
    <2>4. ASSUME NEW i \in NotTrailers(C), \A j \in NotTrailers(C) : i <= j,
                 cursor' = C[i].bytes, items' = SubSeq(C, i + 1, Len(C))
          PROVE  Whence' /\ Divided'
      <3>1. i \in 1..Len(C) /\ i + 1 \in 1..(Len(C) + 1) /\ i \in 1..(Len(C) + 1)
        BY <2>3 DEF NotTrailers
      <3>2. Len(items') = Len(C) - i /\ \A k \in 1..Len(items') : items'[k] = C[i + k]
        BY <2>3, <2>4, <3>1
      <3>3. Len(C) - Len(items') = i
        BY <2>3, <3>1, <3>2
      <3>4. Whence'
        BY <2>3, <3>1, <3>2, <3>3 DEF Whence
      <3>5. Unread' = JoinedFrom(C)[i + 1]
        BY <2>3, <3>3 DEF Unread, Position
      <3>6. \A j \in 1..(i - 1) : C[j].t = "trailers"
        BY <2>3, <2>4, <3>1, SMTT(30) DEF NotTrailers
      <3>7. JoinedFrom(C)[i] = Joined(C)
        BY <3>1, <3>6, TrailersInFront
      <3>8. JoinedFrom(C)[i] = C[i].bytes \o JoinedFrom(C)[i + 1] /\ C[i].bytes \in Seq(Nat)
        BY <3>1, JoinedFromProperties, Bytes
      <3>9. << >> \o C[i].bytes = C[i].bytes
        BY <3>8, ConcatEmptySeq
      <3>10. (out' \o cursor') \o Unread' = Joined(body'.into_chunks)
        BY <2>1, <2>3, <2>4, <3>5, <3>7, <3>8, <3>9
      <3> QED
        BY <3>4, <3>10 DEF Divided
    <2>5. ASSUME body.type = "Iter" => NotTrailers(C) = {}, cursor' = body.into_reader, items' = << >>
          PROVE  Whence' /\ Divided'
      <3>1. Len(items') = 0 /\ 1..Len(items') = {} /\ Len(items') <= Len(C)
            /\ Len(C) - Len(items') + 1 = Len(C) + 1
        BY <2>3, <2>5
      <3>2. Whence'
        BY <2>3, <3>1 DEF Whence
      <3>3. Unread' = << >>
        BY <1>1, <2>3, <3>1 DEF Unread, Position
      <3>4. body.into_reader = Joined(C)
        <4>1. CASE body.type = "Iter"
          <5>1. body.into_reader = << >>
            BY <1>1, <4>1 DEF IsBody
          <5>2. Len(C) + 1 \in 1..(Len(C) + 1) /\ \A j \in 1..(Len(C) + 1 - 1) : C[j].t = "trailers"
            BY <2>3, <2>5, <4>1 DEF NotTrailers
          <5>3. JoinedFrom(C)[Len(C) + 1] = Joined(C)
            BY <5>2, TrailersInFront
          <5> QED
            BY <1>1, <2>3, <5>1, <5>3
        <4>2. CASE body.type = "Memory"
          BY <1>1, <2>3, <4>2 DEF IsBody
        <4> QED
          BY <1>0, <1>1, <4>1, <4>2 DEF IsBody
      <3>5. (<< >> \o Joined(C)) \o << >> = Joined(C)
        BY <1>1, <2>3, ConcatEmptySeq
      <3> QED
        BY <2>1, <2>3, <2>5, <3>2, <3>3, <3>4, <3>5 DEF Divided
    <2> QED
      BY <1>6, <2>3, <2>4, <2>5 DEF IntoReader
  <1>7. CASE IntoChunks
    <2>1. /\ via' = "chunks" /\ out = << >> /\ out' = << >> /\ cursor = << >> /\ cursor' = << >>
          /\ result = "none" /\ result' = "none"
      BY <1>0, <1>7 DEF IntoChunks, InMemory, Ended
    <2>2. items' = body.into_chunks /\ body' = body
      BY <1>7 DEF IntoChunks
    <2>3. Len(items') = Len(body'.into_chunks) /\ Len(body'.into_chunks) - Len(items') = 0
      BY <1>1, <2>2
    <2>4. Whence'
      BY <1>1, <2>2, <2>3 DEF Whence
    <2>5. Unread' = Joined(body'.into_chunks)
      BY <2>3 DEF Unread, Position, Joined
    <2>6. (<< >> \o << >>) \o Joined(body'.into_chunks) = Joined(body'.into_chunks)
      BY <1>0, <1>1, ConcatEmptySeq
    <2>7. Divided'
      BY <2>1, <2>5, <2>6 DEF Divided
    <2> QED
      BY <2>1, <2>4, <2>7 DEF InMemory
  <1>8. CASE IntoBytes \/ DropBody
    BY <1>0, <1>8 DEF IntoBytes, DropBody, Finish, InMemory, Ended
  <1>9. ASSUME NEW size \in 1..Buf, ReadCursor(size) PROVE InMemory'
    <2>1. /\ via = "reader" /\ cursor # << >> /\ Whence /\ result = "none" /\ size \in Nat
          /\ UNCHANGED <<body, via, items, result>>
      BY <1>0, <1>9, BodyAssumption DEF ReadCursor, Using, InMemory, Ended
    <2>2. Divided
      BY <1>0, <2>1 DEF InMemory
    <2>3. (out \o cursor) \o Unread = Joined(body.into_chunks)
      BY <2>1, <2>2 DEF Divided
    <2>4. PICK a \in Seq(Nat), b \in Seq(Nat) : a \o b = cursor /\ out' = out \o a /\ cursor' = b
      BY <1>1, <1>9, <2>1, CutInTwo DEF ReadCursor
    <2>5. (out \o a) \o b = out \o cursor
      <3>1. (out \o a) \o b = out \o (a \o b)
        <4>1. PICK o \in Seq(Nat) : o = out
          BY <1>1
        <4>2. (o \o a) \o b = o \o (a \o b)
          BY Regrouped
        <4> QED
          BY <4>1, <4>2
      <3> QED
        BY <2>4, <3>1
    <2>6. Unread' = Unread /\ Whence'
      BY <2>1 DEF Unread, Position, Whence
    <2>7. Divided'
      BY <2>1, <2>3, <2>4, <2>5, <2>6 DEF Divided
    <2> QED
      BY <2>1, <2>6, <2>7 DEF InMemory
  <1>10. ASSUME Using("reader") \/ Using("chunks"), items # << >>, cursor = << >>, result' = result,
                UNCHANGED <<body, via, faults>>,
                items' = IF Head(items).t = "error" THEN << >> ELSE Tail(items),
                \/ out' = out /\ cursor' = Head(items).bytes /\ via = "reader"
                \/ out' = out \o Head(items).bytes /\ cursor' = cursor
         PROVE  InMemory'
    <2>1. via \in {"reader", "chunks"} /\ Whence /\ Divided /\ result = "none" /\ Unread \in Seq(Nat)
      BY <1>0, <1>10, ChunksTyped DEF Using, InMemory, Ended
    <2>2. out \o Unread = Joined(body.into_chunks)
      BY <1>1, <1>10, <2>1, EmptyRight DEF Divided
    <2>3. PICK h \in Seq(Nat) : h = Head(items).bytes
      BY <1>10, <2>1, NextTaken
    <2>4. Whence' /\ IF Head(items).t = "error"
                     THEN Fails(body.into_chunks) /\ h = << >>
                     ELSE Unread' \in Seq(Nat) /\ Unread = h \o Unread'
      BY <1>10, <2>1, <2>3, NextTaken
    <2>5. out' \o cursor' = out \o h
      <3>1. (out \o h) \o << >> = out \o h
        BY <1>1, EmptyRight
      <3> QED
        BY <1>10, <2>3, <3>1
    <2>6. CASE Head(items).t = "error"
      <3>1. items' = << >> /\ h = << >> /\ Fails(body'.into_chunks)
        BY <1>0, <1>10, <2>4, <2>6
      <3>2. out' = out /\ cursor' = << >>
        BY <1>1, <1>10, <2>3, <3>1, EmptyRight
      <3>3. Divided'
        BY <1>0, <2>1, <2>2, <3>1, <3>2 DEF Divided
      <3> QED
        BY <1>10, <2>1, <2>4, <3>2, <3>3 DEF InMemory
    <2>7. CASE Head(items).t # "error"
      <3>1. (out \o h) \o Unread' = out \o Unread
        <4>1. PICK u \in Seq(Nat) : u = Unread' /\ Unread = h \o u
          BY <2>4, <2>7
        <4>2. (out \o h) \o u = out \o (h \o u)
          <5>1. PICK o \in Seq(Nat) : o = out
            BY <1>1
          <5>2. (o \o h) \o u = o \o (h \o u)
            BY Regrouped
          <5> QED
            BY <5>1, <5>2
        <4> QED
          BY <4>1, <4>2
      <3>2. Divided'
        BY <1>0, <2>2, <2>5, <3>1 DEF Divided
      <3>3. via = "chunks" => cursor' = << >>
        BY <1>10
      <3> QED
        BY <1>10, <2>1, <2>4, <3>2, <3>3 DEF InMemory
    <2> QED
      BY <2>6, <2>7
  <1>11. CASE NextCursor \/ NextChunk
    <2>1. NextChunk => cursor = << >>
      BY <1>0 DEF NextChunk, Using, InMemory
    <2> QED
      BY <1>10, <1>11, <2>1 DEF NextCursor, NextChunk, Using
  <1>12. CASE ReadNothing
    <2>1. /\ via = "reader" /\ Whence /\ Divided /\ result = "none" /\ Unread \in Seq(Nat)
          /\ cursor # << >> \/ items # << >>
      BY <1>0, <1>12, ChunksTyped DEF ReadNothing, Using, InMemory, Ended, NotTrailers
    <2>2. (out \o cursor) \o Unread = Joined(body.into_chunks)
      BY <2>1 DEF Divided
    <2>3. out \o (cursor \o Unread) = Joined(body'.into_chunks) /\ cursor \o Unread \in Seq(Nat)
      BY <1>0, <1>1, <2>1, <2>2, Regrouped, Zenon
    <2>4. /\ items' = << >> /\ cursor' = << >> /\ "skipped" \in faults' /\ UNCHANGED <<out, via, result>>
      BY <1>12 DEF ReadNothing
    <2>5. Divided'
      BY <2>3, <2>4 DEF Divided
    <2>6. Whence'
      <3>1. Len(items') = 0 /\ 1..Len(items') = {} /\ Len(items') <= Len(body'.into_chunks)
        BY <1>0, <1>1, <2>4
      <3> QED
        BY <3>1 DEF Whence
    <2> QED
      BY <2>1, <2>4, <2>5, <2>6 DEF InMemory
  <1>13. CASE Quiet \/ Peer
    BY <1>2, <1>13, QuietFrame DEF Peer
  <1>14. StreamStop \/ (\E size \in 1..Buf : StreamData(size)) => body.type = "Reader"
    BY DEF StreamStop, StreamEnd, StreamError, StreamPanics, StreamData, Streaming
  <1> QED
    BY <1>0, <1>4, <1>5, <1>6, <1>7, <1>8, <1>9, <1>11, <1>12, <1>13, <1>14, Steps DEF Turn, MemoryStep

-----------------------------------------------------------------------------
(* The types. *)
LEMMA ConnTypeStep == TypeOK /\ Owning /\ [Next]_vars => ConnTypeOK'
  <1> SUFFICES ASSUME TypeOK, Owning, [Next]_vars PROVE ConnTypeOK'
    OBVIOUS
  <1> USE DEF connVars, bodyVars, ConnTypeOK
  <1>0. Handles = {"reader", "writer"} /\ ConnTypeOK /\ inner \subseteq {"writer"}
        /\ (busy["reader"] # "idle" => "reader" \in alive) /\ (busy["writer"] # "idle" => "writer" \in alive)
    BY BodyAssumption DEF TypeOK, Owning
  <1>1. ASSUME UNCHANGED <<kind, limit, alive, busy, lock, poisoned, inner>>, open' \in BOOLEAN
        PROVE  ConnTypeOK'
    BY <1>0, <1>1
  <1>2. CASE Quiet
    <2>1. CASE BeginStreamRead \/ LockStream
      BY <1>0, <2>1 DEF BeginStreamRead, LockStream, BeginRead, Lock
    <2>2. CASE BeginReply
      BY <1>0, <2>2 DEF BeginReply, BeginWrite
    <2>3. CASE Reply
      <3>1. CASE EndWrite("writer")
        BY <1>0, <3>1 DEF EndWrite
      <3>2. CASE WritePanics("writer")
        <4>1. inner = {}
          BY <1>0, <3>2 DEF WritePanics, Owning
        <4> QED
          BY <1>0, <3>2, <4>1 DEF WritePanics, Panics
      <3> QED
        BY <2>3, <3>1, <3>2 DEF Reply, Write, WriteFails
    <2>4. CASE Upgrade
      <3>1. CASE Downcast("writer")
        BY <1>0, <3>1 DEF Downcast
      <3>2. CASE DowncastPanics("writer")
        <4>1. inner = {}
          BY <1>0, <3>2 DEF DowncastPanics, Owning
        <4> QED
          BY <1>0, <3>2, <4>1 DEF DowncastPanics
      <3> QED
        BY <2>4, <3>1, <3>2 DEF Upgrade
    <2>5. CASE Rest \/ UNCHANGED vars
      BY <1>0, <1>1, <2>5 DEF Rest, vars
    <2> QED
      BY <1>2, <2>1, <2>2, <2>3, <2>4, <2>5 DEF Quiet
  <1>3. CASE Peer
    BY <1>0, <1>1, <1>3 DEF Peer, PeerSends, PeerCloses
  <1>4. CASE Turn \/ MemoryStep \/ Abandon
    BY <1>0, <1>1, <1>4 DEF Turn, IntoReader, IntoChunks, IntoBytes, DropBody, MemoryStep, NextCursor,
        NextChunk, MemoryEnd, ReadNothing, ReadCursor, Abandon
  <1>5. ASSUME EndRead("reader") PROVE ConnTypeOK'
    BY <1>0, <1>5 DEF EndRead
  <1>6. ASSUME NEW size \in 1..Buf, StreamData(size) PROVE ConnTypeOK'
    BY <1>5, <1>6 DEF StreamData, ReadData
  <1>7. CASE StreamStop
    <2>1. CASE UNCHANGED connVars
      BY <1>0, <1>1, <2>1
    <2>2. CASE LockFails("reader")
      BY <1>0, <2>2 DEF LockFails
    <2>3. CASE ReadPanics("reader")
      <3>1. "reader" \notin inner
        BY <1>0
      <3> QED
        BY <1>0, <2>3, <3>1 DEF ReadPanics, Panics
    <2> QED
      BY <1>5, <1>7, <2>1, <2>2, <2>3 DEF StreamStop, StreamEnd, StreamError, StreamPanics, ReadEof, ReadTimesOut
  <1>8. CASE LetGo
    BY <1>0, <1>8 DEF LetGo, DropHandle
  <1> QED
    BY <1>2, <1>3, <1>4, <1>6, <1>7, <1>8, Steps

LEMMA TypeStep == TypeOK /\ Owning /\ Numbered /\ Streamed /\ InMemory /\ [Next]_vars => TypeOK'
  <1> SUFFICES ASSUME TypeOK, Owning, Numbered, Streamed, InMemory, [Next]_vars PROVE TypeOK'
    OBVIOUS
  <1>0. /\ IsBody(body) /\ body.into_chunks \in Seq(Chunks) /\ body.into_reader \in Seq(Nat)
        /\ items \in Seq(Chunks) /\ cursor \in Seq(Nat) /\ out \in Seq(Nat)
        /\ Joined(body.into_chunks) \in Seq(Nat)
    BY ChunksTyped DEF IsBody
  <1>1. /\ ConnTypeOK' /\ body \in Bodies /\ via \in {"none", "reader", "bytes", "chunks", "drop"}
        /\ phase \in {"use", "done", "gone"} /\ left \in Nat \cup {Unknown}
        /\ result \in {"none", "end", "ok", "err", "dropped", "abandoned", "died"}
        /\ faults \subseteq {"failed", "skipped"} /\ sent \in 0..PeerBytes
        /\ reply \in {"none", "sent", "failed"}
    BY ConnTypeStep DEF TypeOK
  <1>2. /\ body' \in Bodies /\ via' \in {"none", "reader", "bytes", "chunks", "drop"}
        /\ phase' \in {"use", "done", "gone"}
    <2>1. CASE Quiet \/ Peer
      BY <1>1, <2>1, QuietFrame DEF bodyVars, Peer
    <2>2. CASE Turn \/ MemoryStep
      BY <1>1, <2>2 DEF Turn, IntoReader, IntoChunks, IntoBytes, DropBody, MemoryStep, NextCursor,
        NextChunk, MemoryEnd, ReadNothing, ReadCursor, Finish
    <2>3. CASE StreamStop \/ Abandon \/ LetGo
      BY <1>1, <2>3 DEF StreamStop, StreamEnd, StreamError, StreamPanics, Abandon, LetGo, Finish
    <2>4. CASE \E size \in 1..Buf : StreamData(size)
      BY <1>1, <2>4 DEF StreamData
    <2> QED
      BY <2>1, <2>2, <2>3, <2>4, Steps
  <1>3. /\ result' \in {"none", "end", "ok", "err", "dropped", "abandoned", "died"}
        /\ faults' \subseteq {"failed", "skipped"}
    <2>1. CASE Quiet \/ Peer
      BY <1>1, <2>1, QuietFrame DEF bodyVars, Peer
    <2>2. CASE Turn \/ MemoryStep
      BY <1>1, <2>2 DEF Turn, IntoReader, IntoChunks, IntoBytes, DropBody, MemoryStep, NextCursor,
        NextChunk, MemoryEnd, ReadNothing, ReadCursor, Finish
    <2>3. CASE StreamStop \/ Abandon \/ LetGo
      <3>1. AtEnd \in {"ok", "dropped", "end"}
        BY DEF AtEnd
      <3> QED
        BY <1>1, <2>3, <3>1 DEF StreamStop, StreamEnd, StreamError, StreamPanics, Abandon, LetGo, Finish
    <2>4. CASE \E size \in 1..Buf : StreamData(size)
      BY <1>1, <2>4 DEF StreamData
    <2> QED
      BY <2>1, <2>2, <2>3, <2>4, Steps
  <1>4. sent' \in 0..PeerBytes /\ reply' \in {"none", "sent", "failed"}
    <2>1. CASE Quiet
      BY <1>1, <2>1 DEF Quiet, BeginStreamRead, LockStream, BeginReply, Reply, Upgrade, Rest, vars
    <2>2. CASE Peer
      BY <1>1, <2>2, BodyAssumption DEF Peer
    <2>3. CASE Turn \/ MemoryStep
      BY <1>1, <2>3 DEF Turn, IntoReader, IntoChunks, IntoBytes, DropBody, MemoryStep, NextCursor,
        NextChunk, MemoryEnd, ReadNothing, ReadCursor
    <2>4. CASE StreamStop \/ Abandon \/ LetGo \/ \E size \in 1..Buf : StreamData(size)
      BY <1>1, <2>4 DEF StreamStop, StreamEnd, StreamError, StreamPanics, Abandon, LetGo, StreamData
    <2> QED
      BY <2>1, <2>2, <2>3, <2>4, Steps
  <1>5. left' \in Nat \cup {Unknown}
    <2>1. ASSUME NEW size \in 1..Buf, StreamData(size) PROVE left' \in Nat \cup {Unknown}
      BY <1>1, <2>1, BodyAssumption DEF StreamData, Unknown
    <2>2. (\E size \in 1..Buf : StreamData(size)) \/ UNCHANGED left
      BY Steps, QuietFrame, MemoryFrame, StreamFrame DEF bodyVars, Peer
    <2> QED
      BY <1>1, <2>1, <2>2
  <1>6. items' \in Seq(Chunks) /\ cursor' \in Seq(Nat) /\ out' \in Seq(Nat)
    <2>0. ASSUME UNCHANGED <<items, cursor, out>>
          PROVE  items' \in Seq(Chunks) /\ cursor' \in Seq(Nat) /\ out' \in Seq(Nat)
      BY <1>0, <2>0
    <2>1. CASE Quiet \/ Peer
      BY <2>0, <2>1, QuietFrame DEF bodyVars, Peer
    <2>2. CASE StreamStop \/ Abandon \/ LetGo
      BY <2>0, <2>2, StreamFrame
    <2>3. ASSUME NEW size \in 1..Buf, StreamData(size)
          PROVE  items' \in Seq(Chunks) /\ cursor' \in Seq(Nat) /\ out' \in Seq(Nat)
      <3>1. sent \in Nat
        BY <1>1, BodyAssumption
      <3>2. PICK t \in Seq(Nat) : t = SubSeq(inbox, 1, size)
        BY <2>3, <3>1, ReadEffect
      <3>3. out \o t \in Seq(Nat)
        BY <1>0, Concatenated
      <3> QED
        BY <1>0, <2>3, <3>2, <3>3 DEF StreamData
    <2>4. CASE Turn
      <3>1. ASSUME NEW i \in NotTrailers(body.into_chunks)
            PROVE  /\ body.into_chunks[i].bytes \in Seq(Nat)
                   /\ SubSeq(body.into_chunks, i + 1, Len(body.into_chunks)) \in Seq(Chunks)
        BY <1>0, Bytes DEF NotTrailers
      <3>2. << >> \in Seq(Chunks)
        OBVIOUS
      <3>3. CASE IntoReader
        BY <1>0, <3>1, <3>2, <3>3 DEF IntoReader
      <3> QED
        BY <1>0, <2>4, <3>2, <3>3 DEF Turn, IntoChunks, IntoBytes, DropBody
    <2>5. CASE NextCursor \/ NextChunk
      <3>1. Whence /\ UNCHANGED body /\ items # << >>
        BY <2>5 DEF InMemory, NextCursor, NextChunk, Using
      <3>2. PICK h \in Seq(Nat) : h = Head(items).bytes /\ items' \in Seq(Chunks)
        BY <2>5, <3>1, NextTaken DEF NextCursor, NextChunk
      <3>3. out \o h \in Seq(Nat)
        BY <1>0, Concatenated
      <3> QED
        BY <1>0, <2>5, <3>2, <3>3 DEF NextCursor, NextChunk
    <2>6. CASE MemoryEnd \/ ReadNothing
      <3>1. << >> \in Seq(Chunks) /\ << >> \in Seq(Nat)
        OBVIOUS
      <3> QED
        BY <1>0, <2>0, <2>6, <3>1 DEF MemoryEnd, ReadNothing
    <2>7. ASSUME NEW size \in 1..Buf, ReadCursor(size)
          PROVE  items' \in Seq(Chunks) /\ cursor' \in Seq(Nat) /\ out' \in Seq(Nat)
      <3>1. size \in Nat
        BY BodyAssumption
      <3>2. PICK a \in Seq(Nat), b \in Seq(Nat) : out' = out \o a /\ cursor' = b
        BY <1>0, <2>7, <3>1, CutInTwo DEF ReadCursor
      <3>3. out \o a \in Seq(Nat)
        BY <1>0, Concatenated
      <3> QED
        BY <1>0, <2>7, <3>2, <3>3 DEF ReadCursor
    <2> QED
      BY <2>1, <2>2, <2>3, <2>4, <2>5, <2>6, <2>7, Steps DEF MemoryStep
  <1> QED
    BY <1>1, <1>2, <1>3, <1>4, <1>5, <1>6 DEF TypeOK

-----------------------------------------------------------------------------
LEMMA InitInv == Init => BodyInv
  <1> SUFFICES ASSUME Init PROVE BodyInv
    OBVIOUS
  <1> USE DEF Init, ConnInit
  <1>1. IsBody(body) /\ body.len \in Nat \cup {Unknown} /\ Handles = {"reader", "writer"} /\ PeerBytes \in Nat
    BY BodyAssumption DEF IsBody
  <1>2. TypeOK
    <2>1. ConnTypeOK
      BY <1>1 DEF ConnTypeOK
    <2>2. << >> \in Seq(Chunks) /\ << >> \in Seq(Nat)
      OBVIOUS
    <2> QED
      BY <1>1, <2>1, <2>2 DEF TypeOK
  <1>3. Owning
    BY <1>1 DEF Owning
  <1>4. Numbered /\ Taken = 0
    <2>1. inbox = << >> /\ sent = 0
      OBVIOUS
    <2>2. Len(inbox) = 0 /\ inbox \in Seq(Nat)
      BY ONLY <2>1
    <2>3. \A i \in 1..Len(inbox) : inbox[i] = Taken + i
      BY ONLY <2>2
    <2>4. sent = 0 /\ Len(inbox) = 0
      BY ONLY <2>1, <2>2
    <2>5. Taken = 0
      BY ONLY <2>4 DEF Taken
    <2> QED
      BY ONLY <2>1, <2>2, <2>3, <2>5 DEF Numbered
  <1>5. Ended /\ InMemory
    BY DEF Ended, InMemory
  <1>6. Streamed
    BY <1>1, <1>4 DEF Streamed, Unknown
  <1> QED
    BY <1>2, <1>3, <1>4, <1>5, <1>6 DEF BodyInv

(* The inductive invariant of a body and its connection. *)
THEOREM BodyInvHolds == Spec => []BodyInv
  <1>1. BodyInv /\ [Next]_vars => BodyInv'
    BY TypeStep, OwningStep, NumberedStep, EndedStep, StreamedStep, InMemoryStep DEF BodyInv
  <1> QED
    BY <1>1, InitInv, PTL DEF Spec

(* Every variable keeps its type. *)
THEOREM TypeCorrect == Spec => []TypeOK
  BY BodyInvHolds, PTL DEF BodyInv

(* A body of known length leaves what follows it on the connection, however *)
(* the peer splits its bytes and whatever the sizes of the reads.           *)
THEOREM RestLeftAlone == Spec => []RestIntact
  <1>1. ASSUME BodyInv PROVE RestIntact
    <2> SUFFICES ASSUME body.type = "Reader", body.len # Unknown, via # "chunks" PROVE RestIntact
      BY DEF RestIntact, MayReadOn
    <2>1. /\ sent \in Nat /\ inbox \in Seq(Nat) /\ Len(inbox) \in Nat /\ Len(inbox) <= sent
          /\ Taken = sent - Len(inbox)
          /\ \A i \in 1..Len(inbox) : inbox[i] = Taken + i
      BY <1>1, BodyAssumption DEF BodyInv, TypeOK, Numbered, Taken
    <2>2. PICK len \in Nat : len = body.len
      BY <1>1, BodyAssumption DEF BodyInv, TypeOK, IsBody
    <2>3. Taken <= len /\ left = (IF Taken < len THEN len - Taken ELSE 0)
      BY <1>1, <2>2 DEF BodyInv, Streamed
    <2>4. PICK n \in Nat : n = (IF sent > len THEN sent - len ELSE 0)
      BY <2>1, <2>2
    <2>5. n <= Len(inbox) /\ (n > 0 => Len(inbox) - n + Taken = len)
      BY <2>1, <2>2, <2>3, <2>4
    <2> DEFINE rest == [i \in 1..n |-> len + i]
    <2>6. Len(rest) = n /\ rest \in Seq(Nat)
      BY <2>2, <2>4
    <2>7. IsSuffix(rest, inbox)
      <3>1. Reverse(rest) = [i \in 1..n |-> rest[(n - i) + 1]]
        BY <2>6 DEF Reverse
      <3>2. Reverse(inbox) = [i \in 1..Len(inbox) |-> inbox[(Len(inbox) - i) + 1]]
        BY DEF Reverse
      <3>3. /\ Reverse(rest) \in Seq(Nat) /\ Len(Reverse(rest)) = n
            /\ Reverse(inbox) \in Seq(Nat) /\ Len(Reverse(inbox)) = Len(inbox)
        BY <2>1, <2>6 DEF Reverse
      <3>4. ASSUME NEW i \in 1..n PROVE Reverse(rest)[i] = Reverse(inbox)[i]
        <4>1. (n - i) + 1 \in 1..n /\ i \in 1..Len(inbox) /\ (Len(inbox) - i) + 1 \in 1..Len(inbox)
          BY <2>1, <2>5
        <4>2. Reverse(rest)[i] = len + ((n - i) + 1)
          BY <3>1, <4>1
        <4>3. Reverse(inbox)[i] = Taken + ((Len(inbox) - i) + 1)
          BY <2>1, <3>2, <4>1
        <4>4. len + ((n - i) + 1) = Taken + ((Len(inbox) - i) + 1)
          BY <2>1, <2>2, <2>4, <2>5, SMTT(30)
        <4> QED
          BY <4>2, <4>3, <4>4
      <3> HIDE DEF rest
      <3>5. SubSeq(Reverse(rest), 1, n) = SubSeq(Reverse(inbox), 1, n)
        <4>1. PICK r \in Seq(Nat) : r = Reverse(rest)
          BY <3>3
        <4>2. PICK x \in Seq(Nat) : x = Reverse(inbox)
          BY <3>3
        <4>3. Len(r) = n /\ n <= Len(x) /\ \A i \in 1..n : r[i] = x[i]
          BY <2>5, <3>3, <3>4, <4>1, <4>2
        <4>4. SubSeq(r, 1, n) = SubSeq(x, 1, n)
          BY <2>4, <4>3
        <4> QED
          BY <4>1, <4>2, <4>4
      <3> QED
        BY <2>5, <3>3, <3>5 DEF IsSuffix, IsPrefix
    <2>8. ASSUME result \in {"ok", "end"} \/ (result = "dropped" /\ faults = {}) PROVE inbox = rest
      <3>1. left = 0 \/ (inbox = << >> /\ ~open)
        BY <1>1, <2>8 DEF BodyInv, Streamed
      <3>2. Len(inbox) = n
        <4>1. CASE left = 0
          BY <2>1, <2>2, <2>3, <2>4, <4>1
        <4>2. CASE inbox = << >>
          BY <2>1, <2>5, <4>2
        <4> QED
          BY <3>1, <4>1, <4>2
      <3>3. \A i \in 1..n : inbox[i] = rest[i]
        BY <2>1, <2>2, <2>5, <3>2, SMTT(30)
      <3> QED
        BY <2>1, <2>6, <3>2, <3>3
    <2> QED
      BY <2>2, <2>4, <2>7, <2>8 DEF RestIntact
  <1> QED
    BY <1>1, BodyInvHolds, PTL

-----------------------------------------------------------------------------
(* Prefixes. *)
LEMMA PrefixOf ==
    ASSUME NEW s \in Seq(Nat), NEW t \in Seq(Nat), Len(s) <= Len(t), \A i \in 1..Len(s) : s[i] = t[i]
    PROVE  IsPrefix(s, t)
  <1>1. SubSeq(s, 1, Len(s)) = SubSeq(t, 1, Len(s))
    OBVIOUS
  <1> QED
    BY <1>1 DEF IsPrefix

LEMMA PrefixOfConcatenation ==
    ASSUME NEW s \in Seq(Nat), NEW rest \in Seq(Nat)
    PROVE  IsPrefix(s, s \o rest)
  <1>0. s \o rest \in Seq(Nat)
    OBVIOUS
  <1>1. PICK t \in Seq(Nat) : t = s \o rest
    BY <1>0
  <1>2. Len(s) <= Len(t) /\ \A i \in 1..Len(s) : s[i] = t[i]
    BY <1>1
  <1> QED
    BY <1>1, <1>2, PrefixOf

(* The first n bytes that the peer sends. *)
LEMMA FirstBytes ==
    ASSUME NEW n \in Nat
    PROVE  /\ [i \in 1..n |-> i] \in Seq(Nat) /\ Len([i \in 1..n |-> i]) = n
           /\ \A i \in 1..n : [j \in 1..n |-> j][i] = i
  OBVIOUS

LEMMA NoneFails == ~Fails(<< >>)
  BY DEF Fails

(* A Reader has given the application the first bytes that the peer has     *)
(* sent, and not more than those of the body.                               *)
LEMMA SameBytesStreamed == BodyInv /\ body.type = "Reader" => SameBytes
  <1> SUFFICES ASSUME BodyInv, body.type = "Reader" PROVE SameBytes
    OBVIOUS
  <1>1. /\ sent \in 0..PeerBytes /\ PeerBytes \in Nat /\ sent \in Nat /\ out \in Seq(Nat) /\ Len(out) \in Nat
        /\ Len(inbox) \in Nat /\ Len(inbox) <= sent /\ Taken = sent - Len(inbox)
    BY BodyAssumption DEF BodyInv, TypeOK, Numbered, Taken
  <1>2. IsBody(body) /\ body.len \in Nat \cup {Unknown} /\ body.into_chunks = << >>
    BY BodyAssumption DEF BodyInv, TypeOK, IsBody
  <1>3. Unknown \notin Nat
    BY DEF Unknown
  <1>4. PICK n \in Nat : n = (IF body.len = Unknown THEN PeerBytes ELSE body.len)
    BY <1>1, <1>2
  <1>5. PICK whole \in Seq(Nat) : whole = [i \in 1..n |-> i] /\ Len(whole) = n /\ \A i \in 1..n : whole[i] = i
    BY <1>4, FirstBytes
  <1>6. Content(body) = whole
    BY <1>4, <1>5 DEF Content
  <1>7. /\ via # "chunks" /\ body.len # Unknown => Taken <= n
        /\ body.len # Unknown => left = (IF Taken < n THEN n - Taken ELSE 0)
        /\ body.len = Unknown => left = Unknown
        /\ IF via = "drop" THEN out = << >> ELSE Len(out) = Taken /\ \A i \in 1..Len(out) : out[i] = i
        /\ result \in {"ok", "end"} => left = 0 \/ (inbox = << >> /\ ~open)
    BY <1>4 DEF BodyInv, Streamed
  <1>8. Len(out) <= sent /\ (via # "chunks" => Len(out) <= n) /\ \A i \in 1..Len(out) : out[i] = i
    <2>1. CASE via = "drop"
      <3>1. out = << >>
        BY <1>7, <2>1
      <3>2. Len(out) = 0
        BY <3>1
      <3> QED
        BY <1>1, <1>4, <3>2
    <2>2. CASE via # "drop"
      <3>1. Len(out) = Taken /\ \A i \in 1..Len(out) : out[i] = i
        BY <1>7, <2>2
      <3>2. via # "chunks" => Taken <= n
        BY <1>1, <1>4, <1>7
      <3> QED
        BY <1>1, <3>1, <3>2
    <2> QED
      BY <2>1, <2>2
  <1>9. IsPrefix(out, IF MayReadOn THEN [i \in 1..sent |-> i] ELSE Content(body))
    <2>1. CASE via = "chunks"
      <3>1. PICK all \in Seq(Nat) : all = [i \in 1..sent |-> i] /\ Len(all) = sent /\ \A i \in 1..sent : all[i] = i
        BY <1>1, FirstBytes
      <3>2. Len(out) <= Len(all) /\ \A i \in 1..Len(out) : out[i] = all[i]
        BY <1>1, <1>8, <3>1
      <3>3. IsPrefix(out, all)
        BY <1>1, <3>2, PrefixOf
      <3> QED
        BY <2>1, <3>1, <3>3 DEF MayReadOn
    <2>2. CASE via # "chunks"
      <3>1. Len(out) <= Len(whole) /\ \A i \in 1..Len(out) : out[i] = whole[i]
        BY <1>1, <1>4, <1>5, <1>8, <2>2
      <3>2. IsPrefix(out, whole)
        BY <1>1, <3>1, PrefixOf
      <3> QED
        BY <1>6, <2>2, <3>2 DEF MayReadOn
    <2> QED
      BY <2>1, <2>2
  <1>10. ASSUME result \in {"ok", "end"} PROVE Cut \/ (n <= Len(out) /\ IsPrefix(whole, out))
    <2> SUFFICES ASSUME ~Cut PROVE n <= Len(out) /\ IsPrefix(whole, out)
      OBVIOUS
    <2>1. open \/ sent >= n
      BY <1>1, <1>4, <1>5, <1>6 DEF Cut
    <2>2. Len(out) = Taken
      BY <1>7, <1>10 DEF BodyInv, Ended
    <2>3. n <= Taken
      <3>1. CASE left = 0
        BY <1>1, <1>3, <1>4, <1>7, <3>1
      <3>2. CASE inbox = << >> /\ ~open
        <4>1. Len(inbox) = 0
          BY <3>2
        <4> QED
          BY <1>1, <1>4, <2>1, <3>2, <4>1
      <3> QED
        BY <1>7, <1>10, <3>1, <3>2
    <2>4. Len(whole) <= Len(out) /\ \A i \in 1..Len(whole) : whole[i] = out[i]
      BY <1>1, <1>4, <1>5, <1>8, <2>2, <2>3, SMTT(30)
    <2> QED
      BY <1>1, <1>5, <2>4, PrefixOf
  <1>11. ASSUME result = "ok" PROVE Cut \/ (out = Content(body) /\ ~Fails(body.into_chunks))
    <2> SUFFICES ASSUME ~Cut PROVE out = whole /\ ~Fails(body.into_chunks)
      BY <1>6
    <2>1. via # "chunks"
      BY <1>11 DEF BodyInv, Ended
    <2>2. Len(out) = Len(whole)
      BY <1>1, <1>4, <1>5, <1>8, <1>10, <1>11, <2>1
    <2>3. \A i \in 1..Len(out) : out[i] = whole[i]
      BY <1>1, <1>4, <1>5, <1>8, <2>2
    <2>4. out = whole
      BY <1>1, <1>5, <2>2, <2>3
    <2> QED
      BY <1>2, <2>4, NoneFails
  <1>12. result = "end" => Cut \/ IsPrefix(Content(body), out)
    BY <1>6, <1>10
  <1> QED
    BY <1>9, <1>11, <1>12 DEF SameBytes

(* What was got of a body in memory is a prefix of it: the cursor and the   *)
(* chunks that were not taken are the rest.                                 *)
LEMMA SameBytesInMemory == BodyInv /\ body.type # "Reader" => SameBytes
  <1> SUFFICES ASSUME BodyInv, body.type # "Reader" PROVE SameBytes
    OBVIOUS
  <1>1. IsBody(body) /\ body.into_chunks \in Seq(Chunks) /\ out \in Seq(Nat) /\ cursor \in Seq(Nat)
    BY BodyAssumption DEF BodyInv, TypeOK, IsBody
  <1>2. body.type \in {"Memory", "Iter"}
    BY <1>1 DEF IsBody
  <1>3. Joined(body.into_chunks) \in Seq(Nat)
    <2>1. \A k \in 1..(Len(body.into_chunks) + 1) : JoinedFrom(body.into_chunks)[k] \in Seq(Nat)
      BY <1>1, JoinedFromProperties
    <2>2. 1 \in 1..(Len(body.into_chunks) + 1)
      BY <1>1
    <2> QED
      BY <2>1, <2>2 DEF Joined
  <1>4. PICK whole \in Seq(Nat) : whole = Joined(body.into_chunks)
    BY <1>3
  <1>5. Content(body) = whole
    <2>1. CASE body.type = "Memory"
      BY <1>1, <1>4, <2>1 DEF Content, IsBody
    <2>2. CASE body.type = "Iter"
      BY <1>4, <2>2 DEF Content
    <2> QED
      BY <1>2, <2>1, <2>2
  <1>6. ~MayReadOn
    BY DEF MayReadOn
  <1>7. via \in {"none", "reader", "bytes", "chunks", "drop"}
    BY DEF BodyInv, TypeOK
  <1>8. CASE via \in {"none", "drop"} \/ (via = "bytes" /\ Fails(body.into_chunks))
    <2>1. out = << >> /\ result \notin {"ok", "end"}
      BY <1>8 DEF BodyInv, InMemory, Ended
    <2>2. IsPrefix(<< >>, whole)
      <3>1. << >> \o whole = whole
        BY ConcatEmptySeq
      <3>2. << >> \in Seq(Nat)
        OBVIOUS
      <3>3. PICK e \in Seq(Nat) : e = << >>
        BY <3>2
      <3>4. IsPrefix(e, e \o whole)
        BY PrefixOfConcatenation
      <3> QED
        BY <3>1, <3>3, <3>4
    <2> QED
      BY <1>5, <1>6, <2>1, <2>2 DEF SameBytes
  <1>9. CASE via = "bytes" /\ ~Fails(body.into_chunks)
    <2>1. out = whole
      BY <1>4, <1>9 DEF BodyInv, InMemory
    <2>2. IsPrefix(whole, whole)
      BY PrefixOf
    <2> QED
      BY <1>5, <1>6, <1>9, <2>1, <2>2 DEF SameBytes
  <1>10. CASE via \in {"reader", "chunks"}
    <2>1. Whence /\ Divided /\ result # "ok"
      BY <1>10 DEF BodyInv, InMemory, Ended
    <2>2. CASE (out \o cursor) \o Unread = Joined(body.into_chunks)
      <3>1. Len(items) \in Nat /\ Len(body.into_chunks) \in Nat /\ Position \in 1..(Len(body.into_chunks) + 1)
        BY <1>1, <2>1 DEF BodyInv, TypeOK, Whence, Position
      <3>2. PICK rest \in Seq(Nat) : rest = Unread
        BY <1>1, <3>1, JoinedFromProperties DEF Unread
      <3>3. out \o (cursor \o rest) = whole /\ cursor \o rest \in Seq(Nat)
        <4>1. (out \o cursor) \o rest = out \o (cursor \o rest) /\ cursor \o rest \in Seq(Nat)
          BY <1>1, Regrouped, SMTT(30)
        <4> QED
          BY <1>4, <2>2, <3>2, <4>1, Zenon
      <3>4. IsPrefix(out, whole)
        BY <1>1, <3>3, PrefixOfConcatenation
      <3>5. ASSUME result = "end" PROVE IsPrefix(whole, out)
        <4>1. cursor = << >> /\ items = << >>
          BY <3>5 DEF BodyInv, InMemory
        <4>2. Len(items) = 0
          BY <4>1
        <4>3. Position = Len(body.into_chunks) + 1
          BY <3>1, <4>2 DEF Position
        <4>4. rest = << >>
          BY <1>1, <3>2, <4>3, JoinedFromProperties DEF Unread
        <4>5. (out \o << >>) \o << >> = whole
          BY <1>4, <2>2, <3>2, <4>1, <4>4
        <4>6. out = whole
          BY <1>1, <4>5, EmptyRight
        <4> QED
          BY <4>6, PrefixOf
      <3> QED
        BY <1>5, <1>6, <2>1, <3>4, <3>5 DEF SameBytes
    <2>3. CASE /\ "skipped" \in faults \/ Fails(body.into_chunks)
               /\ \E rest \in Seq(Nat) : out \o rest = Joined(body.into_chunks)
      <3>1. PICK rest \in Seq(Nat) : out \o rest = whole
        BY <1>4, <2>3
      <3>2. IsPrefix(out, whole)
        BY <1>1, <3>1, PrefixOfConcatenation
      <3> QED
        BY <1>5, <1>6, <2>1, <2>3, <3>2 DEF SameBytes
    <2> QED
      BY <2>1, <2>2, <2>3 DEF Divided
  <1> QED
    BY <1>7, <1>8, <1>9, <1>10

(* A body yields its bytes, in order and all of them at its end, whatever   *)
(* it is turned into, however long it is, however it is cut into chunks and *)
(* whatever the sizes of the reads (src/src/body.rs, read(), next(),        *)
(* into_bytes()).                                                           *)
THEOREM BytesPreserved == Spec => []SameBytes
  <1>1. BodyInv => SameBytes
    BY SameBytesStreamed, SameBytesInMemory
  <1> QED
    BY <1>1, BodyInvHolds, PTL
=============================================================================
