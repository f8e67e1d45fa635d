-------------------------------- MODULE Body --------------------------------
(***************************************************************************)
(* src/src/body.rs: a Body, turned into a reader, into chunks or into      *)
(* bytes, or dropped, by one thread, while another thread writes to the    *)
(* same connection.  A body of the variant Reader is read from the clone   *)
(* "reader" of a Connection; the other thread has the clone "writer".      *)
(*                                                                         *)
(* The peer sends the bytes 1, 2, 3, ...  A body of known length n is the  *)
(* first n of them, and what follows belongs to the next message.          *)
(***************************************************************************)
EXTENDS Connection, HttpBody

CONSTANTS
    Bodies,      \* the bodies
    PeerBytes,   \* bound: bytes that the peer sends
    Buf          \* bound: the size of a buffer (8 KiB in ChunkIterator)

(* BodyInner: Empty and Buffered are like the bodies of HttpBody. *)
Empty == [type |-> "Memory", len |-> 0, into_reader |-> << >>, into_chunks |-> << >>]
Buffered(bytes) ==
    [type |-> "Memory", len |-> Len(bytes), into_reader |-> bytes, into_chunks |-> << Data(bytes) >>]
Iter(chunks) == [type |-> "Iter", len |-> Unknown, into_reader |-> << >>, into_chunks |-> chunks]
Reader(len) == [type |-> "Reader", len |-> len, into_reader |-> << >>, into_chunks |-> << >>]
Impl(value) ==
    [type |-> "Memory", len |-> value.len, into_reader |-> value.into_reader,
     into_chunks |-> value.into_chunks]

Fails(chunks) == \E i \in DOMAIN chunks : chunks[i].t = "error"

(* The bytes of the chunks from each of them on. *)
JoinedFrom(chunks) ==
    LET from[k \in 1..(Len(chunks) + 1)] ==
            IF k > Len(chunks) THEN << >> ELSE chunks[k].bytes \o from[k + 1]
    IN  from

Joined(chunks) == JoinedFrom(chunks)[1]

Chunks == {c \in [t : {"data", "trailers", "error"}, bytes : Seq(Nat)] : c.t = "data" \/ c.bytes = << >>}

IsBody(b) ==
    /\ b \in [type : {"Memory", "Iter", "Reader"}, len : Nat \cup {Unknown},
              into_reader : Seq(Nat), into_chunks : Seq(Chunks)]
    /\ b.type = "Memory" => b.into_reader = Joined(b.into_chunks) /\ ~Fails(b.into_chunks)
    /\ b.type # "Memory" => b.into_reader = << >>
    /\ b.type = "Reader" => b.into_chunks = << >>

ASSUME BodyAssumption ==
    /\ PeerBytes \in Nat /\ Buf \in Nat /\ Handles = {"reader", "writer"}
    /\ \A b \in Bodies : IsBody(b)

VARIABLES
    body,     \* the body
    via,      \* what it has been turned into
    phase,    \* "use"; "done": it has come to an end; "gone": and let go of the stream
    items,    \* Iter: chunks that have not been taken
    cursor,   \* the rest of the chunk that a BodyReader is at
    left,     \* bytes that are left of a Reader of known length
    out,      \* the bytes that the application got
    result,   \* how it ended
    faults,   \* "failed": a read() returned an error; "skipped": one had an empty buffer
    sent,     \* bytes that the peer has sent
    reply     \* what the other thread writes

bodyVars == <<body, via, phase, items, cursor, left, out, result, faults>>
vars == <<connVars, bodyVars, sent, reply>>

TypeOK ==
    /\ ConnTypeOK
    /\ body \in Bodies
    /\ via \in {"none", "reader", "bytes", "chunks", "drop"}
    /\ phase \in {"use", "done", "gone"}
    /\ items \in Seq(Chunks) /\ cursor \in Seq(Nat) /\ out \in Seq(Nat)
    /\ left \in Nat \cup {Unknown}
    /\ result \in {"none", "end", "ok", "err", "dropped", "abandoned", "died"}
    /\ faults \subseteq {"failed", "skipped"}
    /\ sent \in 0..PeerBytes
    /\ reply \in {"none", "sent", "failed"}

Init ==
    /\ body \in Bodies
    /\ ConnInit(IF body.type = "Reader" THEN {"reader", "writer"} ELSE {"writer"})
    /\ via = "none" /\ phase = "use" /\ result = "none" /\ faults = {}
    /\ items = << >> /\ cursor = << >> /\ left = body.len /\ out = << >>
    /\ sent = 0 /\ reply = "none"

-----------------------------------------------------------------------------
(* Turning a body into something else. *)

NotTrailers(chunks) == {i \in DOMAIN chunks : chunks[i].t # "trailers"}

(* The reader of an Iter has its first chunk that is not trailers at once;  *)
(* an error in its place counts as an empty chunk.                          *)
IntoReader ==
    /\ via = "none" /\ via' = "reader"
    /\ LET chunks == body.into_chunks
       IN  \/ /\ body.type = "Iter"
              /\ \E i \in NotTrailers(chunks) :
                    /\ \A j \in NotTrailers(chunks) : i <= j
                    /\ cursor' = chunks[i].bytes
                    /\ items' = SubSeq(chunks, i + 1, Len(chunks))
           \/ /\ body.type = "Iter" => NotTrailers(chunks) = {}
              /\ cursor' = body.into_reader /\ items' = << >>
    /\ UNCHANGED <<connVars, body, phase, left, out, result, faults, sent, reply>>

IntoChunks ==
    /\ via = "none" /\ via' = "chunks"
    /\ items' = body.into_chunks
    /\ UNCHANGED <<connVars, body, phase, cursor, left, out, result, faults, sent, reply>>

Finish(res) ==
    /\ result' = res
    /\ phase' = IF body.type = "Reader" THEN "done" ELSE "gone"

IntoBytesPartial ==
    /\ via = "none" /\ via' = "bytes"
    /\ IF body.type = "Reader"
       THEN UNCHANGED <<out, phase, result>>
       ELSE out' = Joined(body.into_chunks) /\ Finish("ok")
    /\ UNCHANGED <<connVars, body, items, cursor, left, faults, sent, reply>>

IntoBytes ==
    /\ via = "none" /\ via' = "bytes"
    /\ IF body.type = "Reader"
       THEN UNCHANGED <<out, phase, result>>
       ELSE IF Fails(body.into_chunks)
            THEN Finish("err") /\ UNCHANGED out
            ELSE out' = Joined(body.into_chunks) /\ Finish("ok")
    /\ UNCHANGED <<connVars, body, items, cursor, left, faults, sent, reply>>

(* Drop for Body: only a Reader is read to its end. *)
DropBody ==
    /\ via = "none" /\ via' = "drop"
    /\ IF body.type = "Reader" THEN UNCHANGED <<phase, result>> ELSE Finish("dropped")
    /\ UNCHANGED <<connVars, body, items, cursor, left, out, faults, sent, reply>>

-----------------------------------------------------------------------------
(* BodyReader and ChunkIterator over chunks in memory. *)

Using(v) == via = v /\ phase = "use" /\ body.type # "Reader"

(* read() with a buffer of that size, which a chunk need not fill. *)
ReadCursor(size) ==
    /\ Using("reader") /\ cursor # << >>
    /\ out' = out \o (IF size < Len(cursor) THEN SubSeq(cursor, 1, size) ELSE cursor)
    /\ cursor' = SubSeq(cursor, size + 1, Len(cursor))
    /\ UNCHANGED <<connVars, body, via, phase, items, left, result, faults, sent, reply>>

(* The loop of read() at the end of a chunk: trailers are passed over, and  *)
(* an error ends the body.                                                  *)
NextCursor ==
    /\ Using("reader") /\ cursor = << >> /\ items # << >>
    /\ cursor' = Head(items).bytes
    /\ items' = IF Head(items).t = "error" THEN << >> ELSE Tail(items)
    /\ UNCHANGED <<connVars, body, via, phase, left, out, result, faults, sent, reply>>

(* The same loop with a buffer of no bytes runs through all chunks. *)
ReadNothing ==
    /\ Using("reader") /\ body.type = "Iter"
    /\ cursor # << >> \/ NotTrailers(items) # {}
    /\ cursor' = << >> /\ items' = << >>
    /\ faults' = faults \cup {"skipped"}
    /\ UNCHANGED <<connVars, body, via, phase, left, out, result, sent, reply>>

NextChunk ==
    /\ Using("chunks") /\ items # << >>
    /\ out' = out \o Head(items).bytes
    /\ items' = IF Head(items).t = "error" THEN << >> ELSE Tail(items)
    /\ UNCHANGED <<connVars, body, via, phase, cursor, left, result, faults, sent, reply>>

MemoryEnd ==
    /\ Using("reader") \/ Using("chunks")
    /\ cursor = << >> /\ items = << >>
    /\ Finish("end")
    /\ UNCHANGED <<connVars, body, via, items, cursor, left, out, faults, sent, reply>>

-----------------------------------------------------------------------------
(* A Reader: io::copy, read_to_end, read() and ChunkIterator::next over the *)
(* connection.  Take ends it at its length; ChunkIterator has no Take and   *)
(* only counts.                                                             *)

Streaming == body.type = "Reader" /\ via # "none" /\ phase = "use"

Exhausted == left = 0 /\ (via = "chunks" => out # << >>)

BeginStreamRead ==
    /\ Streaming /\ ~Exhausted
    /\ BeginRead("reader")
    /\ UNCHANGED <<bodyVars, sent, reply>>

LockStream ==
    /\ Lock("reader")
    /\ UNCHANGED <<bodyVars, sent, reply>>

TakeNoLimit(size) == TRUE

Take(size) == via = "chunks" \/ left = Unknown \/ size <= left

StreamData(size) ==
    /\ Streaming /\ Take(size)
    /\ ReadData("reader", size)
    /\ out' = IF via = "drop" THEN out ELSE out \o SubSeq(inbox, 1, size)
    /\ left' = IF left = Unknown THEN left ELSE IF size < left THEN left - size ELSE 0
    /\ UNCHANGED <<body, via, phase, items, cursor, result, faults, sent, reply>>

AtEnd == CASE via = "bytes" -> "ok" [] via = "drop" -> "dropped" [] OTHER -> "end"

StreamEnd ==
    /\ Streaming
    /\ \/ Exhausted /\ busy["reader"] = "idle" /\ UNCHANGED connVars
       \/ ReadEof("reader")
    /\ Finish(AtEnd)
    /\ UNCHANGED <<body, via, items, cursor, left, out, faults, sent, reply>>

StreamErrorRetried ==
    /\ Streaming
    /\ ReadTimesOut("reader") \/ LockFails("reader")
    /\ faults' = faults \cup {"failed"}
    /\ UNCHANGED <<body, via, phase, items, cursor, left, out, result, sent, reply>>

(* Drop ignores an error; after one of read() the application may try again. *)
StreamError ==
    /\ Streaming
    /\ ReadTimesOut("reader") \/ LockFails("reader")
    /\ faults' = faults \cup {"failed"}
    /\ IF via = "reader"
       THEN UNCHANGED <<phase, result>>
       ELSE Finish(IF via = "drop" THEN "dropped" ELSE "err")
    /\ UNCHANGED <<body, via, items, cursor, left, out, sent, reply>>

StreamPanics ==
    /\ Streaming
    /\ ReadPanics("reader")
    /\ phase' = "gone" /\ result' = "died"
    /\ UNCHANGED <<body, via, items, cursor, left, out, faults, sent, reply>>

(* A BodyReader or ChunkIterator is dropped before its end. *)
Abandon ==
    /\ via \in {"reader", "chunks"} /\ phase = "use" /\ busy["reader"] = "idle"
    /\ Finish("abandoned")
    /\ UNCHANGED <<connVars, body, via, items, cursor, left, out, faults, sent, reply>>

LetGo ==
    /\ phase = "done" /\ phase' = "gone"
    /\ DropHandle("reader")
    /\ UNCHANGED <<body, via, items, cursor, left, out, result, faults, sent, reply>>

-----------------------------------------------------------------------------
(* The other thread and the peer. *)

BeginReply ==
    /\ reply = "none" /\ BeginWrite("writer")
    /\ UNCHANGED <<bodyVars, sent, reply>>

Reply ==
    /\ \/ Write("writer") /\ reply' = "sent"
       \/ (WriteFails("writer") \/ WritePanics("writer")) /\ reply' = "failed"
    /\ UNCHANGED <<bodyVars, sent>>

Upgrade ==
    /\ reply # "none" /\ (Downcast("writer") \/ DowncastPanics("writer"))
    /\ UNCHANGED <<bodyVars, sent, reply>>

Peer ==
    /\ \/ sent < PeerBytes /\ PeerSends(sent + 1) /\ sent' = sent + 1
       \/ PeerCloses /\ UNCHANGED sent
    /\ UNCHANGED <<bodyVars, reply>>

Rest == phase = "gone" /\ reply # "none" /\ UNCHANGED vars

Use ==
    \/ NextCursor \/ NextChunk \/ MemoryEnd \/ StreamEnd \/ StreamError \/ LetGo
    \/ BeginStreamRead \/ LockStream
    \/ \E size \in 1..Buf : ReadCursor(size) \/ StreamData(size)

Next ==
    \/ IntoReader \/ IntoChunks \/ IntoBytes \/ DropBody \/ Use
    \/ ReadNothing \/ StreamPanics \/ Abandon
    \/ BeginReply \/ Reply \/ Upgrade \/ Peer \/ Rest

(* Both threads run; the peer may stop sending at any time. *)
Spec ==
    /\ Init /\ [][Next]_vars
    /\ WF_vars(Use) /\ WF_vars(Reply)

-----------------------------------------------------------------------------
(* What a body consists of. *)
Content(b) ==
    CASE b.type = "Memory" -> b.into_reader
      [] b.type = "Iter"   -> Joined(b.into_chunks)
      [] b.type = "Reader" -> [i \in 1..(IF b.len = Unknown THEN PeerBytes ELSE b.len) |-> i]

(* The peer has closed before the end of the body. *)
Cut == ~open /\ sent < Len(Content(body))

(* ChunkIterator takes what a read() returns, beyond the length of the body *)
(* too (body.rs:381).                                                       *)
MayReadOn == body.type = "Reader" /\ via = "chunks"

(* into_reader(), into_bytes() and into_chunks() yield the bytes of the     *)
(* body, in order, and all of them when they report its end: reads of any   *)
(* size, empty chunks, trailers and reads that are tried again after an     *)
(* error lose and repeat nothing.  Excepted are a peer that closes early, a *)
(* read() into an empty buffer, and abort(), which only into_bytes()        *)
(* reports.                                                                 *)
SameBytes ==
    /\ IsPrefix(out, IF MayReadOn THEN [i \in 1..sent |-> i] ELSE Content(body))
    /\ result = "ok" => Cut \/ (out = Content(body) /\ ~Fails(body.into_chunks))
    /\ result = "end" =>
        \/ IsPrefix(Content(body), out)
        \/ Cut \/ "skipped" \in faults \/ Fails(body.into_chunks)

(* A body of known length takes nothing of what follows it, and when it was *)
(* read to its end or dropped, the next byte is the one that follows it.    *)
(* Excepted are a drop that meets an error, and ChunkIterator.              *)
RestIntact ==
    body.type = "Reader" /\ body.len # Unknown /\ ~MayReadOn =>
        LET rest == [i \in 1..(IF sent > body.len THEN sent - body.len ELSE 0) |-> body.len + i]
        IN  /\ IsSuffix(rest, inbox)
            /\ (result \in {"ok", "end"} \/ (result = "dropped" /\ faults = {})) => inbox = rest

(* A write is not held up by a clone that waits for data, unless they share *)
(* a TLS session, and then only by clones that wait again and again or      *)
(* without a read timeout.                                                  *)
WriteReturns ==
    \/ busy["writer"] = "writing" ~> busy["writer"] = "idle"
    \/ kind = "Rustls" /\ []<>(busy["reader"] = "reading")

(* With a read timeout, into_bytes() and the drop of a body return once the *)
(* peer sends nothing more, wherever it stopped, and let go of the          *)
(* connection.  Here the peer stops after PeerBytes at the latest; one that *)
(* goes on sending holds a body without a length.                           *)
LetsGo ==
    limit = "set" => (via \in {"bytes", "drop"} ~> "reader" \notin alive)
=============================================================================
