----------------------------- MODULE BodyChannel -----------------------------
(***************************************************************************)
(* A response whose body is a channel (Body::channel, src/src/body.rs): a  *)
(* thread of the service sends items, write_response (src/src/response.rs) *)
(* takes them from the channel and frames them, and the client decodes the *)
(* frames with parse_response and ChunkedReader (src/src/request.rs).      *)
(*                                                                         *)
(* The encoding is "chunked" (HTTP/1.1) or "close" (HTTP/1.0, where the    *)
(* end of the connection ends the body).                                   *)
(***************************************************************************)
EXTENDS Naturals, Sequences, SequencesExt

CONSTANTS
    MaxItems,    \* bound: items sent on one channel
    Items,       \* what is sent: "data", "empty" (a chunk of no bytes), "trailers"
    Endings,     \* how the service is done with its BodyChannel: "dropped", "aborted"
    Encodings    \* the encodings of the response

ASSUME ChannelAssumption ==
    /\ MaxItems \in Nat
    /\ Items \subseteq {"data", "empty", "trailers"}
    /\ Endings \subseteq {"dropped", "aborted"}
    /\ Encodings \subseteq {"chunked", "close"}

VARIABLES
    encoding,
    tx,        \* the BodyChannel: "open", or how it ended
    chan,      \* items in the channel
    rx,        \* the Receiver in the response body
    produced,  \* items whose send() returned Ok
    pc,        \* write_response
    trailers,  \* trailers collected by write_response
    buffer,    \* the BufWriter
    wire,      \* what has been written to the socket
    link,      \* "closed" after the server has closed the connection
    client,    \* what the client is reading, or how it ended
    pos,       \* how much of wire the client has read
    got        \* the data the client has read

vars == <<encoding, tx, chan, rx, produced, pc, trailers, buffer, wire, link, client, pos, got>>

Ids == 1..MaxItems
Sent == [t : {"data", "empty", "trailers", "error"}, id : 0..MaxItems]
Frames == [t : {"head", "data", "last", "trailers", "crlf"}, id : 0..MaxItems]
Mark(t) == [t |-> t, id |-> 0]

TypeOK ==
    /\ encoding \in Encodings
    /\ tx \in {"open", "dropped", "aborted"} /\ rx \in {"open", "dropped"}
    /\ chan \in Seq(Sent) /\ produced \in Seq(Sent)
    /\ pc \in {"head", "next", "tail", "done", "failed"}
    /\ trailers \in Seq(Frames) /\ buffer \in Seq(Frames) /\ wire \in Seq(Frames)
    /\ link \in {"open", "closed"}
    /\ client \in {"head", "body", "ended", "gone"}
    /\ pos \in 0..Len(wire)
    /\ got \in Seq(Ids)

Init ==
    /\ encoding \in Encodings
    /\ tx = "open" /\ rx = "open" /\ chan = << >> /\ produced = << >>
    /\ pc = "head" /\ trailers = << >> /\ buffer = << >> /\ wire = << >> /\ link = "open"
    /\ client = "head" /\ pos = 0 /\ got = << >>

-----------------------------------------------------------------------------
(* The thread of the service. *)

(* send() and send_trailers() *)
Send(t) ==
    /\ tx = "open" /\ rx = "open"
    /\ Len(produced) < MaxItems
    /\ LET item == [t |-> t, id |-> Len(produced) + 1]
       IN  chan' = Append(chan, item) /\ produced' = Append(produced, item)
    /\ UNCHANGED <<encoding, tx, rx, pc, trailers, buffer, wire, link, client, pos, got>>

(* The channel is dropped, or abort() sends an error and drops it.  A send  *)
(* that fails ends in the same way.                                         *)
End(how) ==
    /\ tx = "open"
    /\ tx' = how
    /\ chan' = IF how = "aborted" /\ rx = "open" THEN Append(chan, Mark("error")) ELSE chan
    /\ UNCHANGED <<encoding, rx, produced, pc, trailers, buffer, wire, link, client, pos, got>>

-----------------------------------------------------------------------------
(* write_response, on the thread of the connection.  It blocks in the       *)
(* channel's iterator until there is an item or the sender is gone.         *)

WriteHead ==
    /\ pc = "head"
    /\ buffer' = Append(buffer, Mark("head"))
    /\ pc' = "next"
    /\ UNCHANGED <<encoding, tx, chan, rx, produced, trailers, wire, link, client, pos, got>>

Taken(t) == pc = "next" /\ chan # << >> /\ Head(chan).t = t /\ chan' = Tail(chan)

NextDataUnflushed ==
    /\ Taken("data")
    /\ buffer' = Append(buffer, Head(chan))
    /\ UNCHANGED <<encoding, tx, rx, produced, pc, trailers, wire, link, client, pos, got>>

NextDataTwice ==
    /\ Taken("data")
    /\ wire' = wire \o buffer \o << Head(chan), Head(chan) >>
    /\ buffer' = << >>
    /\ UNCHANGED <<encoding, tx, rx, produced, pc, trailers, link, client, pos, got>>

(* A chunk is flushed; io::copy only fills the BufWriter. *)
NextData ==
    /\ Taken("data")
    /\ IF encoding = "chunked"
       THEN wire' = wire \o buffer \o << Head(chan) >> /\ buffer' = << >>
       ELSE UNCHANGED wire /\ buffer' = Append(buffer, Head(chan))
    /\ UNCHANGED <<encoding, tx, rx, produced, pc, trailers, link, client, pos, got>>

(* A chunk of no bytes is written as "0", an empty line: the end of a body. *)
NextEmpty ==
    /\ Taken("empty")
    /\ IF encoding = "chunked"
       THEN wire' = wire \o buffer \o << Mark("last"), Mark("crlf") >> /\ buffer' = << >>
       ELSE UNCHANGED <<wire, buffer>>
    /\ UNCHANGED <<encoding, tx, rx, produced, pc, trailers, link, client, pos, got>>

NextTrailersInline ==
    /\ Taken("trailers")
    /\ wire' = wire \o buffer \o << Head(chan) >> /\ buffer' = << >>
    /\ UNCHANGED <<encoding, tx, rx, produced, pc, trailers, link, client, pos, got>>

(* into_reader leaves trailers out. *)
NextTrailers ==
    /\ Taken("trailers")
    /\ trailers' = IF encoding = "chunked" THEN Append(trailers, Head(chan)) ELSE trailers
    /\ UNCHANGED <<encoding, tx, rx, produced, pc, buffer, wire, link, client, pos, got>>

(* ChunkIterator and BodyReader turn the error of abort() into the end.     *)
NextError ==
    /\ Taken("error")
    /\ pc' = "tail"
    /\ UNCHANGED <<encoding, tx, rx, produced, trailers, buffer, wire, link, client, pos, got>>

NoMoreForNow ==
    /\ pc = "next" /\ chan = << >>
    /\ pc' = "tail"
    /\ UNCHANGED <<encoding, tx, chan, rx, produced, trailers, buffer, wire, link, client, pos, got>>

NoMore ==
    /\ pc = "next" /\ chan = << >> /\ tx # "open"
    /\ pc' = "tail"
    /\ UNCHANGED <<encoding, tx, chan, rx, produced, trailers, buffer, wire, link, client, pos, got>>

WriteTailWithoutLast ==
    /\ pc = "tail"
    /\ pc' = "done" /\ rx' = "dropped" /\ buffer' = << >>
    /\ wire' = wire \o buffer \o trailers
    /\ UNCHANGED <<encoding, tx, chan, produced, trailers, link, client, pos, got>>

(* The end of the body; serve() then flushes, or closes the connection.     *)
WriteTail ==
    /\ pc = "tail"
    /\ pc' = "done" /\ rx' = "dropped" /\ buffer' = << >>
    /\ IF encoding = "chunked"
       THEN /\ wire' = wire \o buffer \o << Mark("last") >> \o trailers \o << Mark("crlf") >>
            /\ UNCHANGED link
       ELSE wire' = wire \o buffer /\ link' = "closed"
    /\ UNCHANGED <<encoding, tx, chan, produced, trailers, client, pos, got>>

(* A full BufWriter writes what it holds. *)
Spill ==
    /\ buffer # << >>
    /\ pc = "next"
    /\ wire' = wire \o buffer /\ buffer' = << >>
    /\ UNCHANGED <<encoding, tx, chan, rx, produced, pc, trailers, link, client, pos, got>>

(* There is something to write: a chunk with its framing, the end of the    *)
(* chunked encoding, or what the BufWriter still holds at the end.          *)
Writing ==
    \/ /\ pc = "next" /\ chan # << >>
       /\ \/ Head(chan).t = "data"
          \/ Head(chan).t = "empty" /\ encoding = "chunked"
    \/ pc = "tail" /\ (encoding = "chunked" \/ buffer # << >>)

(* The client is gone: write_response returns an error and drops the body.  *)
WriteFails ==
    /\ client = "gone" /\ Writing
    /\ pc' = "failed" /\ rx' = "dropped" /\ link' = "closed"
    /\ chan' = << >> /\ buffer' = << >>
    /\ UNCHANGED <<encoding, tx, produced, trailers, wire, client, pos, got>>

-----------------------------------------------------------------------------
(* The client. *)

(* parse_response *)
ReadHead ==
    /\ client = "head" /\ pos < Len(wire)
    /\ client' = "body" /\ pos' = pos + 1
    /\ UNCHANGED <<encoding, tx, chan, rx, produced, pc, trailers, buffer, wire, link, got>>

(* ChunkedReader::next, or a read of Body::from_reader(stream, None).       *)
ReadBody ==
    /\ client = "body" /\ pos < Len(wire)
    /\ pos' = pos + 1
    /\ IF wire[pos + 1].t = "data"
       THEN got' = Append(got, wire[pos + 1].id) /\ UNCHANGED client
       ELSE client' = "ended" /\ UNCHANGED got
    /\ UNCHANGED <<encoding, tx, chan, rx, produced, pc, trailers, buffer, wire, link>>

ReadEof ==
    /\ client = "body" /\ pos = Len(wire) /\ link = "closed"
    /\ client' = "ended"
    /\ UNCHANGED <<encoding, tx, chan, rx, produced, pc, trailers, buffer, wire, link, pos, got>>

HangUp ==
    /\ client \in {"head", "body"}
    /\ client' = "gone"
    /\ UNCHANGED <<encoding, tx, chan, rx, produced, pc, trailers, buffer, wire, link, pos, got>>

Over ==
    /\ pc \in {"done", "failed"} /\ client \in {"ended", "gone"} /\ tx # "open"
    /\ UNCHANGED vars

Writer ==
    \/ WriteHead \/ NextData \/ NextEmpty \/ NextTrailers \/ NextError \/ NoMore
    \/ WriteTail \/ WriteFails
Reader == ReadHead \/ ReadBody \/ ReadEof

Next ==
    \/ \E t \in Items : Send(t)
    \/ \E how \in Endings : End(how)
    \/ Writer \/ Spill \/ Reader \/ HangUp \/ Over

(* Both ends run; the service may keep its channel open for ever. *)
Spec == Init /\ [][Next]_vars /\ WF_vars(Writer) /\ WF_vars(Reader)

-----------------------------------------------------------------------------
(* Item i was sent and is a chunk with data; it has arrived. *)
IsData(i) == i \in DOMAIN produced /\ produced[i].t = "data"
Arrived(i) == \E j \in DOMAIN got : got[j] = i

(* The client reads what was sent, in the order of send(), nothing twice    *)
(* and nothing left out in the middle.                                      *)
InOrder ==
    /\ \A i \in DOMAIN got : IsData(got[i])
    /\ \A i, j \in DOMAIN got : i < j => got[i] < got[j]
    /\ \A m \in DOMAIN produced, j \in DOMAIN got : IsData(m) /\ m < got[j] => Arrived(m)

(* When the client comes to the end of the body, the service is done and    *)
(* every chunk it sent has arrived.                                         *)
Complete ==
    client = "ended" => tx # "open" /\ \A m \in DOMAIN produced : IsData(m) => Arrived(m)

(* A chunk of no bytes was sent in a chunked response: see NextEmpty. *)
CutShort == encoding = "chunked" /\ \E i \in DOMAIN produced : produced[i].t = "empty"

(* The same for a body without chunks of no bytes, where they matter.       *)
Unabridged == CutShort \/ Complete

(* Trailers are only sent after the last chunk (body.rs, send_trailers).    *)
TrailersLast ==
    \A i, j \in DOMAIN wire :
        wire[i].t = "trailers" /\ wire[j].t \in {"data", "last"} => j < i

(* Chunked responses stream: what is sent arrives while the channel is      *)
(* still open, when no chunk before it was empty.                           *)
Streamed ==
    \A i \in Ids :
        (encoding = "chunked" /\ i \in DOMAIN produced /\ produced[i].t = "data")
            ~> (client = "gone" \/ i \in Range(got) \/ CutShort)

(* When the service is done, the client comes to the end of the body.       *)
Finishes == tx # "open" ~> client \in {"ended", "gone"}
=============================================================================
