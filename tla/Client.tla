-------------------------------- MODULE Client --------------------------------
(***************************************************************************)
(* src/src/client.rs: Client::request with its pool of connections,        *)
(* send_request, and the bodies of the responses, which outlive the call   *)
(* and read from a connection that may already be back in the pool.        *)
(*                                                                         *)
(* One authority, so the pool holds one connection or none.  Every call    *)
(* reads through a BufReader of its own (src/src/client.rs:115), which may *)
(* take more from the socket than the call needs.  What the server sends   *)
(* is a sequence of pieces, as in Request, with "trailers" between the     *)
(* last chunk and the empty line; the status line is a "line".  After a    *)
(* switch of protocols the server sends "proto" pieces.  Data in the place *)
(* of a head may look like one: the call then returns a "stray" response.  *)
(***************************************************************************)
EXTENDS Request

CONSTANTS
    MaxRequests,   \* bound: calls of request()
    Replies        \* the replies of the server

ReplyRecords ==
    [framing : {"small", "large", "chunked", "trailers", "close", "empty", "switching",
                "interim",   \* a 100 Continue, and then a small response
                "head"},     \* to a HEAD request: a Content-Length and no body
     conn    : {"none", "close"},    \* the Connection header of the response
     after   : {"keep", "close"}]    \* what the server does with the connection

ASSUME ClientAssumption ==
    /\ MaxRequests \in Nat
    /\ Replies \subseteq ReplyRecords
    /\ \A r \in Replies : r.framing = "close" => r.conn = "close"
    /\ \A r \in Replies : r.conn = "close" => r.after = "close"

Calls == 1..MaxRequests
Conns == 1..MaxRequests
NoReply == [framing |-> "empty", conn |-> "none", after |-> "keep"]

VARIABLES
    n,        \* calls of request() so far; the last one is call n
    pc,       \* where call n is
    pool,     \* the connection in the pool, or 0
    opened,   \* connections opened so far
    used,     \* used[k]: the connection of call k, or 0
    status,   \* status[k]: how call k ended
    answer,   \* answer[k]: the call whose response call k returned
    got,      \* parse_response: what the head read so far looks like
    buf,      \* buf[k]: the BufReader of call k
    body,     \* body[k]: the streaming body of response k
    left,     \* pieces it still expects; Iter: 0 after the last chunk
    data,     \* data[k]: what the application has read of it
    ending,   \* ending[k]: how the application was done with it
    shared,   \* calls on a connection from which an older body still read
    reply,    \* reply[k]: the server's reply to call k
    todo,     \* todo[c]: what the server is still to send on connection c
    socket,   \* socket[c]: what has arrived and has not been read
    link      \* link[c]: "closed" by the server, or "cut" in the middle of an answer

callVars == <<n, pc, pool, opened, used, status, answer, got>>
bodyVars == <<buf, body, left, data, ending, shared>>
serverVars == <<reply, todo, socket, link>>
vars == <<callVars, bodyVars, serverVars>>

TypeOK ==
    /\ n \in 0..MaxRequests /\ opened \in 0..MaxRequests /\ pool \in 0..opened
    /\ pc \in {"idle", "write", "parse", "small"}
    /\ used \in [Calls -> 0..MaxRequests] /\ answer \in [Calls -> 0..MaxRequests]
    /\ status \in [Calls -> {"none", "invalid", "failed", "ok", "truncated", "stray"}]
    /\ got \in {"nothing", "blank", "line", "junk"}
    /\ body \in [Calls -> {"none", "Reader", "Iter", "Rest", "Extension", "Upgraded"}]
    /\ left \in [Calls -> 0..2]
    /\ ending \in [Calls -> {"none", "whole", "abandoned"}]
    /\ shared \subseteq Calls
    /\ reply \in [Calls -> Replies \cup {NoReply}]
    /\ link \in [Conns -> {"open", "closed", "cut"}]

Init ==
    /\ n = 0 /\ pc = "idle" /\ pool = 0 /\ opened = 0 /\ got = "nothing"
    /\ used = [k \in Calls |-> 0] /\ answer = [k \in Calls |-> 0]
    /\ status = [k \in Calls |-> "none"]
    /\ buf = [k \in Calls |-> << >>] /\ data = [k \in Calls |-> << >>]
    /\ body = [k \in Calls |-> "none"] /\ left = [k \in Calls |-> 0]
    /\ ending = [k \in Calls |-> "none"] /\ shared = {}
    /\ reply = [k \in Calls |-> NoReply]
    /\ todo = [c \in Conns |-> << >>] /\ socket = [c \in Conns |-> << >>]
    /\ link = [c \in Conns |-> "open"]

-----------------------------------------------------------------------------
(* The server: it answers what it is sent, piece by piece, and closes a     *)
(* connection after an answer, or at any time (its read timeout).           *)

Contents(framing) ==
    CASE framing = "small"    -> << "data" >>
      [] framing = "large"    -> << "data", "data" >>
      [] framing = "close"    -> << "data" >>
      [] framing = "switching" -> << "proto", "proto" >>
      [] framing = "chunked"  -> << "chunk", "last", "crlf" >>
      [] framing = "trailers" -> << "chunk", "last", "trailers", "crlf" >>
      [] OTHER                -> << >>

(* The pieces of a response; "fields" go with the framing they announce. *)
Message(k, framing, announced) ==
    LET pieces == << "line", "fields" >> \o Contents(framing)
    IN  [i \in DOMAIN pieces |-> [k |-> k, t |-> pieces[i], f |-> announced]]

Answer(k, r) ==
    (CASE r.framing = "interim" -> Message(k, "empty", "empty") \o Message(k, "small", "small")
       [] r.framing = "head"    -> Message(k, "empty", "small")
       [] OTHER                 -> Message(k, r.framing, r.framing))
    \o (IF r.after = "close" THEN << [k |-> k, t |-> "eof", f |-> r.framing] >> ELSE << >>)

(* The server will read another request on connection c. *)
Listening(c) == link[c] = "open" /\ \A i \in DOMAIN todo[c] : todo[c][i].t # "eof"

Streaming(k) == body[k] # "none"

(* Nothing more is heard of a connection that the client has dropped. *)
Held(c) ==
    \/ pool = c
    \/ pc # "idle" /\ used[n] = c
    \/ \E k \in Calls : Streaming(k) /\ used[k] = c

ServerSend(c) ==
    /\ Held(c) /\ todo[c] # << >>
    /\ todo' = [todo EXCEPT ![c] = Tail(@)]
    /\ IF Head(todo[c]).t = "eof"
       THEN link' = [link EXCEPT ![c] = "closed"] /\ UNCHANGED socket
       ELSE socket' = [socket EXCEPT ![c] = Append(@, Head(todo[c]))] /\ UNCHANGED link
    /\ UNCHANGED <<callVars, bodyVars, reply>>

ServerClose(c) ==
    /\ Held(c) /\ link[c] = "open"
    /\ link' = [link EXCEPT ![c] = IF todo[c] = << >> THEN "closed" ELSE "cut"]
    /\ todo' = [todo EXCEPT ![c] = << >>]
    /\ UNCHANGED <<callVars, bodyVars, reply, socket>>

-----------------------------------------------------------------------------
(* Client::request up to send_request. *)

Use(k, c) ==
    /\ used' = [used EXCEPT ![k] = c]
    /\ shared' = IF \E j \in Calls : Streaming(j) /\ used[j] = c
                 THEN shared \cup {k} \cup {j \in Calls : Streaming(j) /\ used[j] = c}
                 ELSE shared

Request ==
    /\ pc = "idle" /\ n < MaxRequests
    /\ n' = n + 1 /\ pc' = "write"
    /\ IF pool # 0
       THEN Use(n + 1, pool) /\ pool' = 0 /\ UNCHANGED opened
       ELSE Use(n + 1, opened + 1) /\ opened' = opened + 1 /\ UNCHANGED pool
    /\ UNCHANGED <<status, answer, got, buf, body, left, data, ending, serverVars>>

(* The URI has no authority, or there is no connection and connect() fails. *)
RequestRejected ==
    /\ pc = "idle" /\ n < MaxRequests
    /\ n' = n + 1
    /\ status' = [status EXCEPT ![n + 1] = "invalid"]
    /\ UNCHANGED <<pc, pool, opened, used, answer, got, bodyVars, serverVars>>

(* write_request finds no way to send the body, or the body fails: the      *)
(* connection is dropped.                                                   *)
WriteInvalid ==
    /\ pc = "write"
    /\ pc' = "idle"
    /\ status' = [status EXCEPT ![n] = "invalid"]
    /\ UNCHANGED <<n, pool, opened, used, answer, got, bodyVars, serverVars>>

WriteRequestTwice ==
    /\ pc = "write"
    /\ pc' = "parse"
    /\ \E r \in Replies :
        IF Listening(used[n])
        THEN /\ reply' = [reply EXCEPT ![n] = r]
             /\ todo' = [todo EXCEPT ![used[n]] = @ \o Answer(n, r) \o Answer(n, r)]
        ELSE UNCHANGED <<reply, todo>>
    /\ UNCHANGED <<n, pool, opened, used, status, answer, got, bodyVars, socket, link>>

(* write_request and flush.  What is written to a connection that the       *)
(* server has closed, or is about to, gets no answer.                       *)
WriteRequest ==
    /\ pc = "write"
    /\ pc' = "parse"
    /\ \E r \in Replies :
        IF Listening(used[n])
        THEN /\ reply' = [reply EXCEPT ![n] = r]
             /\ todo' = [todo EXCEPT ![used[n]] = @ \o Answer(n, r)]
        ELSE UNCHANGED <<reply, todo>>
    /\ UNCHANGED <<n, pool, opened, used, status, answer, got, bodyVars, socket, link>>

FailKeepsConnection ==
    /\ pc' = "idle" /\ got' = "nothing" /\ pool' = used[n]
    /\ status' = [status EXCEPT ![n] = "failed"]

(* An error of send_request: the connection is dropped. *)
Fail ==
    /\ pc' = "idle" /\ got' = "nothing" /\ UNCHANGED pool
    /\ status' = [status EXCEPT ![n] = "failed"]

(* The write fails because the server has closed the connection. *)
WriteFails ==
    /\ pc = "write" /\ link[used[n]] # "open"
    /\ Fail
    /\ UNCHANGED <<n, opened, used, answer, bodyVars, serverVars>>

-----------------------------------------------------------------------------
(* Reading: the BufReader of call k takes what has arrived.  A body that    *)
(* has been read to its end does not ask for more.                          *)

Reads(k) ==
    \/ body[k] \notin {"none", "Extension"} /\ left[k] > 0
    \/ k = n /\ pc \in {"parse", "small"}

EndOfStream(k) == buf[k] = << >> /\ socket[used[k]] = << >> /\ link[used[k]] # "open"

Fill(k) ==
    /\ Reads(k) /\ buf[k] = << >> /\ socket[used[k]] # << >>
    /\ buf' = [buf EXCEPT ![k] = socket[used[k]]]
    /\ socket' = [socket EXCEPT ![used[k]] = << >>]
    /\ UNCHANGED <<callVars, body, left, data, ending, shared, reply, todo, link>>

Outcome(conn, framing) ==
    IF conn = "close" THEN "Close" ELSE IF framing = "switching" THEN "Upgrade" ELSE "KeepAlive"

(* What parse_response makes of the body, and Client::request of the        *)
(* connection of a 101 response.                                            *)
BodyKind(conn, framing) ==
    CASE framing = "large"                   -> "Reader"
      [] framing \in {"chunked", "trailers"} -> "Iter"
      [] framing = "close"                   -> "Rest"
      [] Outcome(conn, framing) = "Upgrade"  -> "Extension"
      [] OTHER                               -> "none"

(* The end of send_request and of Client::request, for a response to call j *)
(* with that framing.  The BufReader stays only with a streaming body.      *)
Return(j, framing) ==
    LET kind == BodyKind(reply[j].conn, framing)
    IN  /\ pc' = "idle" /\ got' = "nothing"
        /\ status' = [status EXCEPT ![n] = "ok"]
        /\ answer' = [answer EXCEPT ![n] = j]
        /\ pool' = IF Outcome(reply[j].conn, framing) = "KeepAlive" THEN used[n] ELSE pool
        /\ body' = [body EXCEPT ![n] = kind]
        /\ left' = [left EXCEPT ![n] = IF kind = "Reader" THEN 2 ELSE 1]
        /\ buf' = [buf EXCEPT ![n] = IF kind \in {"none", "Extension"} THEN << >> ELSE Tail(@)]

NextPiece(k) == Head(buf[k])
Consume(k) == buf' = [buf EXCEPT ![k] = Tail(@)]

(* Pieces with bytes that the service of the server has chosen.  An earlier *)
(* response may have left them, or the rest of them, on the connection.     *)
Loose == {"data", "chunk", "trailers"}

(* Such bytes are taken for the head: they hold an empty line, and what     *)
(* comes before it does not parse, or is a complete response.  A stray      *)
(* response that reaches beyond its piece is left out.                      *)
ParseLoose(t) ==
    /\ t \in Loose /\ Consume(n)
    /\ \/ Fail
       \/ /\ got # "junk"
          /\ pc' = "idle" /\ got' = "nothing"
          /\ status' = [status EXCEPT ![n] = "stray"]
          /\ pool' \in {pool, used[n]}

(* parse_response: the loop over read_until, and what becomes of the head.  *)
ParsePiece ==
    /\ pc = "parse" /\ buf[n] # << >>
    /\ LET p == NextPiece(n)
       IN  \/ ParseLoose(p.t) /\ UNCHANGED <<answer, body, left>>
           \/ /\ ~HeadEnds(got, p.t)
              /\ Consume(n) /\ got' = HeadAfter(got, p.t)
              /\ answer' = [answer EXCEPT ![n] = p.k]
              /\ UNCHANGED <<pc, pool, status, body, left>>
           \/ /\ HeadEnds(got, p.t)
              /\ ~(got = "line" /\ p.t = "fields")
              /\ Consume(n) /\ Fail
              /\ UNCHANGED <<answer, body, left>>
           \/ /\ got = "line" /\ p.t = "fields"
              /\ IF p.f = "small"
                 THEN /\ Consume(n) /\ pc' = "small" /\ answer' = [answer EXCEPT ![n] = p.k]
                      /\ UNCHANGED <<pool, status, got, body, left>>
                 ELSE Return(p.k, p.f)
    /\ UNCHANGED <<n, opened, used, data, ending, shared, serverVars>>

BufferBodyUnread ==
    /\ pc = "small" /\ buf[n] # << >>
    /\ data' = [data EXCEPT ![n] = << NextPiece(n) >>]
    /\ ending' = [ending EXCEPT ![n] = "whole"]
    /\ Return(answer[n], "small")
    /\ socket' = [socket EXCEPT ![used[n]] = buf[n] \o @]
    /\ UNCHANGED <<n, opened, used, shared, reply, todo, link>>

(* A body of less than 1024 bytes is read at once. *)
BufferBody ==
    /\ pc = "small" /\ buf[n] # << >>
    /\ data' = [data EXCEPT ![n] = << NextPiece(n) >>]
    /\ ending' = [ending EXCEPT ![n] = "whole"]
    /\ Return(answer[n], "small")
    /\ UNCHANGED <<n, opened, used, shared, serverVars>>

ParseEofIgnored ==
    /\ pc = "small" /\ EndOfStream(n)
    /\ Fail
    /\ UNCHANGED <<n, opened, used, answer, bodyVars, serverVars>>

(* The connection ends.  After the status line httparse reports Partial,    *)
(* which parse_response does not look at: a response without headers.       *)
ParseEof ==
    /\ pc \in {"parse", "small"} /\ EndOfStream(n)
    /\ IF pc = "parse" /\ got = "line"
       THEN /\ pc' = "idle" /\ got' = "nothing"
            /\ pool' = IF reply[answer[n]].framing = "switching" THEN pool ELSE used[n]
            /\ status' = [status EXCEPT ![n] = "truncated"]
       ELSE Fail
    /\ UNCHANGED <<n, opened, used, answer, bodyVars, serverVars>>

-----------------------------------------------------------------------------
(* The streaming body of response k, on any thread of the application.      *)

BodyPiece(k) ==
    /\ Reads(k) /\ Streaming(k) /\ left[k] > 0 /\ buf[k] # << >>
    /\ Consume(k)
    /\ LET p == NextPiece(k)
       IN  /\ data' = IF body[k] = "Iter" /\ p.t # "chunk" THEN data
                      ELSE [data EXCEPT ![k] = Append(@, p)]
           /\ left' = [left EXCEPT ![k] =
                           IF body[k] = "Reader" THEN @ - 1
                           ELSE IF body[k] \in {"Rest", "Upgraded"} \/ p.t = "chunk" THEN @ ELSE 0]
    /\ UNCHANGED <<callVars, body, ending, shared, serverVars>>

LetGo(k, how) ==
    /\ body' = [body EXCEPT ![k] = "none"]
    /\ buf' = [buf EXCEPT ![k] = << >>]
    /\ ending' = [ending EXCEPT ![k] = how]
    /\ UNCHANGED <<callVars, left, data, shared, serverVars>>

BodyDoneEarly(k) ==
    /\ Streaming(k)
    /\ left[k] <= 1 \/ EndOfStream(k)
    /\ LetGo(k, "whole")

(* Read, or drained by Drop for Body, to the end of the body or of the      *)
(* connection.                                                              *)
BodyDone(k) ==
    /\ Streaming(k) /\ body[k] # "Extension"
    /\ left[k] = 0 \/ EndOfStream(k)
    /\ LetGo(k, "whole")

(* A chunked body, the BodyReader of any other, or an upgraded connection   *)
(* is dropped as it is.                                                     *)
BodyAbandoned(k) ==
    /\ Streaming(k) /\ left[k] > 0
    /\ LetGo(k, "abandoned")

(* into_upgraded(): the application takes the connection, and reads it.     *)
IntoUpgraded(k) ==
    /\ body[k] = "Extension"
    /\ body' = [body EXCEPT ![k] = "Upgraded"]
    /\ UNCHANGED <<callVars, buf, left, data, ending, shared, serverVars>>

Idle == pc = "idle" /\ n = MaxRequests /\ (\A k \in Calls : ~Streaming(k)) /\ UNCHANGED vars

CallStep ==
    \/ WriteRequest \/ WriteFails \/ (n > 0 /\ Fill(n)) \/ ParsePiece \/ BufferBody \/ ParseEof
BodyStep(k) == Fill(k) \/ BodyPiece(k) \/ BodyDone(k)

Next ==
    \/ Request \/ RequestRejected \/ WriteInvalid \/ CallStep
    \/ \E k \in Calls : BodyStep(k) \/ IntoUpgraded(k) \/ BodyAbandoned(k)
    \/ \E c \in Conns : ServerSend(c) \/ ServerClose(c)
    \/ Idle

(* The thread that calls request() runs, and the server sends its answers   *)
(* or closes.  Nothing is assumed of the threads that read bodies.          *)
Spec ==
    /\ Init /\ [][Next]_vars
    /\ WF_vars(CallStep)
    /\ \A c \in Conns : WF_vars(ServerSend(c))

-----------------------------------------------------------------------------
(* An earlier call on the connection returned something else in the place   *)
(* of its response, a 100 Continue or left-over data.                       *)
Displaced(k) ==
    \E j \in 1..(k - 1) :
        used[j] = used[k] /\ (reply[j].framing = "interim" \/ status[j] = "stray")

(* An earlier response on the connection was not read to its very end: a    *)
(* body that was abandoned or is still being read, trailers, which          *)
(* ChunkedReader leaves, or a response that a call did not return.          *)
Unclean(k) ==
    \/ k \in shared \/ Displaced(k)
    \/ \E j \in 1..(k - 1) :
            used[j] = used[k] /\ (ending[j] = "abandoned" \/ reply[j].framing = "trailers")

(* The response that request() returns is the server's response to that     *)
(* request, although heads of other requests' responses and the rest of     *)
(* their bodies pass over a connection from the pool.  Excepted are calls   *)
(* after one that took something else for its response, and data that looks *)
(* like a response, on a connection that is not clean and on no other.      *)
OwnResponse ==
    \A k \in Calls :
        /\ status[k] = "ok" => answer[k] = k \/ Displaced(k)
        /\ status[k] = "stray" => Unclean(k)

Carries(p) == p.t \in {"data", "chunk", "proto"}

(* What the application reads of a body is what the server sent, from the   *)
(* start, and all of it when the body comes to its end, unless the server   *)
(* cuts the connection.  Bodies that are still being read when the          *)
(* connection is used for another request are excepted: the connection is   *)
(* in the pool before the body has been read.  So are, as in OwnResponse,   *)
(* calls after one that took something else for its response.  An upgraded  *)
(* connection may lack a first part, the one that came with the head of the *)
(* response, and nothing else.                                              *)
BodyIntact ==
    \A k \in Calls \ shared :
        status[k] = "ok" /\ ~Displaced(k) =>
            LET j == answer[k]
                sent == Answer(j, reply[j])
                skipped == IF reply[j].framing = "switching" THEN 2..Len(sent) ELSE {2}
                whole == ending[k] = "whole" /\ link[used[k]] # "cut"
            IN  \E o \in skipped :
                    /\ \A i \in 1..Len(data[k]) :
                        o + i \in 1..Len(sent) /\ data[k][i] = sent[o + i] /\ Carries(sent[o + i])
                    /\ whole => \A i \in 1..Len(sent) : Carries(sent[i]) => i <= o + Len(data[k])

(* send_request fails only when the server closes the connection, or when   *)
(* an earlier response on it was not read to its very end.                  *)
FailsForAReason ==
    \A k \in Calls : status[k] = "failed" => link[used[k]] # "open" \/ Unclean(k)

Allows(r) == r.conn = "none" /\ r.framing # "switching"

(* Client::request uses a connection again only after a response that       *)
(* allows it: not after an error, Connection: close or a switch of          *)
(* protocols.  A response whose head was cut off counts as one that does,   *)
(* and one that left-over data was taken for as what it looks like.         *)
ReusedWhenAllowed ==
    \A k \in Calls, j \in Calls :
        j < k /\ used[j] = used[k] /\ used[j] # 0 =>
            (status[j] = "ok" /\ Allows(reply[answer[j]])) \/ status[j] \in {"truncated", "stray"}

(* request() returns, with a response or an error, if no body of an earlier *)
(* response competes with it for the connection.  Excepted is a HEAD        *)
(* request, whose response parse_response takes to have a body.             *)
Returns ==
    \A k \in Calls :
        (n = k /\ pc \in {"parse", "small"})
            ~> (status[k] # "none" \/ k \in shared \/ reply[k].framing = "head")
=============================================================================
