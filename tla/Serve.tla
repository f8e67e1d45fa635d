-------------------------------- MODULE Serve --------------------------------
(***************************************************************************)
(* src/src/server.rs, serve(): the life of one connection.  The loop       *)
(* parses a request (src/src/request.rs), asks the service, writes the     *)
(* response (src/src/response.rs) and goes on, ends, or hands the          *)
(* connection to an upgrade handler.  The connection is shared with the    *)
(* client, and the reading side also with the bodies of earlier requests,  *)
(* which the service may have moved to other threads (src/src/body.rs,     *)
(* src/src/read_queue.rs).                                                 *)
(*                                                                         *)
(* Request k is read through reader k: parse_request reads the head, and a *)
(* body that was not buffered keeps the reader until it is dropped.        *)
(***************************************************************************)
EXTENDS Request, Response

CONSTANTS
    MaxRequests,    \* bound: requests a client starts on one connection
    ClientRequests, \* the requests a client may send
    Uses,           \* what a service does with a body of either kind it is given
    Answers,        \* the responses of the service
    Continues,      \* the answers of should_continue: "accept", "reject"
    ReadTimeout,    \* ServerBuilder::read_timeout: "none" or "set"
    Hangups         \* where a client may stop sending: "between", "within" requests

AllUses == {"drop", "read", "abandon", "spawn", "echo", "capture", "fail"}
Lengths == {{}, {0}, {2000}}
MaxReaders == MaxRequests + 1
MaxWire == MaxPieces * MaxRequests
Readers == 1..MaxReaders

ASSUME ServeAssumption ==
    /\ MaxRequests \in Nat
    /\ ClientRequests \subseteq RequestRecords
    /\ Uses \subseteq {"Reader", "Iter"} \X AllUses
    /\ Answers \subseteq Responses(Lengths)
    /\ Continues \subseteq {"accept", "reject"}
    /\ ReadTimeout \in {"none", "set"}
    /\ Hangups \subseteq {"between", "within"}

VARIABLES
    queue, n, phase, full, stream, consumed,   \* the ReadQueue of the connection
    reqs,     \* the requests the client has started, in order
    unsent,   \* the pieces of the last of them that are still to be sent
    wire,     \* every piece the client has sent
    eof,      \* "closed": the client has closed its side
    pc,       \* where the thread that runs serve() is
    got,      \* parse_request: what the head read so far looks like
    req,      \* the request being parsed or answered
    res,      \* the response of the service
    after,    \* where the thread goes on when it has let go of the body
    holder,   \* who owns the body that reads through reader k
    kind,     \* BodyInner::Reader (known length) or BodyInner::Iter (ChunkedReader)
    form,     \* "Body", or what became of it: see BodyPiece and Done
    left,     \* Reader: pieces still expected; Iter: 0 after the last chunk
    out,      \* replies in the BufWriter
    sent,     \* replies written to the socket
    late      \* requests whose body ran into the read timeout

queueVars == <<queue, n, phase, full, stream, consumed>>
clientVars == <<reqs, unsent, wire, eof>>
bodyVars == <<holder, kind, form, left, late>>
loopVars == <<pc, got, req, res, after>>
replyVars == <<out, sent>>
vars == <<queueVars, clientVars, bodyVars, loopVars, replyVars>>

RQ == INSTANCE ReadQueue WITH MaxReads <- MaxWire

NoRequest ==
    [version |-> "1.1", method |-> "GET", conn |-> "none", expect |-> "none",
     body |-> "none", head |-> "valid"]
NoResponse ==
    [te |-> "none", conn |-> "none", cl |-> {}, len |-> {}, success |-> "yes", upgrade |-> "no"]

Replies == [k : Readers, what : {"continue", "reject", "head", "end"}]

TypeOK ==
    /\ RQ!TypeOK
    /\ reqs \in Seq(ClientRequests) /\ Len(reqs) <= MaxRequests
    /\ unsent \in Seq([k : Readers, t : PieceKinds])
    /\ wire \in Seq([k : Readers, t : PieceKinds])
    /\ eof \in {"open", "closed"}
    /\ pc \in {"start", "parse", "body", "fail", "dispatch", "expect", "call", "using", "write",
               "outcome", "upgrade", "into_inner", "handler", "exit", "unwind", "done"}
    /\ got \in {"nothing", "blank", "line", "junk"}
    /\ req \in RequestRecords
    /\ res \in Responses(Lengths)
    /\ after \in {"parse", "write", "outcome", "exit"}
    /\ holder \in [Readers -> {"none", "server", "response", "thread", "upgrade"}]
    /\ kind \in [Readers -> {"Reader", "Iter"}]
    /\ form \in [Readers -> {"Body", "drain", "read", "abandon", "chunks"}]
    /\ left \in [Readers -> Nat]
    /\ out \in Seq(Replies) /\ sent \in Seq(Replies)
    /\ late \subseteq Readers

Init ==
    /\ RQ!Init
    /\ reqs = << >> /\ unsent = << >> /\ wire = << >> /\ eof = "open"
    /\ pc = "start" /\ got = "nothing" /\ after = "parse"
    /\ req = NoRequest /\ res = NoResponse
    /\ holder = [k \in Readers |-> "none"]
    /\ kind = [k \in Readers |-> "Reader"]
    /\ form = [k \in Readers |-> "Body"]
    /\ left = [k \in Readers |-> 0]
    /\ out = << >> /\ sent = << >> /\ late = {}

-----------------------------------------------------------------------------
(* The client.  It may pipeline, and it may stop sending.  Before the body  *)
(* of a request that expects 100-continue it waits for a reply (ClientSend) *)
(* or loses patience (ClientSendEarly).                                     *)

Answered(k) == \E i \in DOMAIN sent : sent[i].k = k

Withheld ==
    /\ reqs[Len(reqs)].expect = "100-continue"
    /\ Head(unsent).t \notin {"line", "fields"}
    /\ ~Answered(Len(reqs))

(* Nothing reads what arrives after the reading side has been closed. *)
ClientStart ==
    /\ eof = "open" /\ stream = "open"
    /\ unsent = << >>
    /\ Len(reqs) < MaxRequests
    /\ \E r \in ClientRequests :
        /\ reqs' = Append(reqs, r)
        /\ unsent' = Pieces(Len(reqs) + 1, r)
    /\ UNCHANGED <<queueVars, wire, eof, bodyVars, loopVars, replyVars>>

PutOnWire ==
    /\ wire' = Append(wire, Head(unsent))
    /\ unsent' = Tail(unsent)
    /\ UNCHANGED <<queueVars, reqs, eof, bodyVars, loopVars, replyVars>>

ClientSend ==
    /\ eof = "open"
    /\ unsent # << >> /\ ~Withheld
    /\ PutOnWire

ClientSendEarly ==
    /\ eof = "open"
    /\ unsent # << >> /\ Withheld
    /\ PutOnWire

ClientClose ==
    /\ eof = "open"
    /\ (IF unsent = << >> THEN "between" ELSE "within") \in Hangups
    /\ eof' = "closed"
    /\ UNCHANGED <<queueVars, reqs, unsent, wire, bodyVars, loopVars, replyVars>>

-----------------------------------------------------------------------------
(* The reading side as the server sees it. *)

Available == Len(consumed) < Len(wire)
NextPiece == wire[Len(consumed) + 1]
EndOfStream == ~Available /\ eof = "closed"
TimesOutNever == FALSE
TimesOut == ~Available /\ eof = "open" /\ ReadTimeout = "set"

(* parse_request *)

Start ==
    /\ pc = "start"
    /\ RQ!Enqueue
    /\ pc' = "parse"
    /\ UNCHANGED <<clientVars, bodyVars, got, req, res, after, replyVars>>

(* The first read_until blocks until the bodies of the requests before have *)
(* handed the stream on.                                                    *)
ParseRecv ==
    /\ pc = "parse"
    /\ RQ!Recv(n)
    /\ UNCHANGED <<clientVars, bodyVars, loopVars, replyVars>>

ParsePiece ==
    /\ pc = "parse"
    /\ Available
    /\ RQ!Read(n)
    /\ LET t == NextPiece.t
           r == reqs[NextPiece.k]
       IN  \/ /\ ~HeadEnds(got, t)
              /\ got' = HeadAfter(got, t)
              /\ UNCHANGED <<pc, req>>
           \/ /\ HeadEnds(got, t)
              /\ got' = "nothing"
              /\ IF HeadParses(got, t, r)
                 THEN req' = r /\ pc' = "body"
                 ELSE UNCHANGED req /\ pc' = "fail"
    /\ UNCHANGED <<clientVars, bodyVars, res, after, replyVars>>

ParseEof ==
    /\ pc = "parse"
    /\ phase[n] = "current"
    /\ EndOfStream
    /\ got' = "nothing"
    /\ IF got = "line" /\ reqs[Len(reqs)].head = "valid"
       THEN req' = Truncated(reqs[Len(reqs)]) /\ pc' = "body"
       ELSE UNCHANGED req /\ pc' = "fail"
    /\ UNCHANGED <<queueVars, clientVars, bodyVars, res, after, replyVars>>

(* A body of less than 1024 bytes is read at once. *)
BufferBody ==
    /\ pc = "body"
    /\ req.body = "small"
    /\ Available
    /\ RQ!Read(n)
    /\ req' = [req EXCEPT !.body = "buffered"]
    /\ UNCHANGED <<clientVars, bodyVars, pc, got, res, after, replyVars>>

(* read_until or read_exact returns an error. *)
ParseReadFails ==
    /\ \/ pc = "parse" /\ TimesOut
       \/ pc = "body" /\ req.body = "small" /\ (TimesOut \/ EndOfStream)
    /\ phase[n] = "current"
    /\ pc' = "fail"
    /\ got' = "nothing"
    /\ UNCHANGED <<queueVars, clientVars, bodyVars, req, res, after, replyVars>>

(* parse_request is done with its stream and drops it. *)
ParsedWithoutStream ==
    /\ pc = "body"
    /\ req.body \in {"none", "buffered"}
    /\ RQ!DropCurrent(n)
    /\ pc' = "dispatch"
    /\ UNCHANGED <<clientVars, bodyVars, got, req, res, after, replyVars>>

(* The body takes the stream along: Body::from_reader, Body::from_iter.     *)
ParsedWithStream ==
    /\ pc = "body"
    /\ req.body \in {"large", "chunked"}
    /\ pc' = "dispatch"
    /\ holder' = [holder EXCEPT ![n] = "server"]
    /\ kind' = [kind EXCEPT ![n] = IF req.body = "large" THEN "Reader" ELSE "Iter"]
    /\ left' = [left EXCEPT ![n] = IF req.body = "large" THEN Len(BodyPieces("large")) ELSE 1]
    /\ UNCHANGED <<queueVars, clientVars, form, late, got, req, res, after, replyVars>>

ParseFailed ==
    /\ pc = "fail"
    /\ RQ!DropCurrent(n)
    /\ pc' = "exit"
    /\ UNCHANGED <<clientVars, bodyVars, got, req, res, after, replyVars>>

-----------------------------------------------------------------------------
(* serve(): from the parsed request to the service. *)

Dispatch ==
    /\ pc = "dispatch"
    /\ RQ!Enqueue
    /\ pc' = IF req.expect = "100-continue" THEN "expect" ELSE "call"
    /\ UNCHANGED <<clientVars, bodyVars, got, req, res, after, replyVars>>

(* The request being answered: the newest reader is for the one after it.   *)
Current == n - 1

Reply(what) == << [k |-> Current, what |-> what] >>

(* The body, if this thread still owns it, is put to use, and then the      *)
(* thread goes on at "next".                                                *)
UseBodyThen(use, next) ==
    IF holder[Current] \in {"none", "thread"}
    THEN pc' = next /\ UNCHANGED <<after, holder, form>>
    ELSE /\ pc' = "using"
         /\ after' = next
         /\ form' = [form EXCEPT ![Current] = use]
         /\ holder' = [holder EXCEPT ![Current] =
                           IF next = "outcome" THEN "response" ELSE "server"]

ExpectContinueUnflushed ==
    /\ pc = "expect"
    /\ "accept" \in Continues
    /\ out' = out \o Reply("continue")
    /\ pc' = "call"
    /\ UNCHANGED <<queueVars, clientVars, bodyVars, got, req, res, after, sent>>

ExpectContinue ==
    /\ pc = "expect"
    /\ "accept" \in Continues
    /\ sent' = sent \o out \o Reply("continue")
    /\ out' = << >>
    /\ pc' = "call"
    /\ UNCHANGED <<queueVars, clientVars, bodyVars, got, req, res, after>>

ExpectRejectFallsThrough ==
    /\ pc = "expect"
    /\ "reject" \in Continues
    /\ sent' = sent \o out \o Reply("reject")
    /\ out' = << >>
    /\ pc' = "call"
    /\ UNCHANGED <<queueVars, clientVars, bodyVars, got, req, res, after>>

ExpectRejectKeepsBody ==
    /\ pc = "expect"
    /\ "reject" \in Continues
    /\ sent' = sent \o out \o Reply("reject")
    /\ out' = << >>
    /\ pc' = "parse"
    /\ UNCHANGED <<queueVars, clientVars, bodyVars, got, req, res, after>>

(* The early "continue" of the loop drops the request with its body. *)
ExpectReject ==
    /\ pc = "expect"
    /\ "reject" \in Continues
    /\ sent' = sent \o out \o Reply("reject")
    /\ out' = << >>
    /\ UseBodyThen("drain", "parse")
    /\ UNCHANGED <<queueVars, clientVars, kind, left, late, got, req, res>>

(* The ways in which the service may use the body of the request. *)
CurrentUses == {use \in AllUses : <<kind[Current], use>> \in Uses}

(* app.call(req), with the changes the loop makes to the response.  The     *)
(* service has no body, is done with it before it returns (drop, read,      *)
(* abandon), or fails.                                                      *)
Call ==
    /\ pc = "call"
    /\ \/ \E a \in Answers, use \in CurrentUses \cap {"drop", "read", "abandon"} :
            /\ res' = Prepared(a, req)
            /\ UseBodyThen(IF use = "drop" THEN "drain" ELSE use, "write")
       \/ /\ "fail" \in CurrentUses
          /\ UNCHANGED res
          /\ UseBodyThen("drain", "exit")
    /\ UNCHANGED <<queueVars, clientVars, kind, left, late, got, req, replyVars>>

(* The service moves the body to a thread of its own. *)
CallSpawn ==
    /\ pc = "call"
    /\ "spawn" \in CurrentUses
    /\ holder[Current] = "server"
    /\ \E a \in Answers, use \in CurrentUses \cap {"drop", "read", "abandon"} :
        /\ res' = Prepared(a, req)
        /\ form' = [form EXCEPT ![Current] = IF use = "drop" THEN "drain" ELSE use]
    /\ holder' = [holder EXCEPT ![Current] = "thread"]
    /\ pc' = "write"
    /\ UNCHANGED <<queueVars, clientVars, kind, left, late, got, req, after, replyVars>>

(* The body of the request is the body of the response. *)
CallEcho ==
    /\ pc = "call"
    /\ "echo" \in CurrentUses
    /\ holder[Current] = "server"
    /\ \E a \in Answers :
        res' = Prepared([a EXCEPT !.len = IF kind[Current] = "Reader" THEN {2000} ELSE {}], req)
    /\ holder' = [holder EXCEPT ![Current] = "response"]
    /\ pc' = "write"
    /\ UNCHANGED <<queueVars, clientVars, kind, form, left, late, got, req, after, replyVars>>

(* The upgrade handler of the response has captured the body. *)
CallCapture ==
    /\ pc = "call"
    /\ "capture" \in CurrentUses
    /\ holder[Current] = "server"
    /\ \E a \in Answers : a.upgrade = "yes" /\ res' = Prepared(a, req)
    /\ holder' = [holder EXCEPT ![Current] = "upgrade"]
    /\ pc' = "write"
    /\ UNCHANGED <<queueVars, clientVars, kind, form, left, late, got, req, after, replyVars>>

-----------------------------------------------------------------------------
(* A body in use, by whichever thread owns it.  "drain": Body::drop;        *)
(* "read": into_reader or into_bytes, to the end; "abandon": the same, but  *)
(* dropped at any point; "chunks": into_chunks of a body of known length,   *)
(* whose last read takes whatever is in the buffer (left = 0).              *)

BodyPieceUnchecked(k) ==
    /\ Available
    /\ RQ!Read(k)
    /\ IF form[k] = "drain" THEN kind[k] = "Reader" /\ left[k] > 0
       ELSE left[k] > 0 \/ form[k] = "chunks"
    /\ left' = [left EXCEPT ![k] =
                    IF kind[k] = "Reader" THEN @ - 1
                    ELSE IF NextPiece.t = "chunk" THEN @ ELSE 0]

BodyPiece(k) ==
    /\ Available
    /\ RQ!Read(k)
    /\ IF form[k] = "drain" THEN kind[k] = "Reader" /\ left[k] > 0
       ELSE left[k] > 0 \/ form[k] = "chunks"
    /\ left' = [left EXCEPT ![k] =
                    IF kind[k] = "Reader" THEN (IF @ = 0 THEN 0 ELSE @ - 1)
                    ELSE IF NextPiece.t = "chunk" THEN @ ELSE 0]

DoneWithoutDrain(k) ==
    \/ left[k] = 0
    \/ EndOfStream
    \/ form[k] \in {"abandon", "drain"}

(* Body::drop drains a Reader and drops an Iter as it is.  The end of the   *)
(* stream ends every body without an error.                                 *)
Done(k) ==
    \/ left[k] = 0
    \/ EndOfStream
    \/ form[k] = "abandon"
    \/ form[k] = "drain" /\ kind[k] = "Iter"

BodyTimesOut(k) == TimesOut /\ ~Done(k)

(* Body::drop and ChunkedReader ignore the error of a read that times out.  *)
Swallows(k) == form[k] = "drain" \/ kind[k] = "Iter"

LetGo(k) ==
    /\ RQ!DropCurrent(k)
    /\ holder' = [holder EXCEPT ![k] = "none"]
    /\ UNCHANGED <<kind, form, left>>

(* write_response flushes after every chunk. *)
UsePiece ==
    /\ pc = "using"
    /\ BodyPiece(Current)
    /\ IF holder[Current] = "response" /\ form[Current] # "drain"
          /\ Encoding(res, req.version) = "chunked"
       THEN sent' = sent \o out /\ out' = << >>
       ELSE UNCHANGED replyVars
    /\ UNCHANGED <<clientVars, holder, kind, form, late, loopVars>>

UseDone ==
    /\ pc = "using"
    /\ Done(Current)
    /\ LetGo(Current)
    /\ pc' = after
    /\ UNCHANGED <<clientVars, late, got, req, res, after, replyVars>>

(* An error of a read that is not swallowed ends write_response, or is the  *)
(* service's to handle or to return.                                        *)
UseTimeout ==
    /\ pc = "using"
    /\ BodyTimesOut(Current)
    /\ LetGo(Current)
    /\ late' = late \cup {Current}
    /\ \/ /\ Swallows(Current) \/ holder[Current] = "server"
          /\ pc' = after
       \/ ~Swallows(Current) /\ pc' = "exit"
    /\ UNCHANGED <<clientVars, got, req, res, after, replyVars>>

ThreadPiece(k) ==
    /\ holder[k] = "thread"
    /\ BodyPiece(k)
    /\ UNCHANGED <<clientVars, holder, kind, form, late, loopVars, replyVars>>

ThreadDone(k) ==
    /\ holder[k] = "thread"
    /\ Done(k)
    /\ LetGo(k)
    /\ UNCHANGED <<clientVars, late, loopVars, replyVars>>

ThreadTimeout(k) ==
    /\ holder[k] = "thread"
    /\ BodyTimesOut(k)
    /\ LetGo(k)
    /\ late' = late \cup {k}
    /\ UNCHANGED <<clientVars, loopVars, replyVars>>

-----------------------------------------------------------------------------
(* write_response and what serve() does with its outcome. *)

WriteResponse ==
    /\ pc = "write"
    /\ LET e == Encoding(res, req.version)
       IN  \/ /\ e = "mismatch"
              /\ UseBodyThen("drain", "exit")
              /\ UNCHANGED out
           \/ /\ e # "mismatch"
              /\ out' = out \o Reply("head")
              /\ IF holder[Current] = "response"
                 THEN UseBodyThen(IF ~ShouldWriteBody(res, req) THEN "drain"
                                  ELSE IF e = "chunked" /\ kind[Current] = "Reader" THEN "chunks"
                                  ELSE "read", "outcome")
                 ELSE pc' = "outcome" /\ UNCHANGED <<after, holder, form>>
    /\ UNCHANGED <<queueVars, clientVars, kind, left, late, got, req, res, sent>>

KeepAliveUnflushed ==
    /\ pc = "outcome"
    /\ Outcome(res, req.version) = "KeepAlive" /\ ~DemandsClose(req)
    /\ out' = out \o Reply("end")
    /\ pc' = "parse"
    /\ UNCHANGED <<queueVars, clientVars, bodyVars, got, req, res, after, sent>>

KeepAlive ==
    /\ pc = "outcome"
    /\ Outcome(res, req.version) = "KeepAlive" /\ ~DemandsClose(req)
    /\ sent' = sent \o out \o Reply("end")
    /\ out' = << >>
    /\ pc' = "parse"
    /\ UNCHANGED <<queueVars, clientVars, bodyVars, got, req, res, after>>

Close ==
    /\ pc = "outcome"
    /\ \/ Outcome(res, req.version) = "KeepAlive" /\ DemandsClose(req)
       \/ Outcome(res, req.version) = "Close"
    /\ out' = out \o Reply("end")
    /\ pc' = "exit"
    /\ UNCHANGED <<queueVars, clientVars, bodyVars, got, req, res, after, sent>>

UpgradeWithoutDrops ==
    /\ pc = "outcome"
    /\ Outcome(res, req.version) = "Upgrade"
    /\ out' = out \o Reply("end")
    /\ pc' = "into_inner"
    /\ UNCHANGED <<queueVars, clientVars, bodyVars, got, req, res, after, sent>>

Upgrade ==
    /\ pc = "outcome"
    /\ Outcome(res, req.version) = "Upgrade"
    /\ out' = out \o Reply("end")
    /\ pc' = "upgrade"
    /\ UNCHANGED <<queueVars, clientVars, bodyVars, got, req, res, after, sent>>

(* A write fails because the client is gone: serve() returns. *)
WriteFails ==
    /\ eof = "closed"
    /\ pc \in {"expect", "write", "outcome"}
    /\ out' = << >>
    /\ UseBodyThen("drain", "exit")
    /\ UNCHANGED <<queueVars, clientVars, kind, left, late, got, req, res, sent>>

(* The same in the middle of a body, which is dropped as it is. *)
WriteBodyFails ==
    /\ eof = "closed"
    /\ pc = "using" /\ holder[Current] = "response" /\ form[Current] # "drain"
    /\ LetGo(Current)
    /\ out' = << >>
    /\ pc' = "exit"
    /\ UNCHANGED <<clientVars, late, got, req, res, after, sent>>

-----------------------------------------------------------------------------
(* The end of the connection: drop(reader) and drop(read_queue) before the  *)
(* upgrade handler runs; writer, reader and read_queue, in that order, when *)
(* serve() returns.                                                         *)

DropReader ==
    /\ pc \in {"upgrade", "unwind"}
    /\ RQ!DropWaiting(n) \/ RQ!FinishDrop(n)
    /\ UNCHANGED <<clientVars, bodyVars, loopVars, replyVars>>

DropQueue ==
    /\ pc \in {"upgrade", "unwind"}
    /\ phase[n] = "gone"
    /\ RQ!DropQueue
    /\ pc' = IF pc = "upgrade" THEN "into_inner" ELSE "done"
    /\ UNCHANGED <<clientVars, bodyVars, got, req, res, after, replyVars>>

IntoInnerForgetsHandler ==
    /\ pc = "into_inner"
    /\ sent' = sent \o out
    /\ pc' = "done"
    /\ out' = << >>
    /\ UNCHANGED <<queueVars, clientVars, bodyVars, got, req, res, after>>

(* writer.into_inner()? *)
IntoInner ==
    /\ pc = "into_inner"
    /\ \/ sent' = sent \o out /\ pc' = "handler"
       \/ eof = "closed" /\ UNCHANGED sent /\ pc' = "done"
    /\ out' = << >>
    /\ UNCHANGED <<queueVars, clientVars, bodyVars, got, req, res, after>>

(* upgrade.handler.handle(connection) returns. *)
HandlerReturns ==
    /\ pc = "handler"
    /\ pc' = "done"
    /\ UNCHANGED <<queueVars, clientVars, bodyVars, got, req, res, after, replyVars>>

(* Drop for BufWriter writes what it holds. *)
DropWriter ==
    /\ pc = "exit"
    /\ sent' = sent \o out \/ (eof = "closed" /\ UNCHANGED sent)
    /\ out' = << >>
    /\ pc' = "unwind"
    /\ UNCHANGED <<queueVars, clientVars, bodyVars, got, req, res, after>>

(* drop(reader) waits for a body that only the upgrade handler, which comes *)
(* after it, would let go of.                                               *)
CapturedForever ==
    /\ pc = "upgrade"
    /\ phase[n] = "dropping"
    /\ holder[Current] = "upgrade"
    /\ UNCHANGED vars

Terminated ==
    /\ pc = "done"
    /\ stream = "closed"
    /\ UNCHANGED vars

ServerStep ==
    \/ Start \/ ParseRecv \/ ParsePiece \/ ParseEof \/ BufferBody \/ ParseReadFails
    \/ ParsedWithoutStream \/ ParsedWithStream \/ ParseFailed
    \/ Dispatch \/ ExpectContinue \/ ExpectReject
    \/ Call \/ CallSpawn \/ CallEcho \/ CallCapture
    \/ UsePiece \/ UseDone \/ UseTimeout
    \/ WriteResponse \/ KeepAlive \/ Close \/ Upgrade \/ WriteFails \/ WriteBodyFails
    \/ DropReader \/ DropQueue \/ IntoInner \/ HandlerReturns \/ DropWriter

ThreadStep(k) == ThreadPiece(k) \/ ThreadDone(k) \/ ThreadTimeout(k)

ClientStep == ClientStart \/ ClientSend \/ ClientSendEarly \/ ClientClose

Next ==
    \/ ServerStep
    \/ \E k \in Readers : ThreadStep(k)
    \/ ClientStep
    \/ CapturedForever
    \/ Terminated

(* Threads run, and the service's code returns. *)
ServerFairness ==
    /\ WF_vars(ServerStep)
    /\ \A k \in Readers : WF_vars(ThreadStep(k))

(* A client that has started a request finishes it or closes. *)
ClientFairness == WF_vars(ClientSend)

SafeSpec == Init /\ [][Next]_vars
Spec == SafeSpec /\ ServerFairness
FairSpec == Spec /\ ClientFairness

-----------------------------------------------------------------------------
(* What is read through reader k belongs to request k: the pipelining that  *)
(* read_queue.rs is there for.  Excepted are the empty line after a chunked *)
(* body, which ChunkedReader leaves to the next parse_request, and a body   *)
(* that ran into the read timeout, the rest of which meets the parser when  *)
(* it comes.                                                                *)
Aligned ==
    \A i \in DOMAIN consumed :
        \/ wire[i].t = "crlf" \/ consumed[i] = wire[i].k
        \/ \E k \in late : k <= wire[i].k

(* Every reply so far, on the socket or still in the BufWriter; a final     *)
(* reply is the head of the response or the rejection of the request.       *)
AllReplies == sent \o out
Final(p) == p.what \in {"head", "reject"}

(* Every request that serve() takes gets one final reply, in the order of   *)
(* the requests, and 100 Continue only before its own final reply.          *)
RepliesInOrder ==
    /\ \A i \in DOMAIN AllReplies : \A m \in 1..(AllReplies[i].k - 1) :
            \E j \in 1..(i - 1) : Final(AllReplies[j]) /\ AllReplies[j].k = m
    /\ \A i, j \in DOMAIN AllReplies :
            i < j /\ Final(AllReplies[i]) /\ AllReplies[j].what # "end" =>
                AllReplies[i].k < AllReplies[j].k
    /\ \A i \in DOMAIN AllReplies : AllReplies[i].what = "end" =>
            i > 1 /\ AllReplies[i - 1] = [k |-> AllReplies[i].k, what |-> "head"]

(* serve() blocks for the next request only when the reply to every request *)
(* before is complete and on the socket.                                    *)
AnsweredBeforeNext ==
    pc \in {"parse", "body", "dispatch"} =>
        /\ out = << >>
        /\ n > 1 => sent # << >> /\ sent[Len(sent)].k = n - 1
                    /\ sent[Len(sent)].what \in {"end", "reject"}

(* Services that keep bodies for later do not pile up readers: only the     *)
(* request being answered and the next one have a live reader.              *)
TwoReaders == \A k \in 1..(n - 2) : phase[k] = "gone"

(* serve() never waits for itself: when it blocks for the stream, in the    *)
(* next parse_request or in drop(reader), the stream is in the channel or   *)
(* with a body that the service has kept.                                   *)
BlockedOnlyByService ==
    pc \in {"parse", "upgrade", "unwind"} /\ phase[n] \in {"waiting", "dropping"} =>
        Current \in full \/ holder[Current] \in {"thread", "upgrade"}

(* The strengthening that makes TwoReaders, BlockedOnlyByService and        *)
(* UpgradeExclusive inductive: which readers exist and what state they are  *)
(* in, at every place of serve().                                           *)
Position ==
    /\ pc = "start" <=> n = 0
    /\ queue = "Dropped" <=> pc \in {"into_inner", "handler", "done"}
    /\ pc = "parse" => phase[n] \in {"waiting", "current"}
    /\ pc \in {"body", "fail"} => phase[n] = "current"
    /\ pc = "dispatch" => phase[n] = (IF holder[n] = "none" THEN "gone" ELSE "current")
    /\ pc \in {"expect", "call", "using", "write", "outcome"} => n > 1 /\ phase[n] = "waiting"
    /\ pc \in {"exit", "unwind", "upgrade"} => phase[n] \in {"waiting", "dropping", "gone"}
    /\ pc \in {"upgrade", "into_inner", "handler"} => n > 1
    /\ pc \in {"into_inner", "handler", "done"} => phase[n] = "gone"
    /\ n > 1 => phase[n - 1] \in {"current", "gone"}

(* A body that has an owner holds the stream, and who the owner may be.     *)
Ownership ==
    /\ \A k \in Readers : holder[k] # "none" =>
            phase[k] = "current" /\ (k = n - 1 \/ (k = n /\ pc = "dispatch"))
    /\ \A k \in Readers : phase[k] = "current" =>
            holder[k] # "none" \/ (k = n /\ pc \in {"parse", "body", "fail"})
    /\ pc = "dispatch" => holder[n] \in {"none", "server"}
    /\ n > 1 =>
        /\ pc \in {"expect", "call"} => holder[n - 1] \in {"none", "server"}
        /\ pc = "using" => holder[n - 1] \in {"server", "response"}
        /\ pc = "write" => holder[n - 1] \in {"none", "thread", "response", "upgrade"}
        /\ pc \in {"outcome", "upgrade"} => holder[n - 1] \in {"none", "thread", "upgrade"}
        /\ pc \in {"write", "outcome"} /\ holder[n - 1] = "upgrade" => res.upgrade = "yes"
        /\ pc \in {"parse", "exit", "unwind"} => holder[n - 1] \in {"none", "thread"}

(* The response of an upgrade is complete before the handler runs. *)
Completed ==
    /\ pc \in {"upgrade", "into_inner"} =>
            out # << >> /\ out[Len(out)] = [k |-> Current, what |-> "end"]
    /\ pc = "handler" =>
            out = << >> /\ sent # << >> /\ sent[Len(sent)] = [k |-> Current, what |-> "end"]

Control == RQ!Handover /\ Position /\ Ownership /\ Completed

(* When the upgrade handler gets the connection nothing else in the server  *)
(* has a clone of it or can read from it (so that downcast of a TLS         *)
(* connection finds a single owner), and the response is on the socket.     *)
UpgradeExclusive ==
    pc = "handler" =>
        /\ stream = "closed" /\ queue = "Dropped"
        /\ \A k \in Readers : phase[k] \in {"unborn", "gone"} /\ holder[k] = "none"
        /\ out = << >> /\ sent[Len(sent)] = [k |-> Current, what |-> "end"]

(* ParseError::IncompleteRequest: a request whose head was cut off by the   *)
(* end of the stream never reaches the service.                             *)
OnlyCompleteRequests == pc = "call" => req.head = "valid"

(* With a read timeout, serve() returns once the client sends nothing more, *)
(* wherever it stopped, unless the upgrade handler keeps the request body.  *)
(* Here the client stops after MaxRequests at the latest; one that went on  *)
(* sending requests would keep the thread.                                  *)
Released == <>(pc = "done" \/ \E k \in Readers : holder[k] = "upgrade")

Complete(k) == Len(reqs) > k \/ (Len(reqs) = k /\ unsent = << >>)

(* Without one, every request that has been sent completely is answered     *)
(* completely or the connection ends.                                       *)
EveryRequestAnswered ==
    \A k \in 1..MaxRequests :
        Complete(k) ~> \/ pc = "done"
                       \/ \E i \in DOMAIN sent : sent[i].k = k /\ sent[i].what \in {"end", "reject"}

(* A client that has sent the head of a request that expects 100-continue   *)
(* and waits with the body gets a reply or sees the connection end.         *)
ExpectAnswered ==
    \A k \in 1..MaxRequests :
        (Len(reqs) = k /\ unsent # << >> /\ Withheld) ~> (pc = "done" \/ Answered(k) \/ unsent = << >>)

(* drop(reader) before the handler returns and the handler gets the         *)
(* connection, unless the handler itself keeps the request body or the      *)
(* client is gone.                                                          *)
UpgradeHappens ==
    (pc = "upgrade" /\ holder[Current] # "upgrade") ~>
        (pc = "handler" \/ (pc = "done" /\ eof = "closed"))
=============================================================================
