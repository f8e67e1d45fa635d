------------------------------- MODULE Request -------------------------------
(***************************************************************************)
(* src/src/request.rs: how parse_request cuts the byte stream of a         *)
(* connection into request heads, and what a request looks like on the     *)
(* wire.                                                                   *)
(*                                                                         *)
(* The stream is a sequence of pieces, each the work of one or more calls  *)
(* of read_until or read_exact:                                            *)
(*   "line"    the request line                                            *)
(*   "fields"  the header fields with the empty line that ends the head    *)
(*   "data"    a part of a body of known length                            *)
(*   "chunk"   a chunk: size line, data and CRLF                           *)
(*   "last"    the line of the last chunk, of size 0                       *)
(*   "crlf"    the empty line that ends a chunked body                     *)
(***************************************************************************)
EXTENDS Naturals, Sequences

PieceKinds == {"line", "fields", "data", "chunk", "last", "crlf"}

RequestRecords ==
    [version : {"1.0", "1.1"},
     method  : {"GET", "HEAD", "CONNECT"},
     conn    : {"none", "close", "keep-alive"},
     expect  : {"none", "100-continue"},
     body    : {"none", "small", "large", "chunked", "buffered"},
     head    : {"valid", "invalid", "truncated"}]

(* A body of at least 1024 bytes ("large") is not buffered and comes in     *)
(* several pieces; a "small" one is read by parse_request itself.           *)
BodyPieces(body) ==
    CASE body = "small"   -> << "data" >>
      [] body = "large"   -> << "data", "data" >>
      [] body = "chunked" -> << "chunk", "last", "crlf" >>
      [] OTHER            -> << >>

(* bound: the pieces of the longest request *)
MaxPieces == 5

Shape(r) == << "line", "fields" >> \o BodyPieces(r.body)

Pieces(k, r) == [i \in 1..Len(Shape(r)) |-> [k |-> k, t |-> Shape(r)[i]]]

(* The loop over read_until: what buf holds when the loop goes on.  httparse *)
(* skips empty lines before the request line; everything else is "junk"     *)
(* that will not parse.  A response that was not read to its end may leave  *)
(* more than junk: see Loose in Client.                                     *)
HeadAfter(got, t) ==
    IF t = "line" /\ got \in {"nothing", "blank"} THEN "line"
    ELSE IF t = "crlf" /\ got = "nothing" THEN "blank"
    ELSE "junk"

(* buf ends in an empty line and is more than that line. *)
HeadEnds(got, t) == t = "fields" \/ (t = "crlf" /\ got # "nothing")

(* httparse accepts the head, and the version and the Transfer-Encoding are *)
(* supported.                                                               *)
HeadParses(got, t, r) == got = "line" /\ t = "fields" /\ r.head = "valid"

(* At end of stream after the request line httparse reports Partial, which  *)
(* parse_request does not look at: the request has what was parsed so far.  *)
Truncated(r) ==
    [r EXCEPT !.conn = "none", !.expect = "none", !.body = "none", !.head = "truncated"]

(* server.rs, serve(): the request does not allow a further one. *)
DemandsClose(r) ==
    IF r.version = "1.0" THEN r.conn # "keep-alive" ELSE r.conn = "close"
=============================================================================
