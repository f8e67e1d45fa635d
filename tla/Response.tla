------------------------------ MODULE Response ------------------------------
(***************************************************************************)
(* src/src/response.rs: how write_response frames a response and what it   *)
(* tells the connection loop to do next, and the preparation the loop does *)
(* before it calls write_response (src/src/server.rs).                     *)
(*                                                                         *)
(* A response is a record of what these decisions look at.  An Option is a *)
(* set with at most one element.                                           *)
(***************************************************************************)
EXTENDS Naturals

Responses(lengths) ==
    [te      : {"none", "chunked"},               \* Transfer-Encoding header
     conn    : {"none", "close", "keep-alive"},   \* Connection header
     cl      : lengths,                           \* Content-Length header
     len     : lengths,                           \* body.len()
     success : {"yes", "no"},                     \* status().is_success()
     upgrade : {"yes", "no"}]                     \* carries an UpgradeExtension

(* A response to an HTTP/1.0 request that did not ask for keep-alive says   *)
(* that the connection will be closed.                                      *)
Prepared(res, req) ==
    IF req.version = "1.0" /\ req.conn # "keep-alive"
    THEN [res EXCEPT !.conn = "close"] ELSE res

ShouldWriteBody(res, req) ==
    CASE req.method = "HEAD"    -> FALSE
      [] req.method = "CONNECT" -> res.success = "yes"
      [] OTHER                  -> TRUE

(* "mismatch" is the early return of an error: nothing has been written.    *)
Encoding(res, version) ==
    IF res.te = "chunked" /\ version = "1.1" THEN "chunked"
    ELSE IF res.cl # {} /\ res.len # {} /\ res.cl # res.len THEN "mismatch"
    ELSE IF res.cl # {} \/ res.len # {} THEN "fixed"
    ELSE IF res.conn # "close" /\ version = "1.1" THEN "chunked"
    ELSE "close_delimited"

Outcome(res, version) ==
    IF res.upgrade = "yes" THEN "Upgrade"
    ELSE IF Encoding(res, version) = "close_delimited" \/ res.conn = "close" THEN "Close"
    ELSE "KeepAlive"
=============================================================================
