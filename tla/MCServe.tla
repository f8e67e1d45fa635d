------------------------------- MODULE MCServe -------------------------------
(* Small instances of Serve: the requests of the client and the responses   *)
(* of the service that the configurations choose from.                      *)
EXTENDS Serve

Plain(body) == [NoRequest EXCEPT !.body = body]
Expecting(body) == [Plain(body) EXCEPT !.expect = "100-continue"]

Fixed == [NoResponse EXCEPT !.cl = {}, !.len = {0}]
Streamed == NoResponse
Chunked == [NoResponse EXCEPT !.te = "chunked"]
Closing == [NoResponse EXCEPT !.conn = "close"]
Mismatched == [NoResponse EXCEPT !.cl = {0}, !.len = {2000}]
Switching == [Fixed EXCEPT !.upgrade = "yes", !.success = "no"]

Mixed == {Plain("none"), Plain("small"), Plain("large"), Plain("chunked"), Expecting("chunked")}
KnownLength == {Plain("none"), Plain("large"), Expecting("large"),
    [Plain("large") EXCEPT !.conn = "close"],
    [Plain("large") EXCEPT !.version = "1.0", !.conn = "keep-alive"]}
AllRequests == Mixed \cup {Expecting("large"),
    [Plain("large") EXCEPT !.conn = "close"],
    [Plain("large") EXCEPT !.version = "1.0"],
    [Plain("large") EXCEPT !.method = "HEAD"],
    [Plain("none") EXCEPT !.head = "invalid"]}
PipelinedRequests == KnownLength \cup {Plain("small"), Plain("chunked")}
OnlySmallExpecting == {Expecting("small")}
OnlyLarge == {Plain("large")}
OnlyChunked == {Plain("chunked")}

AllAnswers == {Fixed, Chunked, Closing, Mismatched, Switching}
Unchunked == {Fixed, Streamed}
Upgrading == {Fixed, Switching}
OnlyFixed == {Fixed}

BothKinds(uses) == {"Reader", "Iter"} \X uses
AnyUse == BothKinds(AllUses)
ReadChunked == ({"Iter"} \X {"read", "spawn", "echo"}) \cup ({"Reader"} \X {"drop", "read", "spawn", "echo", "fail"})
ReadingUses == BothKinds({"read", "spawn", "echo"})
NoFailure == BothKinds({"drop", "read", "spawn", "echo", "capture"})
OnlyDrop == BothKinds({"drop"})
=============================================================================
