------------------------------ MODULE MCClient ------------------------------
(* Small instances of Client: the replies of the server. *)
EXTENDS Client

Kept(framing) == [framing |-> framing, conn |-> "none", after |-> "keep"]

Closing(framing) == [framing |-> framing, conn |-> "close", after |-> "close"]

AnyReply ==
    {Kept(f) : f \in {"small", "large", "chunked", "trailers", "empty", "switching", "interim", "head"}}
    \cup {Closing("close"), Closing("small"), [Kept("small") EXCEPT !.after = "close"]}
=============================================================================
