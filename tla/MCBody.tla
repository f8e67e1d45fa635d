------------------------------- MODULE MCBody -------------------------------
(* Small bodies of every kind. *)
EXTENDS Body

SmallBodies ==
    {Empty, Impl(Nothing), Buffered(<< 1, 2, 3 >>), Impl(Whole(<< >>)), Impl(Whole(<< 1, 2 >>)),
     Iter(<< >>), Iter(<< Data(<< 1, 2, 3 >>), Data(<< >>), Trailers, Data(<< 4 >>) >>),
     Iter(<< Trailers, Data(<< >>), Data(<< 1, 2 >>), Aborted >>), Iter(<< Aborted >>),
     Reader(Unknown)}
    \cup {Reader(n) : n \in 0..3}
=============================================================================
