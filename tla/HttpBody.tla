------------------------------ MODULE HttpBody ------------------------------
(***************************************************************************)
(* src/src/body/http_body.rs: a body that is a value in memory, described  *)
(* by what its methods return; and the chunks of a body.                   *)
(***************************************************************************)
EXTENDS Integers, SequencesExt

Unknown == -1   \* None, for len() of a body whose length is not known

Data(bytes) == [t |-> "data", bytes |-> bytes]
Trailers == [t |-> "trailers", bytes |-> << >>]
Aborted == [t |-> "error", bytes |-> << >>]

(* String, &str, &[u8], Vec<u8>, Bytes, BytesMut: one chunk, even when it   *)
(* is empty.                                                                *)
Whole(bytes) ==
    [len |-> Len(bytes), into_reader |-> bytes, into_chunks |-> << Data(bytes) >>]

(* The body (), which has no chunk. *)
Nothing == [len |-> 0, into_reader |-> << >>, into_chunks |-> << >>]
=============================================================================
