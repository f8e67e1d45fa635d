------------------------------ MODULE MCServer ------------------------------
(* Small servers: every mode, with and without a read timeout, and pools of *)
(* one and of two threads.                                                  *)
EXTENDS Server

SmallServers == [mode : {"serve", "single", "make"}, max_threads : 1..2, read_timeout : {"none", "set"}]
=============================================================================
