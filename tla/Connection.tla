----------------------------- MODULE Connection -----------------------------
(***************************************************************************)
(* src/src/connection.rs and src/src/tls.rs: a Connection, its clones and  *)
(* what their calls do to each other.  Clones of a TCP or Unix connection  *)
(* are file descriptors of one socket; clones of a TLS connection share    *)
(* the session behind a mutex, which read() holds while it waits for data. *)
(*                                                                         *)
(* What is done with the data is left to the module that reads.            *)
(***************************************************************************)
EXTENDS Naturals, Sequences

CONSTANTS
    Handles,   \* names of the clones
    Kinds,     \* the kinds of connection
    Limits     \* the read timeouts

ASSUME ConnectionAssumption ==
    /\ Kinds \subseteq {"Tcp", "Unix", "Rustls"}
    /\ Limits \subseteq {"none", "set"}
    /\ "none" \notin Handles

VARIABLES
    kind, limit,   \* of this connection
    alive,         \* the clones that have not been dropped
    busy,          \* busy[h]: the call in progress on clone h
    lock,          \* the clone whose call holds the mutex, or "none"
    poisoned,      \* a panic happened while the mutex was held
    inbox,         \* bytes that have arrived and have not been read
    open,          \* the peer has not closed its side
    inner          \* the clones that downcast() has turned into the stream itself

connVars == <<kind, limit, alive, busy, lock, poisoned, inbox, open, inner>>

ConnTypeOK ==
    /\ kind \in Kinds /\ limit \in Limits
    /\ alive \subseteq Handles /\ inner \subseteq alive
    /\ busy \in [Handles -> {"idle", "locking", "reading", "writing"}]
    /\ lock \in Handles \cup {"none"}
    /\ poisoned \in BOOLEAN /\ open \in BOOLEAN

ConnInit(handles) ==
    /\ kind \in Kinds /\ limit \in Limits
    /\ alive = handles /\ inner = {}
    /\ busy = [h \in Handles |-> "idle"]
    /\ lock = "none" /\ poisoned = FALSE
    /\ inbox = << >> /\ open = TRUE

-----------------------------------------------------------------------------
PeerSends(byte) ==
    /\ open
    /\ inbox' = Append(inbox, byte)
    /\ UNCHANGED <<kind, limit, alive, busy, lock, poisoned, open, inner>>

PeerCloses ==
    /\ open
    /\ open' = FALSE
    /\ UNCHANGED <<kind, limit, alive, busy, lock, poisoned, inbox, inner>>

-----------------------------------------------------------------------------
(* read() of clone h: for TLS it waits for the mutex first. *)
BeginRead(h) ==
    /\ h \in alive /\ busy[h] = "idle"
    /\ busy' = [busy EXCEPT ![h] = IF kind = "Rustls" THEN "locking" ELSE "reading"]
    /\ UNCHANGED <<kind, limit, alive, lock, poisoned, inbox, open, inner>>

Lock(h) ==
    /\ busy[h] = "locking" /\ lock = "none" /\ ~poisoned
    /\ busy' = [busy EXCEPT ![h] = "reading"]
    /\ lock' = h
    /\ UNCHANGED <<kind, limit, alive, poisoned, inbox, open, inner>>

(* "Failed to aquire lock" *)
LockFails(h) ==
    /\ busy[h] = "locking" /\ lock = "none" /\ poisoned
    /\ busy' = [busy EXCEPT ![h] = "idle"]
    /\ UNCHANGED <<kind, limit, alive, lock, poisoned, inbox, open, inner>>

EndRead(h) ==
    /\ busy[h] = "reading"
    /\ busy' = [busy EXCEPT ![h] = "idle"]
    /\ lock' = "none"
    /\ UNCHANGED <<kind, limit, alive, poisoned, open, inner>>

ReadData(h, k) ==
    /\ k \in 1..Len(inbox)
    /\ inbox' = SubSeq(inbox, k + 1, Len(inbox))
    /\ EndRead(h)

ReadEof(h) ==
    /\ inbox = << >> /\ ~open
    /\ EndRead(h) /\ UNCHANGED inbox

ReadTimesOutLocked(h) ==
    /\ inbox = << >> /\ open /\ limit = "set"
    /\ busy[h] = "reading"
    /\ busy' = [busy EXCEPT ![h] = "idle"]
    /\ UNCHANGED <<kind, limit, alive, lock, poisoned, inbox, open, inner>>

ReadTimesOut(h) ==
    /\ inbox = << >> /\ open /\ limit = "set"
    /\ EndRead(h) /\ UNCHANGED inbox

(* The TLS session panics in read(), or in write() below, and the thread    *)
(* drops its clone.                                                         *)
Panics(h) ==
    /\ busy' = [busy EXCEPT ![h] = "idle"]
    /\ lock' = "none" /\ poisoned' = TRUE
    /\ alive' = alive \ {h}
    /\ UNCHANGED <<kind, limit, inbox, open, inner>>

ReadPanics(h) == busy[h] = "reading" /\ kind = "Rustls" /\ Panics(h)

-----------------------------------------------------------------------------
(* write() and flush() of clone h: what is written fits the socket buffer.  *)
BeginWrite(h) ==
    /\ h \in alive /\ busy[h] = "idle"
    /\ busy' = [busy EXCEPT ![h] = "writing"]
    /\ UNCHANGED <<kind, limit, alive, lock, poisoned, inbox, open, inner>>

EndWrite(h) ==
    /\ busy[h] = "writing"
    /\ busy' = [busy EXCEPT ![h] = "idle"]
    /\ UNCHANGED <<kind, limit, alive, lock, poisoned, inbox, open, inner>>

Write(h) == EndWrite(h) /\ (kind = "Rustls" => lock = "none" /\ ~poisoned)

WriteFails(h) == EndWrite(h) /\ kind = "Rustls" /\ lock = "none" /\ poisoned

WritePanics(h) ==
    /\ busy[h] = "writing" /\ kind = "Rustls" /\ lock = "none" /\ ~poisoned
    /\ Panics(h)

-----------------------------------------------------------------------------
DropHandle(h) ==
    /\ h \in alive /\ busy[h] = "idle"
    /\ alive' = alive \ {h} /\ inner' = inner \ {h}
    /\ UNCHANGED <<kind, limit, busy, lock, poisoned, inbox, open>>

(* downcast() to the type of the stream.  A TLS session is given out only   *)
(* to its last clone (Arc::try_unwrap); any other gets itself back.         *)
Downcast(h) ==
    /\ h \in alive \ inner /\ busy[h] = "idle"
    /\ kind = "Rustls" => alive = {h} /\ ~poisoned
    /\ inner' = inner \cup {h}
    /\ UNCHANGED <<kind, limit, alive, busy, lock, poisoned, inbox, open>>

(* into_inner().unwrap() of a poisoned mutex *)
DowncastPanics(h) ==
    /\ busy[h] = "idle" /\ kind = "Rustls" /\ alive = {h} /\ poisoned
    /\ alive' = {}
    /\ UNCHANGED <<kind, limit, busy, lock, poisoned, inbox, open, inner>>
=============================================================================
