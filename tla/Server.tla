------------------------------- MODULE Server -------------------------------
(***************************************************************************)
(* src/src/server.rs: the accept loop of a Server around its thread pool,  *)
(* in its three modes: serve(), serve_single_thread() and make_service().  *)
(*                                                                         *)
(* A connection is what the module Serve describes in detail; here serve() *)
(* holds its thread until it returns or panics.  Connections are numbered  *)
(* in the order in which the clients connect.                              *)
(***************************************************************************)
EXTENDS Naturals, Sequences, FiniteSetsExt

CONSTANTS
    MaxConns,      \* bound: connections
    Settings       \* the servers: see SettingRecords

Conns == 1..MaxConns

(* ServerBuilder: max_threads is positive, for ThreadPool::new panics on 0. *)
SettingRecords ==
    [mode         : {"serve", "single", "make"},
     max_threads  : Nat \ {0},
     read_timeout : {"none", "set"}]

ASSUME ServerAssumption ==
    /\ MaxConns \in Nat
    /\ Settings \subseteq SettingRecords

VARIABLES
    settings,   \* of this server
    loop,       \* where the accept loop is
    cur,        \* the connection it is at, or 0
    cause,      \* why the loop has ended: accept(), "make"-ing a service, or a "call" of one
    exited,     \* main() has returned
    free,       \* idle threads of the pool
    queue,      \* jobs of the pool that no thread has taken
    status,     \* status[c]: what has become of connection c
    limit,      \* limit[c]: the read timeout of its socket
    gone,       \* connections that their client has closed
    idle        \* connections on which nothing more happens: see FallSilent

loopVars == <<settings, loop, cur, cause, exited>>
poolVars == <<free, queue>>
connVars == <<status, limit, gone, idle>>
vars == <<loopVars, poolVars, connVars>>

Waiting == {"backlog", "accepted", "queued"}
Begun == {"serving", "closed"}
Statuses == {"new", "dropped", "cut"} \cup Waiting \cup Begun

TypeOK ==
    /\ settings \in Settings
    /\ loop \in {"accept", "configure", "dispatch", "serving", "ended"}
    /\ cur \in 0..MaxConns
    /\ cause \in {"none", "accept", "make", "call"} /\ exited \in BOOLEAN
    /\ free \in 0..settings.max_threads
    /\ queue \in Seq(Conns)
    /\ status \in [Conns -> Statuses]
    /\ limit \in [Conns -> {"none", "set"}]
    /\ gone \subseteq Conns /\ idle \subseteq Conns

Init ==
    /\ settings \in Settings
    /\ loop = "accept" /\ cur = 0 /\ cause = "none" /\ exited = FALSE
    /\ free = settings.max_threads /\ queue = << >>
    /\ status = [c \in Conns |-> "new"]
    /\ limit = [c \in Conns |-> "none"]
    /\ gone = {} /\ idle = {}

-----------------------------------------------------------------------------
(* The clients. *)

Connect(c) ==
    /\ loop # "ended" /\ status[c] = "new" /\ (\A d \in 1..(c - 1) : status[d] # "new")
    /\ status' = [status EXCEPT ![c] = "backlog"]
    /\ UNCHANGED <<loopVars, poolVars, limit, gone, idle>>

(* From now on nothing happens on connection c that could keep serve()      *)
(* going: the client sends nothing more and takes what it is sent, the      *)
(* service returns from its calls, and the application keeps no body.       *)
FallSilent(c) ==
    /\ status[c] \in Waiting \cup {"serving"} /\ c \notin idle
    /\ idle' = idle \cup {c}
    /\ UNCHANGED <<loopVars, poolVars, status, limit, gone>>

HangUp(c) ==
    /\ status[c] \in Waiting \cup {"serving"} /\ c \notin gone
    /\ gone' = gone \cup {c}
    /\ UNCHANGED <<loopVars, poolVars, status, limit, idle>>

-----------------------------------------------------------------------------
(* The accept loop. *)

Accept(c) ==
    /\ loop = "accept" /\ status[c] = "backlog"
    /\ \A d \in 1..(c - 1) : status[d] # "backlog"
    /\ loop' = "configure" /\ cur' = c
    /\ status' = [status EXCEPT ![c] = "accepted"]
    /\ UNCHANGED <<settings, cause, exited, poolVars, limit, gone, idle>>

(* The loop is left, and the listener closed with what it has not accepted. *)
EndLoop(st) ==
    /\ loop' = "ended" /\ cur' = 0
    /\ status' = [c \in Conns |-> IF st[c] = "backlog" THEN "cut" ELSE st[c]]

(* accept() fails, or the iterator given to from_connections() ends. *)
AcceptFails ==
    /\ loop = "accept"
    /\ EndLoop(status)
    /\ cause' = "accept"
    /\ UNCHANGED <<settings, exited, poolVars, limit, gone, idle>>

NextConn == loop' = "accept" /\ cur' = 0

DropConn ==
    /\ NextConn
    /\ status' = [status EXCEPT ![cur] = "dropped"]

ConfigureUnchecked ==
    /\ loop = "configure"
    /\ \/ limit' = [limit EXCEPT ![cur] = settings.read_timeout]
       \/ UNCHANGED limit
    /\ loop' = "dispatch"
    /\ UNCHANGED <<settings, cur, cause, exited, poolVars, status, gone, idle>>

ConfigureEndsIteration ==
    /\ loop = "configure"
    /\ \/ /\ limit' = [limit EXCEPT ![cur] = settings.read_timeout]
          /\ loop' = "dispatch"
          /\ UNCHANGED <<cur, status>>
       \/ EndLoop([status EXCEPT ![cur] = "dropped"]) /\ UNCHANGED limit
    /\ UNCHANGED <<settings, cause, exited, poolVars, gone, idle>>

(* The filter_map of from_connections(): a connection on which an option    *)
(* cannot be set is dropped.                                                *)
Configure ==
    /\ loop = "configure"
    /\ \/ /\ limit' = [limit EXCEPT ![cur] = settings.read_timeout]
          /\ loop' = "dispatch"
          /\ UNCHANGED <<cur, status>>
       \/ DropConn /\ UNCHANGED limit
    /\ UNCHANGED <<settings, cause, exited, poolVars, gone, idle>>

ExecuteFirst ==
    /\ NextConn
    /\ queue' = << cur >> \o queue
    /\ status' = [status EXCEPT ![cur] = "queued"]

Execute ==
    /\ NextConn
    /\ queue' = Append(queue, cur)
    /\ status' = [status EXCEPT ![cur] = "queued"]

(* serve(): a clone of the service, and a job for the pool. *)
DispatchServe ==
    /\ loop = "dispatch" /\ settings.mode = "serve"
    /\ Execute
    /\ UNCHANGED <<settings, cause, exited, free, limit, gone, idle>>

(* make_service(): the service for the connection is made on the thread of  *)
(* the loop, which may fail.                                                *)
DispatchMake ==
    /\ loop = "dispatch" /\ settings.mode = "make"
    /\ \/ Execute
       \/ DropConn /\ UNCHANGED queue
    /\ UNCHANGED <<settings, cause, exited, free, limit, gone, idle>>

(* service.clone() or make_service() panics on the thread of the loop. *)
MakePanics ==
    /\ loop = "dispatch" /\ settings.mode \in {"serve", "make"}
    /\ EndLoop([status EXCEPT ![cur] = "dropped"])
    /\ cause' = "make"
    /\ UNCHANGED <<settings, exited, poolVars, limit, gone, idle>>

(* serve_single_thread(): the loop itself serves the connection. *)
DispatchSingle ==
    /\ loop = "dispatch" /\ settings.mode = "single"
    /\ loop' = "serving"
    /\ status' = [status EXCEPT ![cur] = "serving"]
    /\ UNCHANGED <<settings, cur, cause, exited, poolVars, limit, gone, idle>>

(* main() returns when the loop has ended, and takes all threads with it. *)
Exit ==
    /\ loop = "ended" /\ ~exited
    /\ exited' = TRUE
    /\ queue' = << >>
    /\ status' = [c \in Conns |-> IF status[c] \in Waiting \cup {"serving"} THEN "cut"
                                  ELSE status[c]]
    /\ UNCHANGED <<settings, loop, cur, cause, free, limit, gone, idle>>

-----------------------------------------------------------------------------
(* The pool, which still runs its jobs when the loop has ended. *)

TakeJob ==
    /\ ~exited /\ free > 0 /\ queue # << >>
    /\ free' = free - 1
    /\ queue' = Tail(queue)
    /\ status' = [status EXCEPT ![Head(queue)] = "serving"]
    /\ UNCHANGED <<loopVars, limit, gone, idle>>

ReturnAlwaysFrees(c) ==
    /\ status[c] = "serving"
    /\ status' = [status EXCEPT ![c] = "closed"]
    /\ free' = free + 1
    /\ IF settings.mode = "single" THEN NextConn ELSE UNCHANGED <<loop, cur>>
    /\ UNCHANGED <<settings, cause, exited, queue, limit, gone, idle>>

(* serve() returns: .ok() makes no difference between Ok and Err. *)
Return(c) ==
    /\ status[c] = "serving"
    /\ status' = [status EXCEPT ![c] = "closed"]
    /\ IF settings.mode = "single"
       THEN NextConn /\ UNCHANGED free
       ELSE free' = free + 1 /\ UNCHANGED <<loop, cur>>
    /\ UNCHANGED <<settings, cause, exited, queue, limit, gone, idle>>

(* The service panics.  The pool replaces a thread that panics; on the      *)
(* thread of the loop nothing stops the panic.                              *)
Panic(c) ==
    /\ status[c] = "serving"
    /\ IF settings.mode = "single"
       THEN EndLoop([status EXCEPT ![c] = "closed"]) /\ cause' = "call" /\ UNCHANGED free
       ELSE /\ status' = [status EXCEPT ![c] = "closed"]
            /\ free' = free + 1 /\ UNCHANGED <<loop, cur, cause>>
    /\ UNCHANGED <<settings, exited, queue, limit, gone, idle>>

Exited == exited /\ UNCHANGED vars

LoopStep == (\E c \in Conns : Accept(c)) \/ Configure \/ DispatchServe \/ DispatchMake \/ DispatchSingle

Next ==
    \/ \E c \in Conns : Connect(c) \/ FallSilent(c) \/ HangUp(c) \/ Return(c) \/ Panic(c)
    \/ LoopStep \/ AcceptFails \/ MakePanics \/ TakeJob \/ Exit \/ Exited

(* serve() goes on as long as requests come.  It has to return once nothing *)
(* more happens, at the end of the connection or when the read timeout of   *)
(* the socket expires (Released, module Serve).                             *)
MustReturn(c) == c \in idle /\ (c \in gone \/ limit[c] = "set") /\ Return(c)

Spec ==
    /\ Init /\ [][Next]_vars
    /\ WF_vars(LoopStep) /\ WF_vars(TakeJob)
    /\ \A c \in Conns : WF_vars(MustReturn(c))

-----------------------------------------------------------------------------
(* Connections are served in the order in which they were made: none is     *)
(* overtaken on its way from the listener to a thread of the pool.          *)
FirstComeFirstServed ==
    \A c, d \in Conns : c < d /\ status[d] \in Begun => status[c] \notin Waiting

(* No connection ends the accept loop by an option that cannot be set, by   *)
(* an error, or by a panic while a thread of the pool serves it: only a     *)
(* failed accept() and a panic on the loop's own thread do, which makes the *)
(* services of serve() and make_service() and calls the one of              *)
(* serve_single_thread().                                                   *)
SurvivesConnections ==
    loop = "ended" => cause \in {"accept", IF settings.mode = "single" THEN "call" ELSE "make"}

(* The threads of the server are all held by connections on which something *)
(* still happens, or that are open and silent and the server was given no   *)
(* read timeout.                                                            *)
Held ==
    Cardinality({c \in Conns : /\ status[c] = "serving"
                               /\ c \in idle => c \notin gone /\ settings.read_timeout = "none"})
        = (IF settings.mode = "single" THEN 1 ELSE settings.max_threads)

(* Every connection is served, or dropped for an option or with its         *)
(* service, or cut with the loop or the process, unless others hold all the *)
(* threads for ever.  Given a read timeout, only connections in use can do  *)
(* that, never those of clients that have fallen silent or are gone.        *)
EveryConnectionServed ==
    \A c \in Conns : (status[c] \in Waiting ~> status[c] \notin Waiting) \/ <>[]Held
=============================================================================
