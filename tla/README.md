# touche in TLA+

touche is a synchronous HTTP/1 library: a server that runs one thread per
connection, a client, and request and response bodies that can be read, moved to
other threads and streamed. Its own logic is in `src/src/*.rs`. This directory
holds TLA+ models of that logic, TLC configurations and TLAPS proofs.

    tlc -config ReadQueue.cfg ReadQueue       tlapm ReadQueueProofs.tla
    tlc -config ServeAny.cfg MCServe          tlapm ServeProofs.tla
    tlc -config BodyChannel.cfg BodyChannel   tlapm BodyChannelProofs.tla
    tlc -config Server.cfg MCServer           tlapm ServerProofs.tla
    tlc -config Body.cfg MCBody               tlapm BodyProofs.tla
    tlc -config Client.cfg MCClient           tlapm ClientProofs.tla
                                              tlapm AlignmentProofs.tla
                                              tlapm SequenceLemmas.tla

`PROJECT.json` lists the runs, maps every definition to the lines of source it
models, and lists hazards, findings and theorems.

## 1. Inventory

| Component | State it keeps | Operations | What makes it correct |
|---|---|---|---|
| Read queue (`read_queue.rs`) | head-or-receiver of the newest channel; per reader `Waiting(rx)`/`Current(R)` and a sender | `enqueue`, `read`/`fill_buf`/`consume`, `drop` | one holder of the stream at a time, handed on in order, `recv().unwrap()` never panics, no reader stranded |
| Connection loop (`server.rs`, `serve`) | writer, queue, next reader, request, response | parse, expectation, call, write, keep alive, close, upgrade | each request starts at its own first byte, replies in order and flushed, no wait on itself, upgrade handler is sole owner |
| Request parsing (`request.rs`) | buffer of the head; `ChunkedReader` | `parse_request`, `ChunkedReader::next` | only complete heads become requests; a body ends where it ends |
| Response writing and parsing (`response.rs`) | none, or the collected trailers | `write_response`, `parse_response` | framing matches what the client decodes; the outcome matches the framing |
| Bodies (`body.rs`) | Empty, Buffered, Iter, Reader; `BodyChannel` sender | `into_reader`, `into_bytes`, `into_chunks`, `Drop`, `send`, `abort` | nothing lost, repeated or read beyond the end; an unread body does not disturb the connection |
| Upgrades (`upgrade.rs`) | handler in the response's extensions | `Upgrade::upgrade`, `ClientUpgrade` | the handler runs after the response was sent and owns the connection |
| Accept loop and pool (`server.rs`) | listener iterator, thread pool | `serve`, `serve_single_thread`, `make_service`, `ServerBuilder` | every accepted connection is served once; bounded threads; errors stay with their connection |
| Client (`client.rs`, `write_request`) | pool: authority → connection | `request`, `send_request` | a response belongs to its request; only reusable connections are pooled |
| Connections (`connection.rs`) | socket and its clones, read timeout | read, write, clone, downcast | end of stream, timeout and failure are told apart |
| TLS (`tls.rs`) | stream in `Arc<Mutex>` | read, write, clone, `into_inner` | clones do not block each other for ever; one owner at `into_inner` |

How they interact. `serve()` owns the writing side and a `ReadQueue` with the
reading side. `parse_request` takes a `QueuedReader` by value; a body that is not
buffered keeps it. The service gets that body and may drop it, read it, leave it
half-read, move it to a thread, return it as the response body, or capture it in
an upgrade handler. Meanwhile `serve()` has already enqueued the reader of the
next request, which blocks until the body lets go of the stream. Only the drop
of values sequences all this, so the order of drops *is* the protocol. A channel
body connects a thread of the service, the thread of the connection and the
client.

What is hard: threads that hold parts of one stream; blocking inside `drop`;
errors ignored inside `drop`; early `continue` and `?` with live values;
buffered replies in front of blocking reads; a client that pipelines, hangs up,
waits for 100 Continue or falls silent; and timeouts that are errors in some
places and the end of a body in others. The full list, at its lines, is under
"hazards" in `PROJECT.json`.

## 2. Modules

| Module | Models |
|---|---|
| `StreamTurns` | abstract specification of a read queue: numbered readers that take turns |
| `ReadQueue` | `read_queue.rs`: the chain of channels, one action per operation; `drop` of a waiting reader is two steps because it blocks in `recv` |
| `ReadQueueProofs` | theorems about `ReadQueue` |
| `Request` | operators: the pieces of a request on the wire, the head loop of `parse_request`, `demands_close` |
| `Response` | operators: changes `serve()` makes to a response, choice of the encoding, outcome |
| `Serve` | `serve()` with the client, the queue (an instance of `ReadQueue`), the bodies and the service's threads |
| `MCServe` | requests, answers and uses for the configurations |
| `ServeProofs` | theorems about `Serve`: control, readers, replies |
| `AlignmentProofs` | theorems about `Serve`: which request each piece that is read belongs to |
| `BodyChannel` | a streamed response: `BodyChannel`, `write_response`, and `parse_response` with `ChunkedReader` on the client |
| `BodyChannelProofs` | theorems about `BodyChannel` |
| `Client` | `Client::request` with its pool, `send_request`, `parse_response` and the bodies of responses, against a server |
| `MCClient` | the server's replies for the configuration |
| `ClientProofs` | theorems about `Client` |
| `Server` | the accept loop with the thread pool in its three modes, around connections that hold a thread until `serve()` returns or panics |
| `MCServer` | the modes, pool sizes and timeouts for the configuration |
| `ServerProofs` | theorems about `Server` |
| `Connection` | `connection.rs` and `tls.rs`: the clones of a connection, the mutex of a TLS session, read timeout, `downcast` |
| `HttpBody` | `http_body.rs`: what the methods of a body in memory return; the chunks of a body |
| `Body` | `body.rs`: every representation and what it can be turned into, byte by byte; a body that is read from a clone of a `Connection` while another thread writes to it |
| `MCBody` | small bodies of every kind |
| `BodyProofs` | theorems about `Body` and `Connection` |
| `SequenceLemmas` | what `Append`, `\o` and `Joined` do to lengths and elements, and the least element of a set of numbers; for the proof modules |

`ReadQueue`. Reader `k` is the `k`-th result of `enqueue()`, channel `k` has its
sender in reader `k` and its receiver in the queue or in reader `k + 1`. `full`
is the set of channels with the stream in them; `consumed` records through which
reader each piece was read, in order.

`Serve`. `pc` names the place in `serve()`; request `k` is read through reader
`k`; `holder[k]` is the owner of its body. What the client sends is a sequence
of pieces (request line, header fields, parts of a body, chunks, last chunk,
closing empty line), each tagged with its request, so a piece read through a
wrong reader shows. `Call`, `CallSpawn`, `CallEcho` and `CallCapture` are what a
service can do with a body. `UseBodyThen` gives a body that the thread still
owns to the code that reads or drops it, and `UsePiece`, `UseDone` and
`UseTimeout` are that code; the same steps on another thread are `Thread...`.
`out` is the `BufWriter`, `sent` is what reached the socket; a reply is its
parts (`continue`, `reject`, `head`, `end`).

A body of at least 1024 bytes is two pieces: enough for the drop to come before,
between and after them. A chunked body is a chunk, the last chunk and the empty
line that `ChunkedReader` leaves to the next `parse_request`.
A read by `into_chunks` of a body of known length is not limited by that length
(`body.rs:381`), and the model lets it take a piece too many. `late` records the
bodies that ran into the read timeout.

`BodyChannel`. Items travel channel → `write_response` → `BufWriter` → socket →
client. Chunks are flushed one by one, `io::copy` is not; `Spill` is the
`BufWriter` writing when it is full.

`Client`. One authority, as the pool treats each one alone. `pc` is the place of
the current call; `body[k]`, `left[k]` and `data[k]` are the streaming body of
response `k`, which outlives its call; `buf[k]` is the `BufReader` of call `k`,
which takes everything that has arrived (`Fill`) and is dropped with what it
holds; a body that has all it expects reads no more. The server answers each request with any reply of `Replies`, piece by
piece, may close after a reply or at any time, and does not answer what is
written to a connection that it is about to close. `shared` records the calls
on a connection from which an older body was still being read. A head that
ends after the status line is the call status `truncated`: `parse_response` returns
a response without headers. The reply `interim` is a 100 Continue followed by the
response proper; `head` is the answer to a HEAD request, which announces a body
and has none. What an earlier response left on the connection meets the parser of
the next one: `parse_response` takes any bytes up to an empty line for a head, so
data that the service of the server has chosen (`Loose`: the contents of a body, or
trailers) may fail to parse or may look like a complete response, which the call then
returns (`stray`); a stray response ends with the piece it began in. After `switching` the server sends data of the other protocol, and
the connection is in the response (`Extension`) until the application takes it
(`into_upgraded`).

`Server`. `loop` is the place of the accept loop and `cur` the connection it is
at; `status[c]` follows a connection through listen backlog, filter, queue of the
pool and thread. The loop accepts, sets the options (a connection on which that
fails is dropped) and dispatches according to the mode; `service.clone()` and
`make_service()` run on its thread and may panic. A job of the pool ends by `Return`
or `Panic`; when the loop has ended the jobs go on until `main()` returns, and
`cause` says why it ended. What `serve()` does on a connection is the module `Serve`:
here it may return at any time, and a connection falls silent at any time or never
(`FallSilent`), after which nothing happens on it that could keep `serve()` going.

`Connection` and `Body`. The bytes are numbered, so a body of known length is the
first bytes of what the peer sends and every byte lost, repeated or taken from
what follows shows. A read of a TLS clone takes the mutex, waits for data with it,
and gives it back; a panic under the mutex poisons it. `via` is what the body was
turned into. Conversions of a body in memory are one step; every `read()` of a
reader and every chunk of an iterator is a step; and `into_bytes`, `Drop` and reads
over a connection go through the steps of `Connection`. The sizes of reads vary
from one to `Buf`.

Left out of these modules: header text, sizes in bytes, status codes other than
what they decide, addresses.

## 3. Runs

| Run | Shows |
|---|---|
| `read_queue` | one holder, in order; `recv` never panics; the stream is dropped only when all are gone; every waiting reader gets its turn; `ReadQueue` implements `StreamTurns`, fairness included |
| `serve_any` | any client and any service: replies in order, the one before flushed before `serve()` blocks, at most two live readers, `serve()` never waits for itself, and an upgrade handler alone with its connection |
| `serve_aligned` | what is read through reader `k` belongs to request `k`, for chunked bodies read to the end and bodies of known length that are read to the end or dropped unread, on any thread, or sent back (not in chunks), but whose readers are not abandoned half-way, up to the first body that runs into the read timeout |
| `serve_released` | with a read timeout `serve()` returns once the client sends nothing more, at whatever point it stops or closes; the bound on requests is what makes it stop, and a client that goes on sending requests keeps its thread |
| `serve_answers` | without one, a client that finishes what it starts gets an answer to every request and expectation, and an upgrade happens |
| `body_channel` | a streamed body arrives in order, completely and while it is being produced; trailers last; it ends |
| `server` | connections are served in the order they were made, and all of them unless others hold every thread for ever; with a read timeout only connections in use can do that; errors, failed options and panics on the pool's threads cost one connection; only a failed `accept` and a panic on the loop's own thread end the loop |
| `body` | a reader, chunks and bytes yield the same content; a body takes nothing of what follows it and leaves nothing; `into_bytes` and `Drop` return under a timeout (for a body of unknown length, once the peer sends nothing more); a write is not held up for ever by a reader that lets go of a TLS session |
| `client` | a response belongs to its request, unless an earlier one on the connection was not read to its end and left data that parses as a response; a body is what the server sent, all of it at its end; a call fails only when the server closed or an earlier response was not read to its end, and it returns; only reusable connections are reused |

Three more runs state what a doc, comment or test says and find it violated; each
is a finding in `PROJECT.json`.

| Run | What the code does |
|---|---|
| `unread_chunked_body` | an unread chunked request body is left in the stream and parsed as the next request |
| `truncated_head` | a head cut off after the request line is served as a complete request |
| `small_body_expectation` | bodies under 1024 bytes are read before the expectation is answered: client and server wait for each other |

Bounds. `ReadQueue`: four readers, so that one holds, one waits, one is dropping
behind it and the queue has the newest channel. `Serve`: two requests when
everything may happen (with the reader for a third request), three for
`serve_aligned`, where a misread piece of one request may only show two requests
later. `BodyChannel`: three items, so that data, trailers or an empty chunk come
before, between and after data. `Client`: two calls, the first of which leaves a connection
and perhaps a body for the second. `Server`: three connections, one more than the
larger of the two pools, so that one waits while two are
served in any order. `Body`: lengths 0 to 3 and a peer that sends up to 4 bytes,
read 1 or 2 at a time, so that a read ends before, at and beyond the end of a body;
iterators with empty chunks, trailers and an abort at either end. `MaxWire` is not a limit: it is the number of
pieces that `MaxRequests` requests can have. When a client has reached
`MaxRequests` it may still close, or leave the server waiting.

Fairness. In `ReadQueue`, every reader is dropped some time (Rust drops a value
when its owner is done) and a thread whose `recv` can return runs. In `Serve`,
the connection's thread and the service's threads run, and the service's code
returns (`ServerFairness`); nothing is assumed of the client in `Spec`, which
`serve_released` uses. `FairSpec` adds that a client sends the rest of a request
it has started unless it waits for 100 Continue or closes. Losing patience with
an expectation (`ClientSendEarly`) and closing are never assumed. In
`BodyChannel` writer and client run; the producer may keep its channel open for
ever. In `Client` the calling thread runs and the server sends what it owes (it
may close instead); nothing is assumed of the threads that read bodies.
In `Server` the loop and the threads of the pool run, `service.clone()` and
`make_service()` return, and `serve()` returns from a connection that has fallen silent
when its client has closed it or a read timeout is set, which is what `serve_released`
checks of `Serve`. A client need neither fall silent nor close. `FallSilent` includes
that the client takes what it is sent, for there is no write timeout, and that the
service returns from its calls. In `Body` the thread with the body and the one
that writes run, and nothing is assumed of the peer.

`BodyIntact`, `FailsForAReason` and `Returns` except calls in `shared`: the client
puts a connection back before the body of its response has been read
(`client.rs:69`), two readers then compete for one socket, and the results of
both are lost. `FailsForAReason` names a second cause that the client does not
guard against, trailers, which `ChunkedReader` leaves in the stream. After a 100
Continue that was taken for the response, the next call on the connection gets
what is left of the real one, and after left-over data that was taken for the response
(`stray`) it gets the real one itself (`Displaced`), so `OwnResponse`, `BodyIntact` and
`FailsForAReason` except it. Left-over data can be taken for a response only on a
connection that is `Unclean`: an earlier response on it was not read to its very end,
because its body was abandoned or is still being read, it had trailers, or the call
did not return it. `OwnResponse` says so, and that no other connection does this. A call that
meets the response to a HEAD request waits until the server closes, so `Returns`
excepts it. What a `BufReader` took along with a 101 response is missing from the
upgraded stream, and `BodyIntact` allows that and no other gap. Without any one of
these exceptions TLC finds a violation.

`SameBytes` and `RestIntact` except what the code gives up: `ChunkIterator` reads
beyond a known length (`body.rs:381`), a `read()` into an empty buffer skips the rest
of an iterator (`body.rs:306`), a peer that closes early looks like the end, and only
`into_bytes` reports an abort. The early end is excepted in `SameBytes` (`Cut`) for bodies of unknown
length too, which end with the connection. `WriteReturns` excepts TLS clones that keep reading: the
mutex is not fair, and without a timeout a read holds it until data comes.
`EveryConnectionServed` excepts a server all of whose threads are held for ever: by
connections in use, whatever the read timeout, because `serve()` goes on as long as
requests come (`server.rs:460`), or, without a read timeout, by open connections that
are silent. `serve_single_thread` documents the same for its one thread.

`Released` and `UpgradeHappens` except an upgrade handler that captured the
request body: `drop(reader)` then waits for a body that only the handler would
drop (hazard at `server.rs:535`). The empty line after a
chunked body is excepted in `Aligned`: `ChunkedReader` leaves it and the next
`parse_request` skips it. So is what follows a body that ran into the read timeout:
`Drop` ignores the error (`body.rs:216`) and the rest of the body, when it comes, meets
the parser. `Unabridged` excepts chunked responses with a chunk of no bytes, which
is written as the end of the body (`response.rs:191`).

## 4. Proofs

Every theorem holds for every value of the constants: any number of readers,
requests, connections, items, calls and bytes. The assumptions are
`QueueAssumption`, `ServeAssumption`, `ServerAssumption`, `ChannelAssumption`,
`ConnectionAssumption`, `BodyAssumption` and `ClientAssumption`: numbers are numbers,
sets are sets of the right things, a pool has at least one thread, the content of a
body in memory is the same in its chunks and in its reader (what `HttpBody` and the
constructors of `Body` give), and a server that announces `Connection: close`, as it
must when the end of the connection ends the body, closes.

| Module | Theorems |
|---|---|
| `ReadQueueProofs` | `TypeCorrect`, `HandoverHolds`, `HolderIsSole`, `RecvNeverPanics`, `StreamIsKept`, `OrderedReads`, and `ImplementsTurns` (every step is a step of `StreamTurns` or a stutter) |
| `ServeProofs` | `ServeInvHolds`, `ControlHolds`, `AtMostTwoReaders`, `NeverWaitsForItself`, `HandlerOwnsConnection`, `RepliesInvHolds`, `AnswersInOrder`, `NothingLeftUnsent`, `TypeCorrect` |
| `AlignmentProofs` | `PipeliningUnlessSpoiled`, `PipeliningHolds` |
| `ServerProofs` | `ServerInvHolds`, `TypeCorrect`, `ServedInOrder`, `LoopSurvives` |
| `BodyChannelProofs` | `ChannelInvariant`, `TypeCorrect`, `ReadsInOrder`, `EndsComplete`, `TrailersComeLast` |
| `BodyProofs` | `BodyInvHolds`, `TypeCorrect`, `BytesPreserved`, `RestLeftAlone` |
| `ClientProofs` | `ReuseInvHolds`, `TypeCorrect`, `ConnectionsReused`, `OwnInvHolds`, `ResponseBelongs`, `BodyInvHolds`, `BodiesIntact`, `FailInvHolds`, `FailuresHaveReasons` |

`Handover` is the inductive invariant of the trampoline. That there is one holder
is not inductive: one must know that dropped readers form a prefix, that the
holder comes right after it, and that the stream is in a channel exactly when
the channel's sender is gone and its receiver is not. From this each of the
other invariants follows in one step, and `OrderedReads` needs one more fact, that
no piece was read through a reader after the holder.

`ServeInv` adds to `Handover` where `serve()` is. `Position` says which phase the
newest reader and the one before it have at each `pc`; `Ownership` that a body has
an owner exactly while its reader holds the stream, and which owner it can be;
`Completed` that the reply to an upgraded request ends what was written. The
proof has three layers. Each action of `Serve` is a step of `ReadQueue` or leaves
it alone (`StepUsesQueue`), so the lemmas about `ReadQueue` carry over, through
`SameTypeOK`, `SameHandover` and `SameNext`, and give `Handover` and the types of
the queue. `PositionStep` and `CompletedStep` then go through the actions one by
one. `NeverWaitsForItself` follows: at the places where `serve()` blocks, `Ownership`
leaves only the service's thread or handler as the owner of the body before.

`RepliesInv` is what the order of replies needs beyond `ServeInv`. A reply may be
appended only when every request before has its final one and the current request
has none, so `Answering` says, at each `pc`, up to which request the replies are
final, which reply is the last, and where the `BufWriter` is empty. `ReplyAppended`
is the one lemma about adding a reply, and `ReplyEffect` says what each action does
to `sent \o out`: nothing, one reply more, or, when a write fails, the loss of
what was buffered, after which none follows.

`AlignInv` is about the stream itself. `Layout` says that what the client has put on
the wire and has still to send are its requests, one after the other, each of the
form its kind gives it. `Track` then says, at each place of `serve()`, where in this
sequence the stream stands: at the first piece of the next request, so many pieces
into the current one, or in a body of which a number of pieces is left. A reader that
meets the stream thus finds the first piece of its own request or the empty line of
the chunked body before. A body that was abandoned, ran into the timeout or was read
in chunks beyond its length breaks `Track`, and from there on `Lost` says that
everything unread comes after such a body (`Spoiled`). That gives
`PipeliningUnlessSpoiled`, without any assumption on the service: the first piece
that is misread comes after a spoiled body. `PipeliningHolds` is `Aligned` itself
under `ReadToEnd`, a condition on the constants: the service reads chunked bodies to
their end, drops no reader before its end, does not send a body of known length back
in chunks, and `should_continue` rejects no chunked request. It is what
`serve_aligned` runs with, and the run `unread_chunked_body` shows that it is needed.
`ReadInv` shows that under it a body is spoiled only by the timeout.

`ServerInv` is the inductive invariant of the accept loop and the pool. That no
connection is overtaken is not inductive: `TakeJob` serves the head of the queue, so
one must know that the queue is sorted and holds every connection that waits for a
thread (`Queued`), that at most one connection is between listener and queue
(`Place`), and that none behind it has been accepted (`Stages`). `Threads` counts: a
job that begins moves one thread from free to serving, and `Return` and `Panic` move
it back (lemmas `OneMore` and `OneLess`); that `free` never exceeds the pool follows
from it, so `TypeOK` needs it too. `LoopSurvives` is inductive by itself.

`ChannelInv` follows an item from the channel to the client. Items pass through
the channel, the `BufWriter`, the socket and the decoder, and at every moment what is
in these places, one after the other, is what was sent without a gap. What can be in
each depends on how far the writer is (before its last chunk, after it, done), and
the end of a body can be told from a pause only with that.

`BodyInv` does the same for the bytes of a body: what the application has, what
the cursor holds and what the untouched chunks hold, joined, are the content; over a
connection, what was taken from the inbox and what is left of the length add up to
the length. `Joined` is a recursive function over the chunks. Facts about it are
proved without the library's induction theorems, by the least counterexample:
`Least` gives the first of a non-empty set of numbers at which a fact would fail,
and one step of the recursion refutes it there. `BodyInv` also says who holds the
mutex of a TLS session, and that no clone is at work once the session is given out.

`ReuseInv` and `OwnInv` are about the client. `ReuseInv` says which connection
the call at `pc` uses, that the fields of the response it has are those of a reply
that some call on this connection got (`Answered`), and that the pool has a
connection only after a reply that allows it. That answers are not mixed up needs
more: the heads that are on their way on a connection, in the `BufReader`, the socket
or the server, belong to the call that is under way and there is at most one
(`OwnHeads`), a connection in the pool has none (`PoolClean`), and one that its server
is about to close gets none (`Closing`). A 100 Continue breaks this, and so does
left-over data that is taken for a response, which leaves the real one on the
connection; from there on `Displaced` holds. `OwnAnswers` is the first half of
`OwnResponse`; the second, that such data is found on unclean connections only, is
part of `FailInv`, and `ResponseBelongs` follows from both.

`BodyInv` of `ClientProofs` says where the pieces of a response are. The answer to a
call is a script of pieces, and on a connection with one reader the script is cut in
four: what the call and its body have read, the `BufReader`, the socket, and what the
server has still to send, which is lost when it cuts the connection. `OnCall` says so
for the call under way and `OwnBodies` for every body that outlives its call, with the
count of pieces that the body still expects; `PoolBare` that a connection in the
pool has no head on it; `Sharing` that two readers of one connection are both in
`shared`; `Unread` that a call has no data before it returns; `Arrived` that the end of
the connection is never among the pieces that were read. What the body has read is then
a prefix of the script, and at its end all of it.

`FailInv` is what failures need beyond that, and here even calls in `shared` matter,
because they leave connections to later ones. `PoolLeft` says that what is left on a
connection in the pool is the end of the script of the call that put it back,
whoever else has read from it: it lies behind what the body of that call has read, so
once the body is at its end at most an empty line and the end of the connection
are left (`Scant`). A call that takes the connection finds that in front of its own
answer, and `CallLeft` says that no piece of this is an error to `parse_response`
(`Fine`), nor could be taken for a response. An abandoned body, trailers, a response
that a call did not return or a closed connection break it, and these are the reasons
that `FailsForAReason` names.

The inductive invariants were checked by TLC on small instances before they were
proved (those of `Client` with three calls on part of the replies). Two properties
were corrected on the way, both for three calls after a 100 Continue.
`ReusedWhenAllowed` spoke of the reply to request `j`, when call `j` has another
request's response; it is stated for the response that the call was given. And
`BodyIntact` did not except calls that are `Displaced`.

Only model-checked: everything temporal beyond safety (`EveryReaderServed`,
`Released`, `EveryRequestAnswered`, `ExpectAnswered`, `UpgradeHappens`, `Streamed`,
`Finishes`, `Returns`, `EveryConnectionServed`, `WriteReturns`, `LetsGo` and the fairness part of
`TakesTurns`), which the prover cannot do. Every invariant that a passing run checks is
a theorem.

## 5. Not modelled

The server of `Client` sends well-formed responses, and one authority stands for
all, which the pool keeps apart. `write_request` is one step: what it writes is
framed like a response, which `BodyChannel` models. The examples and the crate root
only use or re-export the rest. Text of heads, addresses, `Debug` and `TCP_NODELAY`
are outside what the properties tell apart. In `Serve` and `Client`, panics of a
service or an application unwind through the same drops as errors and are not
separate actions; `Server` and `Connection` have them where they matter, for the
threads of the pool and the mutex of a TLS session. The TLS session, the sockets,
the pool crate and `httparse` are modelled as far as the code relies on them.

`serve()` reads through a `BufReader` too, and drops what it holds before an upgrade
handler gets the connection (`server.rs:535`); `Serve` reads piece by piece, and the
client of a switch of protocols sends nothing early, so this loss, the counterpart
of the one `BodyIntact` describes for the client, is not in the model.

## 6. Plan

1. `Client` with three calls, and `write_request` with bodies that fail half-way.
2. The early data of a client that upgrades, in `Serve`.
