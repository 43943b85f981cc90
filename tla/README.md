# Formal models of the Kunpeng Redis patches

This directory holds TLA+ models of the code in this repository, the TLC
configurations that check them, and proofs checked by TLAPS. The repository does
not contain Redis itself: it holds *patches* on Redis 4.0.14, 6.0.15, 6.0.20 and
7.0.15, a few source files the patches install, and the tools that apply them.
What the patches change is modelled from the patches; what they call in upstream
Redis, in `libkraio` or in the kernel is modelled from how the patches use it and
marked `external` in `PROJECT.json`.

Paths below are relative to the repository root. Line numbers are those of the
patch files themselves. "The iouring patch" is
`src/Redis-7.0.15/kunpeng-iouring/0001-adapt-iouring.patch`; "the 6.0 patch" is
`src/Redis-6.0.20/kunpeng-hw-accel/0001-adapt-iouring.patch`, which changes the same
code as the one for 6.0.15; "the KBAIO sources" are `ae_kbaio.c` and
`networking_kbaio.c` in `src/Redis-6.0.20/deps/kbaio-src/src`, with
`src/Redis-6.0.20/kbaio/0001_kbaio.patch`, "the KBAIO patch".

## 1. Inventory

| Component | State | Operations | What makes it correct | Modelled in |
|---|---|---|---|---|
| KRAIO reply path 7.0.15 (iouring patch) | `buf`, `bufpos`, `sentlen`, `reply`, `reply_bytes`, `CLIENT_ASYNC`, the write handler, `iouring_enable`, `isEvictionProcRunning`; the ring's operations | `writeToClient` and `_writevToClientAsync`/`_writeToClientAsync`, `writeCallback`/`writevCallback`, buffer resize, `afterSleep` | one operation in flight; its memory stable; every byte once and in order; pending output always has an owner | `KraioWrite` |
| KRAIO replica branch 7.0.15 | `ref_repl_buf_node`, `ref_block_pos`, `refcount` of the shared blocks, the backlog | lines 97-166, 334-365, 418-432 | a block in flight is referenced until its completion; every replica gets the stream once from its offset; no replica with output is forgotten | `KraioReplica`, `KraioLib` |
| libkraio (`Redis-7.0.15/rpm_build/include/kraio.h`) | operations accepted | `write_async`, `writev_async`, the registrations | a refusal is not taken for an acceptance | the declarations: `KraioLib`; the library is a binary |
| KRAIO completion lookup | `events[fd].clientData`, descriptors | lines 235-245 | a completion reaches the client that submitted it, or nobody | not modelled, see 5 |
| KRAIO reply path 6.0.x (`src/Redis-6.0.20/kunpeng-hw-accel`) | as above, one block per write, no fallback | `writeToClient`, `writeCallback` | as above | `KraioWrite6` |
| KBAIO event loop (`deps/kbaio-src/src/ae_kbaio.c`) | per-descriptor `kbaio_event`, `events[fd].res`, submission and completion queues | `aeApiAddEvent`, `aeApiDelEvent`, `aeApiPoll` | every completion reaches the handler it belongs to, with its own result | the operations of clients: `KbaioClient` |
| KBAIO client (`networking_kbaio.c`) | `querybuf`, `qblen`, `submitted_query`, `totwritten`, reply buffers | read done, write done, submit read, submit write | a connected client always has a read or a write in flight; buffers in flight do not move | `KbaioClient` |
| DTOE event loop (`src/Redis-7.0.15/kunpeng-dtoe`) | file events, `fired[]`, `epoll_wait_count`; time events with reference counts | `aeApiPoll`, `aeProcessEvents`; `aeCreateTimeEvent`, `aeDeleteTimeEvent`, `processTimeEvents` | only wanted events of the right connection are handled; what is reported fits `fired[]`; timers fire and are freed, but not under a walk that stands on them | `Dtoe`, `AeTimers` |
| DTOE connections | offload state, `CONN_FLAG_DTOE`, the close callback | accept, offload, close, close done | a descriptor and its connection correspond until both are gone; a closed connection is freed | `Dtoe` |
| DTOE address check | - | `isValidIpv4`, `checkIpv4` | accepts the dotted quads | `Ipv4Check` |
| Grisu2 (`rdb-aof-fallback`) | - | `generate_digits`, `round_digit`, `emit_digits` | shortest digits in the interval, closest to the number; text reads back | `GrisuDigits`, `EmitDigits` |
| `tools/apply_patch.sh` | resolution state | selection, search over depends, conflicts, order | dependencies before dependents, no conflicting pair | `PatchResolve` |
| `tools/lint.py`, `tools/verify.sh`, packaging, documentation, vendored `liburing` | - | - | - | not modelled, see 5 |

How they interact. The iouring patch, the 6.0 patch, KBAIO and DTOE are
alternatives for the same place in Redis, the path from the reply buffers to the
socket and (KBAIO, DTOE) the event loop; the manifests declare them conflicting.
Within one of them the interaction is: *command execution* appends to the reply
buffers and puts the client into `server.clients_pending_write`;
`handleClientsWithPendingWrites()` runs before the loop sleeps and calls
`writeToClient()`; that submits memory addresses to the ring, or writes
synchronously; the *ring* and the kernel execute the operation at any later time;
the *completion* is reaped by the loop and calls back into `networking.c`, which
accounts for what was written and submits the rest. Timers (`serverCron`, the
eviction timer) and configuration commands run in between.

A replica has no reply buffers: it stands in a list of replication blocks it shares with
the other replicas and the backlog, and a write command of any client appends to that
list and queues every replica. DTOE splits the work of a connection between the kernel
and the library `kbdtoe`; both are polled by the same loop, which also runs the timers.

The hard behaviours are therefore not parallel threads but *time between
submission and completion*: anything may run in it, and both what the ring reads
and what the callback finds may have changed. `PROJECT.json` lists them one by one
under "hazards", with the line where each bites.

## 2. Modules

* `ReplyStream` - the abstract promise of any reply path: units produced reach the
  socket once each, in order; a connection closed after its reply is closed when
  nothing is left; only an aborted connection drops units; another connection may
  follow on the descriptor.
* `KraioWrite` - the reply path of the iouring patch for one ordinary client, with the
  ring and the peer. Its property `StreamInOrder` is `ReplyStream`'s specification
  under a refinement mapping.
* `KraioWrite6` - the reply path of the 6.0 patch, against the same `ReplyStream`.
* `KbaioClient` - a client of the KBAIO backend with its descriptor, the ring and the
  event loop around it, against the same `ReplyStream`.
* `KraioLib` - what `kraio.h` declares: submissions, their `size_t` result and what C
  makes of it, the functions a program may register. `KraioReplica` - several replicas on
  one list of blocks, on top of it.
* `AeTimers` - the time events of `ae_dtoe.c`, walks inside walks included.
* `Dtoe` - the event loop with its two pollers, composed with the life of offloaded and
  ordinary connections and their descriptors.
* `Ipv4Check`, `GrisuDigits`, `EmitDigits`, `PatchResolve` - pure algorithms, each with its
  reference definition.
* `MCKraioWrite`, `MCKraioWrite6`, `MCKbaioClient`, `MCKraioReplica`, `MCAeTimers`, `MCDtoe` -
  instances for TLC; `MCAlgorithms` enumerates inputs of the algorithms.
* `ReplyRuns`, `KraioWriteProofs`, `KraioWrite6Proofs`, `KraioReplicaProofs`,
  `KbaioClientProofs`, `AeTimersProofs`, `DtoeProofs`, `AlgorithmsProofs` - proofs, see 4.

### How `KraioWrite` corresponds to the code

*Data.* Reply bytes are abstracted to numbered units, in order of production; a unit
is a run of bytes copied as a whole, so a short write may end between any two. The
static buffer is the sequence `buf` (its length is `bufpos`); the list is the
sequence `reply` of units, each with the `clientReplyBlock` that holds it. Blocks are
named by their first unit, and since blocks are only appended to and deleted whole, a
(block, unit) pair is an address. An operation in the ring holds *addresses*
(`cells`), not units: the ring loads them when it executes, and finds `Junk` if the
buffer was moved or its contents dropped. This is what makes `StableCells` and
`StreamInOrder` say something.

*Actions.* One per handler of the event loop, whole:

| Action | Code |
|---|---|
| `AddReply` | upstream `prepareClientToWrite` and `_addReplyToBufferOrList` (external) |
| `FlushPendingWrites` | upstream `handleClientsWithPendingWrites` around `writeToClient` |
| `EpollOut` | upstream `sendReplyToClient` around `writeToClient` |
| `WriteToClient`, `WriteLoop` | `writeToClient` with `_writeToClient*Async`, `_writevToClient*Async`: lines 255-432 |
| `Completion` | `writeCallback`/`writevCallback`, `write_callback_common`, `handle_*_callback`, `callback_after_common`: lines 123-245 |
| `FreeClientsInAsyncFreeQueue` | also called from `afterSleep` by the patch: line 459 |
| `ResizeOutputBuffer` | `clientsCronResizeOutputBuffer` with the patch's guard: line 451 |
| `ToggleEviction`, `ToggleIouring` | the two globals the patch reads: lines 71, 59 |
| `KillClient` | `freeClientAsync` from anywhere else |
| `RingWrite`, `RingFail` | libkraio and the kernel: a full or short write, EAGAIN, EINTR, another error |
| `PeerRead` | makes room in the socket's send buffer |

The loop of `writeToClient()` is one action because it runs to completion on the
event loop thread. `WriteLoop` folds its iterations: `m` units are sent synchronously
(only if the ring was not tried or refused), then the loop ends in one of four ways.
The definitions marked "(variant: ...)" are not used by the specification; they state
plausible mistakes, and the corresponding property fails when one replaces the
definition below it.

*Not in the model.* The replica branch (`KraioReplica`) and the lookup of the client by
descriptor; `io-threads` (with threaded I/O `handleClientsWithPendingWrites`
is another function that the patch does not touch); statistics, `lastinteraction`,
`updateClientMemUsageAndBucket`. Empty blocks (lines 275-280) are the place holders of
deferred reply lengths, which the operations modelled never put on the list.
`NET_MAX_WRITES_PER_EVENT`
appears as the bound `NetMax` of the synchronous loop and, with `IOV_MAX`, as
`IovMax`. Closing the descriptor of a freed client is taken to withdraw its operation.

### How `KraioWrite6` corresponds to the code

Units, blocks, addresses, the ring and the peer are as in `KraioWrite`. The code is
simpler: `writeToClient()` (lines 123-139) submits what is left of *one* object, `c->buf`
or the head block, and returns; there is no synchronous write, no guard on
`CLIENT_ASYNC` at entry, and `writeCallback()` (lines 51-119) accounts against `c->buf`
if it is not empty *at that time* and against the head block otherwise.

| Action | Code |
|---|---|
| `AddReply` | upstream `prepareClientToWrite` and `_addReplyToBuffer`/`_addReplyProtoToList` (external) |
| `FlushPendingWrites` | `handleClientsWithPendingWrites` with the patch's condition: line 145 |
| `WriteToClient`, `Accepted` | lines 123-139; the comparisons of lines 126 and 135 |
| `Completion` | `writeCallback`, with the `writeToClient` at its end: lines 51-119 |
| `RingWrite`, `RingFail`, `PeerRead`, `KillClient`, `FreeClientsInAsyncFreeQueue` | as in `KraioWrite` |

As in `KraioReplica` the library may answer 1, 0 or -1 to a submission. `write_async()` is
declared to return a `size_t` (`rpm_build/include/kraio.h:20`), and this patch compares it
with `<= 0` as it is, so `Accepted` takes -1 for an acceptance: `CLIENT_ASYNC` is set and the
ring has nothing. `refused` remembers it: "seen" for an answer of 0, for which
`writeToClient()` returns C_ERR, and "missed" for a negative one.

After a failed write the code asks for the state of the connection, in a line the
patch does not show; the model lets EPIPE be taken for a broken connection or be
retried like EAGAIN. There is no action for EPOLLOUT: with io-threads off the condition
at line 145 is never true, since `writeToClient()` returns C_OK only with nothing
pending or with `CLIENT_ASYNC` set. `FlushPendingWrites` computes `handler` nevertheless,
and `HandlerNeverInstalled` proves that it stays FALSE.

### How `KbaioClient` corresponds to the code

With KBAIO the ring replaces epoll and `read`/`write`: a client that waits for a request
has a *read* in the ring, one that sends a reply has a *write*, and the completion
handler of the one prepares the other. Requests are abstracted to parts: a read takes
any number of the parts that have arrived, the last part of a request makes it
complete, and executing it produces some reply units and may ask to close (QUIT).
Output is abstracted as in `KraioWrite6`. `qtail` is the memory behind the end of the
query buffer: a read writes there, at the address it was prepared with, and the
handler takes in what it finds at the end of the buffer *then*.

| Action | Code |
|---|---|
| `Poll` | `aeApiPoll`: all completions are reaped; masks from `events[fd].type` of now, one `res` per descriptor |
| `Dispatch` with `ReadDone`, `WriteDone` | `connSocketEventHandler`, `readDoneFromClientKbaio`, `writeDoneToClientKbaio` |
| `SetCreateReadEvent`, `WriteToClient`, `Prepare` | `setCreateReadEventKbaio`, `writeToClientKbaio`, `aeApiAddEvent` |
| `FlushPendingWrites` | `handleClientsWithPendingWrites` with the patch's `continue` |
| `Push` | a reply added by another client's command: PUBLISH, MONITOR, the service of a blocked client |
| `ResizeQueryBuffer` | `clientsCronResizeQueryBuffer` with the patch's guard |
| `KillClient`, `FreeClientsInAsyncFreeQueue` | `freeClientAsync` from elsewhere; `freeClient` with `connSocketClose` |
| `Accept` | `acceptTcpHandler`, `acceptCommonHandler`: the next connection on the descriptor |
| `RingRead`, `RingWrite`, `RingFail`, `PeerSend`, `PeerRead`, `PeerClose` | kernel and peer |

`fired` records, with each mask, the operation that completed; the handlers do not use
it, only properties do. What happens when an operation that outlived its client
completes is not modelled (the handler would be given memory that was freed): such an
operation stays in the ring, the descriptor is not used again, and `CompletionOwned`
says that only a client killed from outside leaves one. Left out: links to a master or
to replicas, which the patch does not support (its connection type has no `read` and
`write`), the exception of the write limit for `maxmemory`, TLS. The sources for 4.0.14
have the same protocol; they test `errno` after a failed operation and free clients
at once instead of asynchronously.

### How `KraioReplica` corresponds to the code

The replication stream is numbered in units and block `b` holds the units
`(b-1)*BlockCap+1 .. b*BlockCap`; a replica's place is a block and a position in it. The
list runs from the backlog's block to the last one, so trimming moves its head.

| Action | Code |
|---|---|
| `Feed` | upstream `feedReplicationBuffer` (external): every replica without output is queued, the first block gets the backlog's reference, the backlog is trimmed |
| `Attach` | upstream: a replica that asks for an offset in the backlog (PSYNC), or for what comes next |
| `WriteToClient` | `writeToClient` for a replica: lines 418-432 with `_writeToClientSlave`, 334-365 |
| `FlushPendingWrites`, `EpollOut` | upstream `handleClientsWithPendingWrites`, `sendReplyToClient` around it |
| `Completion` | `writeCallback` for a replica: lines 97-166 |
| `KillReplica`, `FreeReplica` | `freeClientAsync`; `freeClient` with `freeReplicaReferencedReplBuffer` |
| `RingWrite`, `RingFail`, `PeerRead` | libkraio, the kernel and the peer |

The library may accept, answer 0 or answer -1. `write_async()` is declared to return
`size_t`, and the patch keeps it in an `int`; `Taken` computes both conversions on a
word of `SizeMax`. `TakenUnsigned` compares without the `int`, as the 6.0 patch does: it is
what `KraioWrite6` uses, and as a variant of `Taken` it breaks `OneInFlight` here.

`kraio.h` and the patches disagree on more than the model shows: the header declares
`write_async` with six parameters and callbacks `(ret, buf, len, para1, para2, para3)`,
while the patches call it with three and register functions of `(ret, fd)`. The model
follows the patches: a completion is told the descriptor. Left out: what a replica does
before it is online, the index of blocks and the limit of blocks trimmed at once.

### How `AeTimers` corresponds to the code

New timers go to the head of the list, so a timer is named by the order of creation and
the list is a set read from the youngest to the oldest. `walks` is the stack of the
calls of `processTimeEvents()`; a walk's record is the function's local variables, and
`inside` says which function of the program it is in: none ("loop"), that of `te`
("timer"), or the finalizer of a timer it has just unlinked ("finalizer"; then `te` is the
`next` saved at line 371).

| Action | Code (lines 297-421 of the DTOE patch) |
|---|---|
| `CreateTimeEvent`, `DeleteTimeEvent` | the functions of these names; allowed whenever the program runs, that is, from the loop's own handlers, inside a timer function or inside a finalizer |
| `StartWalk`, `EndWalk` | `processTimeEvents`, also called from inside a timer function, and from inside a finalizer if `WalksInFinalizer` |
| `FreeDeleted`, `FinalizerReturns` | the branch that frees a deleted timer without references, with its finalizer or without one: lines 371-392 |
| `PassOver` | deleted but referenced, younger than `maxId`, or not due |
| `Fire`, `Return` | the call of `timeProc`, and what follows it with its result |
| `Tick` | the monotonic clock |

`WalksInFinalizer` is FALSE in the run and in the theorems. A reference count holds the timer
whose *function* is running, "for recursive timerProc calls" (lines 372-374), but nothing holds
`next` while a finalizer runs (line 386): a finalizer may create and delete timers, which the
model lets it do, but if it also ran the event loop, that walk could free `next`, and the outer
one would go on to freed memory. With the constant TRUE, TLC finds this in nine states: two
timers are deleted, the walk unlinks the first, and its finalizer starts a walk that frees the
second. No finalizer is defined in the patches.

### How `Dtoe` corresponds to the code

| Action | Code |
|---|---|
| `Poll` | `aeApiPoll` of `ae_epoll_dtoe.c`: `kbdtoe_thread_poll` first, then `epoll_wait` at every `EPOLL_WAIT_TIMES`-th call, into one array |
| `SkipEvent`, `Accept`, `Serve` | the loop over `fired[]` in `aeProcessEvents`, one entry per step; what handlers do to connections is nondeterministic |
| `Close` | `connSocketClose` with the offload test |
| `LibraryClose` | the library closes a descriptor that `kbdtoe_close()` was called for: that it has when it calls back is all that line 845 says |
| `CloseDone` | `connSocketDtoeCloseDoneCallback`, later: it frees whatever connection `events[fd].clientData` names |
| `FreeClient` | `freeClientsInAsyncFreeQueue` |
| `OffloadDone`, `PeerSend` | the library and the peers |

`fired[]` is allocated without being initialised and the mask is or-ed, so `stale` starts
as any set and keeps an `AE_WRITABLE` until the entry is written again. No property is
about such a bit: it only makes a registered write handler run early. `broken` stands for
EPOLLERR and EPOLLHUP, which epoll reports of any socket it watches (lines 739-740).

What the code does not say and the model assumes or leaves as a parameter:

* When the library closes. A descriptor that was closed is in `owed` until the callback for
  it. In between the callback has nothing but its number, and the question is whether the
  kernel may give the number away again. That is up to the library, whose source is not in
  the repository, and is the constant `Recycled`. With FALSE, as in the run and in the
  theorems that say so, every property holds. With TRUE `DescriptorOwned` fails after
  eleven steps: the library closes descriptor 2, a connection is accepted on 2, and
  `events[2].clientData` names the new connection when the callback comes, which therefore
  frees a connection that has a client, while the one that was closed is never freed. The
  comment in line 845 speaks for a close before the callback, and nothing in the patch
  waits, so that this is a condition on the library and not a fact.
* The callbacks run inside `kbdtoe_thread_poll()`, between batches; a handler frees its own
  client asynchronously and others at once.
* How many descriptors there are. `adjustOpenFilesLimit()` runs before `maxclients` is
  doubled and asks for `MaxClients + ReservedFds`, but it only ever raises the limit. If
  the limit was higher, `setsize` admits `2 * maxclients + 128` descriptors, and with two
  entries for each `fired[]` is too short. `FiredFits` therefore has the lower limit as a
  hypothesis, `LimitAsAsked`.

### The algorithms

`Ipv4Check` has the loop of `checkIpv4()` on characters that are a digit, a dot or anything
else, a function of the state of the loop: the position and the dots counted so far. Its
reference joins the parts of an address with dots, at least one part. `GrisuDigits` has both
loops of `generate_digits()`, a function from rounds to what is left, and `round_digit()`,
over integers that stand for themselves divided by `One`;
`EmitDigits` the three layouts, and as the reference a reader of the text. `PatchResolve` has
the search of `apply_patch.sh` as a function of its calls: the name asked for, the stack (a
set, since the code only asks whether a name is in it), and the features resolved so far; a
call returns these with an outcome, because the program stops at the first cycle. A call
puts its name on the stack of the calls it makes, so that there are fewer names left: the
function is well defined. Selection, the features that nobody asked for, and the test for
conflicts follow it.

## 3. Runs

| Run | Instance | Shows |
|---|---|---|
| `KraioFallback` | 4 units, socket of 2, all fallbacks possible | the safety properties and the refinement of `ReplyStream` |
| `KraioAsync` | 3 units, socket of 2, ring never refuses, no eviction, no toggling | `NoOrphanedReply` and the liveness properties |
| `KraioFallbackStuck` | 3 units, socket of 1, all fallbacks possible | *violated*: see "Findings" |
| `Kraio6` | 4 units, socket of 2, the ring may refuse with 0 or with -1 | safety, refinement of `ReplyStream` and progress of the 6.0 path |
| `KraioReplica` | 2 replicas, 3 units in blocks of 2, 3 attachments, one failure | reference counts, the stream, no forgotten replica |
| `KbaioSafety` | 2 connections in turn, 2 parts each, replies of 0 to 2 units, write limit 2, one failure | safety properties and the refinement of `ReplyStream` |
| `KbaioLive` | whole requests, replies of 1 or 2 units below the limit, no failures | every request is read, every reply delivered, close after reply |
| `KbaioPartial`, `KbaioPush` | 1 connection, 2 parts | *violated*: see "Findings" |
| `AeTimers` | 3 timers, walks 2 deep | memory safety and progress of the timer list |
| `Dtoe` | 2 descriptors, 3 connections, epoll every 2nd turn, with and without DTOE | descriptors and connections, capacity of `fired[]`, progress |
| `Algorithms` | bounded inputs, see below | the four algorithms against their reference definitions |

The properties:

* `OneInFlight`, `StableCells`, `AckWithinReply`, `OffsetsConsistent` - the four facts on
  which the asynchronous path rests: one submission at a time; its memory stays what it
  was; what the completion accounts for is still there; the offset is inside the object.
* `StreamInOrder` - the consequence for the peer, as a refinement.
* `HandlerNotArmedInFlight` - line 427's comment, although `writeToClient()` answers
  C_OK at line 423.
* `NoOrphanedReply`, `ReplyDelivered`, `CloseAfterReplyFrees`, `HandlerRetired` - progress.
* `CompletionFindsObject` (6.0) - the object a completion is accounted
  against is the one that was submitted. This is not obvious, as `c->buf` has
  precedence whenever it is not empty: it holds because replies go to the list as
  long as the list is not empty.
* `RefcountsExact`, `InFlightBlockHeld`, `StreamFromOffset`, `NoOrphanedReplica` (replicas) -
  a block's count is the number of those who stand in it; the ring never reads a
  released block, and the completion accounts against the block of the submission; a
  replica receives the stream from its offset without gap or repetition, whichever
  mixture of asynchronous and synchronous writes sends it; and it is not forgotten
  unless the ring refused.
* `OneOperation`, `CompletionOwned`, `QueryBufferStable` (KBAIO) - the
  alternation of reads and writes and what rests on it: event type, result, `sentlen`
  and the memory of operations are shared by both halves and are not protected
  otherwise. They hold while no message is pushed to a client that is waiting for a
  request (`Pushes` = FALSE); `KbaioPush` shows what happens when one is.
* `RequestServed`, with `ReplyDelivered` and `CloseAfterReplyFrees` - progress of a
  conversation of whole requests and moderate replies. Its three conditions
  (`MultiPart`, `ReplySizes`, `NetMax` in the configuration) are necessary: dropping the
  first is `KbaioPartial`; a command without reply stops the connection in the same
  way; and a reply of `NET_MAX_WRITES_PER_EVENT` or more stops it because the
  function returns (line 150 of `networking_kbaio.c`) without preparing a write and
  without resetting `totwritten`.
* `NoFreedTimerReached`, `NewTimersUnseen`, `DueTimerFires`, `DeletedTimerFreed` (timers) -
  `te->next` is read after the timer's function returned, so the timer must still be in
  the list although inner walks free what is deleted; yet every deleted timer goes in
  the end, and a due one is called whatever the others do.
* `DescriptorOwned`, `FiredFits`, `RequestServed`, `ClosedIsFreed` (DTOE) - the close callback
  and the dispatch find connections by descriptor, descriptors are given away again
  within the same batch, and the callback comes when the descriptor is closed already
  (under the condition `~Recycled`, see section 2); the array holds what both pollers
  report (under `LimitAsAsked`); input is handled although epoll is rarely asked; closed
  connections are freed, except those closed between start and success of their
  offload, which do leak (`AbandonedNeverFreed`).
* `AcceptsDottedQuads`, `ShortestDigits`, `TextReadsBack`, `SeriesInOrder` - the algorithms.
  The checks found, and the properties state: `isValidIpv4()` also accepts three octets
  with a dot after each ("1.2.3."), since the loop ends with the text and only dots are
  counted; a negative integer of 17 digits and seven zeros takes 25 characters, one more
  than the 24 of `fpconv_dtoa()`'s destination; behind the point the lower end of the
  interval does not end `generate_digits()` (`part2 < delta`, where the first loop has
  `tmp <= delta`), although `round_digit()` may step onto it, so that a shorter number that is
  exactly the lower end goes unnoticed.

*Bounds.* `MaxUnits`: four units fill a static buffer of one or two and two blocks of
two, so that every kind of boundary (inside and at the end of the buffer, inside and
at the end of a block, more blocks than `IovMax`) is met by a short write. `SockCap`
of two makes short writes and a full socket common. `NetMax` = 1 makes the
synchronous loop stop on its own limit. `MaxIntr` bounds EINTR, which is otherwise
repeatable for ever. In `KraioReplica` three units in blocks of two make a replica cross
from a full block into a block in use while the other stands behind it; `BacklogSize` = 0
trims whatever it may; the third attachment uses a descriptor again. In `AeTimers` two
walks suffice for an inner one to free under an outer one, and three timers for a
neighbour on each side. In `Dtoe` two descriptors for three connections make them
be used again; `FdsetIncr` is twice `ReservedFds`, as 128 exceeds twice 32.
Addresses have up to five parts, one or two of them from a list of near misses; numbers
have 5 fractional bits and two integral digits (with 4 bits `round_digit()` never steps
exactly onto the lower end of the interval), intervals are up to 40 wide; digit strings have the lengths and
exponents of doubles in three patterns; manifests have three features with up to two
dependencies each, missing names and cycles included. Deadlock checking is off where the
system may stop: everything is sent and the client is freed, or all inputs are checked.
The timers and the DTOE loop never stop and are checked for deadlock.

*Fairness* (`FairSpec`). Weak fairness of the event loop's own actions: the loop calls
`handleClientsWithPendingWrites` and `freeClientsInAsyncFreeQueue` on every iteration,
and dispatches completions and EPOLLOUT as they come. Weak fairness of the ring's
execution (it completes what it accepted) and of the peer's reading: a peer that
never reads stops any server. No fairness is assumed of new replies, kills, resizes
or the switches. For KBAIO, `Poll` and `Dispatch` are the loop and `RingStep` is the
execution of reads and writes that can proceed; the peer need not send anything.
For the timers: `aeMain()` starts a walk again and again and a walk proceeds (weak
fairness); a timer function may start as many walks of its own as it likes, but returns
in the end, and so does a finalizer (strong fairness of `Return \/ FinalizerReturns`, for
each depth). For DTOE: weak fairness of the
loop and of the library's close, strong fairness of its callback, which is possible only
between batches.

*Findings.* `FullSocketWaitsForEpollout` states line 158's comment, "Wait for kernel
epollout event if tcp write buffer is full", of every live client whose socket is
full and whose output neither the ring nor the pending-write queue holds. It fails:
`callback_after_common()` calls `writeToClient(c, 0)` at line 161 and ignores the
result. If the submission made there is refused by the ring, or the eviction timer is
running, or `iouring_enable` was switched off, the call writes synchronously, meets
EAGAIN and returns with output left; nobody installs the handler, and since
`prepareClientToWrite` queues a client only when it has nothing pending, later replies
do not help. The trace has six states.

`PartialRequestKeepsReading`: 12-15 of the 4.0.14 `networking_kbaio.c` sizes reads "even
at the risk of requiring more read(2) calls" per request, but `readDoneFromClientKbaio()`
prepares none. The next read is prepared when a reply was sent, and an incomplete
request has no reply; the connection is silent from then on.

`FiredMatchesOperation`: a client waits for a request and has a read in the ring. A
message for it (PUBLISH) is written, and `aeApiAddEvent()` sets the event's type to
AE_WRITABLE. If the read completes before the write is dispatched, `aeApiPoll()` fires
it as AE_WRITABLE, and the bytes read are accounted as bytes written.

`apply_patch.sh` does the opposite of its usage text (lines 11-12: `--features` applies
"only" the given subset) when the manifest has `depends`: every feature with a patch is
applied, those not asked for last and without regard to what they depend on. For the same
reason the advice in the message for a conflict, to choose one of the two with `--features`
(line 138), cannot be followed. `SeriesInOrder` claims nothing of such features; the theorem
`EveryFeatureApplied` shows the disagreement for every manifest.

`connSocketClose()` of DTOE is announced as "Close the connection and free resources.", but
for a connection whose offload was started and is not done it calls neither
`kbdtoe_close()` nor `close()` (lines 870-878): `ClosedIsFreed` excepts such connections, and the
theorem `AbandonedNeverFreed` shows that they and their descriptors are never released.

Other limits are written into properties instead. In the 6.0 path a submission that the
ring refuses with 0 (line 126) makes `writeToClient()` return C_ERR, which its caller takes
to mean that the client is being freed; one that it refuses with -1 is taken for an
acceptance, and `CLIENT_ASYNC` stays set with nothing in the ring. Either way the reply has
no owner from then on: `ReplyDelivered` and `CloseAfterReplyFrees` of `Kraio6` except it,
and `OneInFlight` names the second case as the only one in which flag and ring disagree. In the replica branch a
refused replica is excepted from `NoOrphanedReplica` in the same way.

## 4. Proofs

TLC finds the invariants plausible on the instances above; the theorems hold for all
values of the constants that satisfy the assumption of the module (`ConstantsAssumption`,
`ReplicaAssumption`, `DtoeAssumption`, ...: bounds are natural numbers, capacities are
positive). Further hypotheses are named where there are any.

* `KraioWriteProofs`: `TypeCorrect`, `Spec => []TypeOK`. `TypeOK` is inductive as it
  stands. The content is in the lemmas: `AckWritevType` shows that the offset left
  after deleting covered blocks is not negative (it is a `size_t` in the code), from
  `CoveredCount`: the blocks that end at or before an offset have at most that many
  entries.
  `SingleFlight`, `Spec => []OneInFlight`. The inductive
  invariant is `FlightInv`: the types, `OneInFlight`, `FlightHasPending` (an
  operation in flight stands for pending output) and `QueuedInFlightHasHandler` (a
  client that is queued while in flight already waits for EPOLLOUT).
  `HandlerStaysUnarmed`, `Spec => HandlerNotArmedInFlight`, follows from the same
  invariant; the last two conjuncts are there for it. Without them, the early `C_OK` of
  `writeToClient()` would let `handleClientsWithPendingWrites()` arm the handler.
  `AsyncNeverOrphans`: if the ring never refuses, eviction never runs and the switch
  is not used, `Spec => []NoOrphanedReply`; the induction adds that the two globals keep
  their initial values. These three hypotheses are exactly what `KraioFallbackStuck`
  drops.
  `CellsAlwaysStable`, `AckAlwaysWithinReply`, `OffsetsAlwaysConsistent`
  and `StreamAlwaysInOrder`, `Spec => StreamInOrder`, the refinement of `ReplyStream`. The
  invariant is `MemInv`, `FlightInv` with `Memory`: the output buffers are in order
  (`OutOK`: the entries of one block stand together and blocks follow in order of creation,
  `sentlen` is inside its object, `reply_bytes` is exact), the operation in the ring
  `Describes` the first unsent units by their addresses, and a client that is closed as
  drained, or freed, has nothing left. The order of the blocks is what the accounting
  rests on: only then are the entries of covered blocks a prefix of the list, so that
  deleting them leaves `sentlen` in the head block (`CoveredFacts`, `BlocksSplit`,
  `ListAck`). `StableCells` is not inductive: a completion that submits again needs to
  know that the new addresses are those of the first unsent units (`IovFacts`), a reply
  added meanwhile that it leaves those in front alone (`OneMore`). For the refinement,
  `StreamMoves` covers every way the socket takes a prefix, with or without the end of
  the connection; `MovesStream` brings the loop of `writeToClient()` into that form and
  `RingWriteStream` the ring's execution, by what its addresses hold at that time.
* `KraioWrite6Proofs`: `SingleFlight6`, `CompletionAlwaysFinds`, `HandlerNeverInstalled`. The
  invariant `Flight6Inv` says of a client with `CLIENT_ASYNC` that it has output and is
  neither queued nor freed, whether it has an operation in flight or its refusal was
  missed (`AcceptedIff`: the unsigned comparison accepts every answer but 0), and of an
  operation in flight that it covers what is left of the object
  `writeToClient()` would choose *now*: since `writeToClient()` does not look at
  `CLIENT_ASYNC`, it is only the rule for queueing that keeps a second submission away.
  `StreamAlwaysInOrder6`, `Spec => StreamInOrder`, the refinement of `ReplyStream`: the
  invariant `Stream6Inv` adds where the reply stands. Units are numbered in order of
  production, so that "in order, without gap or repetition" is an equation: what the peer
  was sent is a run of numbers from 1 on, and buffer and blocks hold, one after the other,
  the run behind it, the result of a write not yet accounted for taken into account.
* `ReplyRuns`: what the last theorem and the next refinement share. Runs of numbers and
  how they are split and joined; the chain that the blocks of a list form (each starts
  where the one before it ends), and that `FlattenSeq` of a chain is one run. `FlattenSeq`
  and the folds are recursive definitions, of which a proof first has to show that they
  have a solution at all: the lemmas do it by induction over numbers, by finding a first
  number for which a claim fails (`SetInduction`), since the induction theorems of the
  library cannot be used here.
* `KraioReplicaProofs`: `RefcountsAlwaysExact`, `InFlightAlwaysHeld`, `AlwaysOneInFlight`,
  `StreamAlwaysFromOffset`, `NeverOrphanedReplica`. The invariant `ReplicaInv` has the exact
  counts, the shape of the list (every block from the head on exists, every replica
  stands in one of them) and, for each replica, where it stands relative to its
  operation and to what its socket took. The counts need an argument about
  cardinalities when a replica moves between blocks; trimming needs that the head is
  only released at count zero and that replicas never stand before it.
* `KbaioClientProofs`, with the hypothesis `Pushes = FALSE`: `SingleOperation`,
  `CompletionAlwaysOwned`, `ReadsIntoPlace`, `FiresAsOperation`. The invariant
  `ConversationInv` says that a client is quiet or has exactly one operation, somewhere
  between preparation and dispatch, and that the event's type, the base of a read and
  `submitted_query` agree with it. The last theorem is the complement of `KbaioPush`: the
  hypothesis it drops is the only way to the violation.
  `StreamAlwaysInOrderKbaio`, with the same hypothesis: the client implements
  `ReplyStream` on each of the connections that use the descriptor in turn. The invariant
  `StreamInv` says again that the output holds the run behind what the peer was sent, and
  of the operation in flight that it is for what is to be sent next and has written nothing
  while it is in the ring (`Faithful`): when it fires, `res` is its result and the object
  the result is accounted against is the one that was submitted, although both are read
  from the state of that later moment. The requests of one read are executed one after the
  other, each adding to the output: a fold over the query buffer (`ExecuteReaches`). A
  descriptor is used again once nothing of the last connection is in the ring; what becomes
  of an operation that outlives its connection is left open by the model.
* `AeTimersProofs`: `TimersNeverDangle`, `MaxIdNeverExceeded`. The invariant `WalkInv` counts:
  a timer's reference count is the number of walks that stand on it with its function
  running, all walks but the innermost are in that state, and the timers a walk may meet
  are older than the walk. Both theorems assume `~WalksInFinalizer`: otherwise a walk inside
  a finalizer is not the innermost, and holds no reference.
* `DtoeProofs`: `CallbackFindsConnection`, `AbandonedNeverFreed`, `EntriesAlwaysFit`. The
  invariant `DtoeInv` relates the lives of connections, descriptors and registrations (what
  `DescriptorOwned` says, and that connections not yet accepted hold nothing and a
  descriptor the library owes a callback for is not open). It is inductive only under
  `~Recycled`, which the first two theorems assume; `LeakInv`, on top of it, says that an
  offload lasts as long as its connection has a client, and for ever when it was abandoned.
  `EntriesAlwaysFit` needs neither, only types (`BatchTypes`): the library and epoll report a
  descriptor at most once each, and `2 * ReservedFds <= FdsetIncr`. Its hypothesis on the
  number of descriptors, `LimitAsAsked`, is part of `FiredFits`.

* `AlgorithmsProofs`. `AcceptedAddresses`: for every text, of any length, `isValidIpv4()`
  holds exactly if the text is empty, a dotted quad, or three octets with a dot after each.
  The loop of `checkIpv4()` is a function of its position and the dots counted so far; that
  it has a solution follows from `RoundLooksAhead` (a round asks only for later positions),
  and what it accepts is found from the end: nothing with a fourth dot (`NoFourthDot`), after
  the third dot an octet or nothing (`LoopLast`), and before it, dot by dot, an octet and
  what the rest accepts (`LoopBefore`). `AcceptedParts` says the same of a text by the parts
  between its dots, as many as there are and of any length: a text has one such division
  (`QuadOnce`). `AddressesAccepted`, `Spec => []AcceptsDottedQuads`, follows.
  `RoundingKeepsDigit`: the loop of `round_digit()` ends, the last digit stays a digit, the
  number stays inside the interval and `delta - rem`, which is unsigned, does not wrap
  around. Its hypotheses are the facts under which `generate_digits()` calls it: the
  remainder is within the interval, and was not with the last digit added to it.
  `GeneratesShortest`: for every `One` and `Kappa`, every interval of positive numbers below
  `10^Kappa` and every number in it, `generate_digits()` gives decimal digits without a
  leading zero, and no number of the interval is shorter (the lower end behind the point
  aside, as above) or, of equally short ones, closer. The invariant
  of the rounds (`InRound`) is that the digits so far, counted in the unit of the last one,
  and what is left add up to `upper`, and that less than a unit is left: while more than the
  interval is left, no multiple of the unit is in the interval (`NothingNoticed`), and the
  multiples that are in it after the last round are those `round_digit()` steps over, of which
  it stops at the closest (`RoundingIsClosest`). That the rounds and the powers of ten have
  values follows from `RecursionExists`, that there is a last round from powers of ten growing
  past `One` (`LastRoundExists`). `DigitsAlwaysShortest`, `Spec => []ShortestDigits`, follows.
  `FewDigits`: there are at most `p + 1` digits if `upper` is at most `10^p` times the width of
  the interval. `UnitsInTable`: the second loop has at most `p` rounds if `One` is at most
  `10^p`, and in each of them both `part2 * 10` and `delta * 10` are less than `10 * One`. For
  the code, with `p` 16 and 19, these say that `digits[18]` is long enough, that `unit` stays
  in the table of 20 powers and that 64 bits are enough for the loop. The code checks none of
  this, and TLC cannot reach such bounds. That a double and its neighbours meet the premises
  (53 bits; exponents of -60 to -32 after the multiplication) is not part of the model.
  `TextFits`: for all digits and exponents, `emit_digits()` writes at most 24 characters with
  the sign, except for the one form that `TextReadsBack` excepts too.
  `TextReads`: for up to 17 digits that are not all zeros and every exponent of at most three
  digits, what `emit_digits()` writes is read back as the number it was given. The reader
  finds the `e` and the point because digits hold neither (`PositionOnce`, `MantissaFacts`);
  the digits of the exponent add up to it (`ExponentReads`); and the zeros that the first
  two forms put behind or before the digits are not part of the number
  (`PaddedStripped`). `TextAlwaysReadsBack`, `Spec => []TextReadsBack`, combines both.
  `SeriesIsInOrder`: for every number of features, every manifest (any dependencies, cycles
  and names without a directory included, any conflicts) and every request. That
  `Resolve` has a value follows from the names not on the stack, fewer with each call
  (`RankFacts`, `VisitAgrees`, `ResolveExists`). What a call answers is shown by induction
  over the same number (`EveryCall`): what was resolved stays, what is resolved is in order
  (each feature once, after all it depends on), and the outcome is a cycle exactly if the
  name leads into one. For this the callers on the stack must be known to lead to the name
  (`Asks`), so that a name found on the stack is on a cycle, and an ordered list must be
  known to be free of cycles (`OrderedAcyclic`), so that nothing resolved can lead into
  one. `EveryFeatureApplied`: with `depends`, a series that is accepted holds every feature,
  see the findings.
  `SeriesAlwaysInOrder`, `Spec => []SeriesInOrder`, follows for the inputs of the run
  under `BoundsAssumption`, which keeps the literals that the inputs use within their types:
  three features at least, exponents of at most three digits.

Every invariant of a passing run is stated by a theorem. What stays with TLC are the
violations, and everything with fairness (`ReplyDelivered`, `CloseAfterReplyFrees`,
`RequestServed` and the like), which the prover does not handle. `Spec => []ShortestDigits`
and the other theorems about the runs of the algorithms speak of the inputs that
`MCAlgorithms` chooses; the theorems they rest on, of every input.

## 5. Not modelled

* *The lookup of the client by descriptor in `writeCallback()`* (7.0.15 and 6.0.x). Whether
  it can find another client depends on whether libkraio calls back for a descriptor that
  was closed in the meantime. The repository has no source of the library and no comment on
  it; `KraioWrite`, `KraioWrite6` and `KraioReplica` take the operation of a closed
  descriptor to be withdrawn.
* *The poll requests of listening sockets in KBAIO.* They are renewed when `accept` fails;
  whether that is enough depends on the kind of poll that the vendored library sets up.
* *`io-threads`.* The patches change the single-threaded functions only; the threaded ones
  are upstream code which is not here.
* *Master links and the upstream callers of a connection's `read` and `write` functions
  under KBAIO; connections closed inside their own handler under DTOE.* The upstream
  functions around these places are not in the repository.
* *Statistics, memory accounting, client eviction by memory, logging.* They do not
  influence the order or ownership of output.
* *The floating-point half of Grisu2* (`build_fp`, `normalize`, `multiply`, the table of
  cached powers): 64-bit arithmetic on a table, without state; a bounded instance would
  not say anything about it.
* *`tools/lint.py`* checks one file at a time, without state or order; *`tools/verify.sh`* and
  the input and output of `apply_patch.sh` (clone, `git apply`, copies) are plain I/O.
* *Packaging, configuration files, documentation, vendored headers and binaries.* The
  sockmap guide describes a feature without source in this repository.
