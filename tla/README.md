# ShardNet in TLA+

A verification project for ShardNet: a tracker (FastAPI over SQLite), peers that
share files chunk by chunk over TCP, and a local agent with a desktop front end.
The modules model the code under `src/shardnet`; line numbers refer to it.

## 1. The system

| Part | State | Operations | Talks to |
|---|---|---|---|
| Download store, `client/core/download_store.py` | SQLite tables `downloads`, `download_chunks`; `partials/<info_hash>.part`; target files | create_or_resume_download, write_chunk, get_progress, finalize_download | disk; called by the download loop |
| Download loop, `client/core/node.py` `download_file` | locals of the coroutine: missing chunks, `current` | ask the tracker, fetch, store, announce, finalize | tracker, peers, download store, progress callback |
| Peer node, `client/core/node.py` | server, heartbeat task, tracker client | start, stop, share_file, heartbeat | tracker, share store |
| Peer protocol, `peer_server.py`, `peer_client.py`, `protocol.py` | one TCP connection per chunk | hello, piece request, piece data, keepalive, error; retries | share store |
| Share store and manifests, `share_store.py`, `manifest.py`, `models.py` | SQLite table `shared_files`; the user's own files | register_file, read_chunk | disk |
| Tracker, `tracker/store.py`, `tracker/api.py` | SQLite tables `peers`, `files`, `peer_file_state` | register, heartbeat, announce, swarm query with pruning | HTTP clients |
| Agent, `client/agent/service.py` | the current node, jobs, their tasks, one lock | start and stop node, start download, shutdown | peer node, HTTP clients |
| Desktop, command line | view state only | polling, printing | agent, peer node |

What makes them hard:

* **Download store.** Files and rows are two stores with no common transaction:
  a crash falls between any two writes. Jobs for one file share its row, its
  partial file and its target path, and each holds stale lists across awaits.
* **Tracker.** Every request has its own connection. A handler reads outside of
  the transaction it then writes in, so expiry and other announces come between;
  timestamps are read before the write they belong to.
* **Agent.** Handlers await the network under a lock that tasks need too; a task
  outlives the node it uses; failures leave half-started nodes and failed tasks.
* **Protocol and share store.** Late answers, keepalives, retries, frame and
  chunk sizes at their limits, files that change after they were registered.

What makes them correct: a chunk called complete is on disk; nothing wrong is
ever installed; downloads end; a live peer stays listed and a dead one does not;
metadata once accepted stand; a peer lists only what it holds and sends only what
was hashed; who wants a file that is seeded gets it; the node reported is the
node that runs; shutdown ends and leaves nothing behind. `PROJECT.json` lists the
hazards line by line.

## 2. Modules

| Module | Models |
|---|---|
| `DownloadStore` | download store and download loop of one client process |
| `Delivery` | abstract: the stages of a file, absent, fetching, installed, recorded |
| `TrackerStore` | the handlers of the tracker over its database |
| `TrackerRegistry` | abstract: a registry whose operations are atomic |
| `AgentRuntime` | the agent's handlers, tasks and shutdown |
| `Chunking` | manifests, chunk sizes and frame sizes, as operators |
| `ShareStore` | the share catalogue over files that change; extends `Chunking` |
| `PeerExchange` | request_chunk, the peer server and their connections; extends `ShareStore` |
| `ChunkService` | abstract: a catalogue that only grows, requests that are answered rightly or fail |
| `Swarm` | several nodes, one file and the tracker, which is `TrackerRegistry` |
| `DownloadStoreProofs`, `TrackerStoreProofs`, `AgentRuntimeProofs`, `ChunkingProofs`, `PeerExchangeProofs`, `SwarmProofs` | theorems about these modules |
| `MCDownloadStore`, `MCTrackerStore`, `MCPeerExchange` | their instances for TLC |

They compose as follows. `TrackerStore` implements `TrackerRegistry`, and `Swarm`
uses `TrackerRegistry` for its tracker: what `Swarm` takes to be one step of the
tracker is what the interleaved handlers were shown to do. `PeerExchange`
implements `ChunkService`; `Swarm` takes a request for a chunk as one step that
succeeds or fails, lost or not, and `DownloadStore` as an await that does. `DownloadStore`
implements `Delivery`; `Swarm` has the chunks complete on disk, which last, as
`Delivery` promises.

Definitions whose comment begins with "Faulty variant" are no part of a model:
each is what a definition beside it would be after a plausible mistake in the
code, and each makes one property fail (`PROJECT.json`, "mutants").

### DownloadStore

The durable variables are the tables (`status`, `targetPath`, `complete`) and the
files (`part`, `file`); `pc` and `job` are the coroutines. The states of `pc` in
`AwaitPc` are the awaits of `download_file`. Those in `SyncPc` are points between
two writes to disk in a synchronous stretch: another job cannot run there
(`LoopFree`), but a crash or an I/O error can strike. `write_chunk` is
`BeginWrite` (bytes partly written: the chunk is `Torn`), `EndWrite`, then
`MarkComplete` (the commit). `finalize_download` is `Verify`, then either
`MoveByRename` or `BeginCopy`, `EndCopy`, `UnlinkPartial` (what `shutil.move`
does across file systems), then `CommitCompleted`. The agent's progress callback
waits for a lock, so that `progress` and `report` are awaits too.

A chunk holds one value of `Data`; one chunk of the instance holds `Zero`, which
`truncate()` produces, so that "never written" and "written" can look alike.
SHA-256 is injective: comparing digests is comparing contents. `manifest_mismatch`
cannot occur, since the info_hash is the digest of the manifest. `moved` is a
history variable: the files whose partial file once left its place.

Not modelled: power failure (no fsync orders the chunk before the commit), two
processes on one data directory, users who delete or edit files.

### TrackerStore

One action per statement that can be interleaved. `SelectPeer` and
`SelectMetadata` are reads outside a transaction. From its first write a handler
holds SQLite's write lock until it commits: `CommitAnnounce`, `GetSwarm`,
`RegisterPeer` and `HeartbeatPeer` are one step each. The schema's constraints are
`KeyTaken` (primary key) and `PeerGone` (foreign key); the cascade is in
`DeleteStale`. `req[r].now` is read when the handler starts. `Abort` is a client
that leaves, a lock timeout or an I/O error; `Restart` a crash of the tracker.
`lastAck` and `accepted` are history: what peers were told.
`cleanup_stale_peers` has the same DELETE and no caller.

### AgentRuntime

`lock` is the `asyncio.Lock`. Handlers of start_node and stop_node keep it over
their awaits, one action from one await to the next. `StopServer` and
`CloseTracker` are `PeerNode.stop`; `Listen`, `Register` and `RegisterFails` are
`PeerNode.start`, of which a failure leaves the server listening. A task takes
the lock for a moment at each change of its job, which is one step taken while
the lock is free. A session is one `PeerNode`; a task keeps the session it began
with, and its tracker calls succeed only while that session's client is open.
`shutdown` begins when all requests are answered, as the HTTP server sees to it.
Sharing and the listings change nothing here and are left out.

### Chunking and ShareStore

A file is a sequence of bytes, a manifest the size taken by `stat`, the chunk size
and the chunks read. SHA-256 is injective, so a digest is the content it was made
of and the info_hash is the manifest. `ManifestOf` is the reference definition:
what a manifest of an unchanging file should be. `Fits` is
`validate_chunk_shape`, `ChunkSizeForIndex` the rule by which chunks are read
back, `FrameSize` what `send_message` makes of a chunk in base64 inside JSON.

`register_file` takes the size (`BeginRegister`), reads chunk after chunk
(`HashChunk`), and validates and commits at the end of the file (`EndRegister`);
the user may edit the file between any two of these (`Edit`). One registration
runs at a time, and a file is not removed while it is hashed, which an open handle
would not notice. `disturbed` is history. A file that grows between `stat` and the
last read can get a manifest that passes the shape check and whose last chunk no
server can serve: `Intact` excludes it.

### PeerExchange

A connection has two ends (`near`, `far`) and a queue each way. `pc`, `want`,
`attempt`, `conn` are `PeerClient.request_chunk`; each attempt has a connection of
its own, and the server may still be at work on that of an earlier one. `far[c]`
is also where the handler of `_handle_client` stands; `LookUp` and `ReadChunk` are
`_handle_piece_request` before and after the file is opened, between which it may
change. Timeouts have no clock: one may strike whenever its side waits. Errors
that end the client's attempt alike are not told apart. `OtherSends` are programs
that speak the protocol in an order of their own and ask for chunks too; what they
make of the answers is left out, and malformed frames are not sent.
`unsent` are the connections of other programs that have not read the pieces they
asked for, more than the buffers of the network hold: on those a handler may wait in
`drain()` (`far[c] = "drain"`) and does wait in the `wait_closed()` of its finally
clause (`"closing"`), both without a timeout, until the program reads (`OtherReads`)
or hangs up. `request_chunk` reads what it is sent or hangs up.
`Stop` and `EndStop` are `PeerServer.stop`, `Crash` the death of the process.

What reading the code for this module showed: the client compares neither the
info_hash nor the piece index of an answer with its request, and is right all the
same, since a connection carries one request (`ImplementsService`). The error that
the server sends after a timeout has no request_id and is skipped. A chunk whose
frame exceeds the limit ends the handler, and the client retries in vain. A
program that goes on sending keepalives keeps `PeerServer.stop` waiting, and so does
one that falls silent and does not read.

### Swarm

A node is a `PeerNode` in a process: of the agent, which starts and stops nodes
and downloads, or of one command (`client run`, `share` or `download`), which
starts, does its work, waits or leaves. `pc` is where it stands, `due` and
`missed` its heartbeat loop. `shared`, `copy` and `have` are its data directory and
the user's file, and outlive it. `todo` and `choice` are locals of
`download_file`: the swarm is read once (`GetSwarm`), so that which peer will be
asked for each chunk is settled there. `SelectPeer` takes the first peer of the
tracker's order that lists the chunk. `seeds` is history. Faults are lost requests
or answers (`RequestLost`, `BeatLost`), a chunk that no attempt brought
(`RequestLost` too), interrupts and edited files. `MaxDelay` is how late a heartbeat
may be: it waits for the answer to the last one, and for files that `register_file`
or `finalize_download` hash, since these do not yield to the event loop. A node that
has downloaded the file announces it and does not share it, as in the code.

What it shows of the design: leechers advertise chunks they cannot serve, and a
downloader that has finished stays listed as complete until the TTL, even after it
left. Such a peer may be asked before a seed, nobody else is asked after it, and
the call fails. A running node that was pruned never registers again. Hence the
hypotheses of `AllGetTheFile`.

## 3. Runs

| Run | Shows | Bounds |
|---|---|---|
| `TwoFilesTwoPaths` | TypeOK, IInv, TargetsIntact, RecordedHasFile, NoHalfCopyLeft, ImplementsDelivery | 2 jobs, files of 2 chunks and of 1, 2 paths, 1 fault |
| `DownloadResume` | ResumeSound, MismatchOnlyAfterMove, NoIncompleteFinalize, MovedAwayForGood, CallsEnd, ActiveLeadsToMoved | 2 jobs, 1 file of 2 chunks, 1 path, 2 faults, limits of 1 chunk and none |
| `TrackerExpiry` | TypeOK, IInv, KeptAlive, SwarmListsOnlyLive | 1 peer, 2 requests, TTL 2, 5 seconds, delay 1 |
| `TrackerConflict` | NoOrphanState, AcceptedMetadataStands, ImplementsRegistry | 2 peers, 2 requests, 2 metadata, TTL 0, 1 second |
| `AgentNode` | TypeOK, IInv, InfoMatchesNode, CleanShutdown, HandlersEnd, ShutdownEnds, JobsEnd | 2 handlers, 2 jobs, 2 nodes |
| `PeerExchange` | TypeOK, IInv, OnlyHashedBytesSent, UndisturbedRegisters, IntactChunkSent, ImplementsService | 1 path, files of 3 and 4 bytes, chunks of 2 and 4, 2 connections, 1 retry, 1 registration, 1 edit |
| `PeerLiveness` | RequestEnds, StopEnds | the same with chunks of 4, one that is sent, one too large to be; other programs ask for chunk 0 |
| `Swarm` | TypeOK, IInv, AnnouncedHeld, ListedWhileBeating, SeedsAskedFirst, AllGetTheFile | 3 nodes (a seed, an agent, a command), 2 chunks, TTL 1, interval 1, 2 seconds, 1 fault |
| `DownloadCrashAfterMove` | violates ActiveLeadsToCompleted | 1 job, 1 fault |
| `DownloadRetarget` | violates ReturnedMeansDelivered | 2 jobs, 2 paths, no fault |
| `TrackerUpsert` | violates AnnounceUpserts | 2 peers, 2 requests |
| `AgentShutdown` | violates ShutdownStopsNode | 2 handlers, 2 jobs, 2 nodes |

**Why the bounds are enough.** Two jobs on one file reach every pair of program
counters; two chunks give an order and a chunk that is not the last one; limits
1 and none stop a call in the middle or not at all. Two faults allow a crash in
the repair of a crash. What paths and files have to do with each other and what
faults do to one file are two runs, whose product would be too large. A call that has
returned is made again, so the number of calls is not bounded. On the tracker, two requests reach every race between two
statements; TTL 2 with five seconds lets a peer expire, come back and expire
again, while requests are up to one second late. Expiry needs the clock and one
peer, conflicts need two peers and almost no clock: hence two runs. Two sessions
let the agent replace a node once. In `PeerExchange`, three bytes in chunks of two
leave a shorter last chunk, four leave none, and a chunk of four exceeds the frame;
one edit turns a file into the other or removes it at any point; two connections
let a retry overlap the handler of the first attempt, or another program either;
other programs ask for chunks 0 and 2 (`OtherIndex`), of which 2 is beyond every
file. Files that are announced and not shared (`Foreign`) are in `PeerExchange`
alone: for the liveness of a request their refusal is one more answer.
In `Swarm`, three nodes are a seed and two that want the file, one of which may
stand in front of the seed in the order of the swarm; two seconds and a TTL of one
let a node be pruned, and one fault is a lost request to the tracker or to a peer, a
stop or an edit; the number of commands and downloads is not bounded. The names of bounds are
`MaxFaults`, `MaxClock`, `MaxDelay`, `MaxSession`, `Conn`, `OtherIndex`,
`MaxShares` and `MaxEdits`.

**Fairness.** `DownloadStore`: strong fairness of each job's steps, because the
event loop runs every coroutine that is ready, and peers and the tracker are taken
to answer; weak fairness of `Ask`, a user who asks again. Nothing makes a fault
happen or not happen, but there are finitely many. `AgentRuntime`: strong fairness
of handlers and tasks, since `asyncio.Lock` is handed on in order of arrival and
requests have timeouts; that `PeerServer.stop` ends (`StopServer`) is assumed.
Requests need never arrive.
`PeerExchange`: weak fairness of each of the two processes, the client and the
server, whose one event loop runs the handlers and the end of `stop`. All connects
and reads of either have a timeout, so a step comes where a process reads; which
handler takes it is left open, and no handler is assumed to have its turn. Writes of
the server have none: a handler whose data are not read has no step to take, and
fairness gives it none. `request_chunk` writes a hello and a request, which the
buffers always hold. `StopEnds` therefore supposes two things of other programs: that
they fall silent, when the read timeout ends handlers that read, and that each in the
end reads what it asked for or hangs up. Neither can be left out: a program that keeps
sending keepalives, or one that asks for a piece larger than the buffers and falls
silent without reading it, keeps `PeerServer.stop` waiting for ever. The assumption
of `AgentRuntime` comes to these two. `Swarm`: weak fairness of each node's steps and
of a user without the file who tries again; nothing is assumed of time,
heartbeats and faults. `AgentNode` and
`AgentShutdown` do not check deadlock, since after shutdown the process ends; nor
does `Swarm`, where the clock stops at its bound.

### What the violations show

* `DownloadCrashAfterMove`: the move comes before the commit (315, 317-321). A
  crash in between leaves an active row, all chunks complete, no partial file. The
  next call creates one of zeros and fails its hash check, and so does every
  later one. The README of ShardNet promises that downloads continue after a
  restart. (With a file of zeros only, it would succeed.) `MovedAwayForGood`
  says that nothing repairs such a row, and is proved (section 4).
* `DownloadRetarget`: a second call for the same info_hash overwrites
  `target_path`; the first one returns "completed" with nothing at its own path.
* `TrackerUpsert`: two first announces of a file overlap and one of them is
  answered by an IntegrityError, though both agree. The docstring says upsert.
* `AgentShutdown`: a task that finds no node fails outside of its try statement;
  its job stays "running", its entry stays in `_job_tasks`, and the exception later
  aborts `shutdown` before the node is stopped.

## 4. Proofs

`DownloadStoreProofs` proves, for all files, numbers of chunks, contents, paths,
jobs and faults, from the ASSUMEs of `DownloadStore` (paths, markers and contents
are distinct values; at least one chunk per file):

| Theorem | States |
|---|---|
| `Invariance` | `Spec => []IInv` |
| `TypeCorrect` | `[]TypeOK` |
| `ResumeIsSound` | `[]ResumeSound` |
| `FinalizeRejectsOnlyMoved`, `FinalizeFindsAllChunks` | `[]MismatchOnlyAfterMove`, `[]NoIncompleteFinalize` |
| `TargetsStayIntact` | `[]TargetsIntact` |
| `RecordedFileIsThere` | `RecordedHasFile` |
| `NoCopyIsLeftHalf` | `NoHalfCopyLeft` |
| `NothingRepairsMoved` | `MovedAwayForGood` |
| `StrandedNeverRecorded` | once `MovedAway(h)` with an active row, never recorded as completed, unless `h` is all zeros |
| `StoreImplementsDelivery` | `ImplementsDelivery`, the refinement of `Delivery` |

**The argument.** None of these is inductive alone. `IInv` adds three facts.
`LoopExclusive`: between two awaits a job is alone. `RowsInOrder`: a file is moved
only with all its chunks complete, and recorded only after that. `CallKnows` and
`CallSees`: what a coroutine knows at each of its points, of the rows and of the
files. What it knows of rows survives the steps of other jobs, because chunks are
never unmarked and a row never disappears; what it knows of files holds only in
synchronous stretches, where `LoopExclusive` keeps the others out. So a chunk is
in the file when `MarkComplete` runs, the content is verified when it is moved,
and it is still there when the row is committed. `NoIncompleteFinalize` holds
because `whole`, read before an await, says something that cannot become false.
One lemma per group of actions shows `IInv'`; the refinement then has one step
per action, each a step of `Delivery` or a stutter.

`NothingRepairsMoved` and `StrandedNeverRecorded` are about what happens after a move.
TLC finds on one instance that a fault before the commit strands a download
(`DownloadCrashAfterMove`); in every instance, `MovedAway` is left by no step and the
status does not change. With all chunks complete a call has nothing to fetch
(`RowsInOrder`); so the partial file can only be missing or all zeros, and no call gets
past `Verify`. This holds of an active row and of a completed one that is asked for
again: its path is overwritten, its file stays where it was. `MovedAway` asks that no
call of `h` still has a list of missing chunks, since one that began before the move
may write its chunks into the file of zeros, and thus repair it.

`NoCopyIsLeftHalf`: while a call copies no other call runs, since `shutil.move` does not
yield (`LoopExclusive`); so the row keeps its path and the copy is completed there.
After a fault half a file may lie at the target until a later call replaces it, or for
good when that call names another path.

`TrackerStoreProofs` does the same for the tracker, for any peers, files, metadata,
requests in flight, TTL and delay, from the ASSUME of `TrackerStore`:

| Theorem | States |
|---|---|
| `Invariance`, `TypeCorrect` | `[]IInv`, `[]TypeOK` |
| `TablesConsistent`, `MetadataStand` | `[]NoOrphanState`, `[]AcceptedMetadataStands` |
| `AcknowledgedPeersKept` | `KeptAlive` |
| `SwarmsAreLive` | `SwarmListsOnlyLive` |
| `TrackerImplementsRegistry` | `ImplementsRegistry`, the refinement of `TrackerRegistry` |

Its invariant adds what a handler knows between its statements (`HandlerKnows`: the
metadata it compared with are still stored, since nothing changes or deletes a
file), that announced chunks fit the stored metadata (`StateFits`), and how far
the rows lag behind the clock (`InTime`: a handler's `now` is at most `MaxDelay`
old, and an acknowledged time is at most that much ahead of the row). A handler
between SELECT and write knows nothing of its peer any more: that
`NoOrphanState` holds all the same rests on the foreign key alone. In the
refinement the reads are stutters, and the cutoff of a deletion may lie before
the clock began, when it deletes nothing.

`AgentRuntimeProofs` does so for any handlers, jobs and number of sessions, from the
ASSUME of `AgentRuntime`:

| Theorem | States |
|---|---|
| `Invariance`, `TypeCorrect` | `[]IInv`, `[]TypeOK` |
| `InfoAgreesWithNode` | `[]InfoMatchesNode` |
| `ShutdownIsClean` | `[]CleanShutdown` |
| `FailedTaskForbidsShutdown` | once a task ended with an exception, its job is "running" and no shutdown returns |

Its invariant says who may change the node: a handler past its first await holds
the lock (`LockHeld`), so that what it knows of the node at each await stays true
(`HandlerKnows`) until it releases the lock, and then `info` agrees. `TasksKnown`: a
task that is not over has its entry in `_job_tasks`, or, once
`shutdown` began, is in the snapshot it waits for; with `AllAwaited` this leaves
none behind. `Budget` bounds the
starts that have been made and are on their way, which `TypeOK` needs.

The last theorem is about the bug of `AgentShutdown`, in every instance: no step
revives a task that found no node (`ErrorStays`), its job was set to "running" when
it began and only the task would change that (`JobRuns`), and as its entry stays in
`_job_tasks`, `shutdown` cannot return, by `CleanShutdown`.

`ChunkingProofs` is arithmetic, for files and chunk sizes of any length, from the
ASSUME of `Chunking`:

| Theorem | States |
|---|---|
| `WholeFileFits` | what was hashed of a whole file passes `validate_chunk_shape` |
| `FitsOnce` | only one number of chunks passes it, for a size and a chunk size |
| `ServedAsHashed` | `read_chunk`'s offset and size return what was hashed |
| `ChunksMakeTheFile` | each byte of a file is in the chunk, and at the place in it, where `write_chunk` will put it |
| `FramesFit` | if a full chunk fits into a frame, every chunk does |

They rest on `ChunkCount`, that the number of chunks by rounding up is the one
within the bounds which the code checks, and on `ChunkEnds`, that a chunk ends where
the next begins or where the file does. TLC evaluates `Chunking` on files of three
and four bytes; the theorems are why that is no accident of these lengths. The
prover has no induction over data, and none is needed: no operator of `Chunking`
is recursive.

`PeerExchangeProofs` is about any connections, paths, files, chunk sizes, retries,
registrations and edits, from the ASSUMEs of `Chunking`, `ShareStore` and
`PeerExchange`:

| Theorem | States |
|---|---|
| `Invariance`, `TypeCorrect` | `[]IInv`, `[]TypeOK` |
| `OnlyHashedBytesTravel` | `OnlyHashedBytesSent` |
| `WholeFilesRegister` | `UndisturbedRegisters`, by `WholeFileFits` |
| `IntactChunksAreSent` | `IntactChunkSent`, by `ServedAsHashed` |
| `ExchangeImplementsService` | `ImplementsService`, the refinement of `ChunkService` |

The parts of its invariant go along the path of a chunk. `RegKnows`: what a
registration hashed so far is the file up to the offset it has reached, unless the
file was edited meanwhile. `ClientKnows`: the client has a connection exactly while
it waits, and it is open. `QueuesKnown`: nothing lies in a queue that nobody will
read, so that a new connection starts empty. `RequestsKnown`: a request on the way on
the client's connection is for the chunk it wants. `HandlersKnow`: a handler that
reads has found its chunk in the catalogue, and on the client's connection it is
that chunk, while those of earlier attempts and of other programs read whatever
they were asked for. Then data on their way to the client
are the chunk it still wants (`OnlyHashedBytesSent`), which is why comparing neither
info_hash nor index of an answer is safe: it stands and falls with one request per
connection. In the refinement `EndRegister` publishes, `Ask` asks,
`ReceivePiece` delivers, the last `AttemptFails` fails, and all the rest, edits,
retries, other programs and crashes included, are stutters.

`SwarmProofs` does so for any nodes, chunks and faults, any TTL, heartbeat interval
and delay, from the ASSUME of `Swarm`:

| Theorem | States |
|---|---|
| `Invariance`, `TypeCorrect` | `[]IInv`, `[]TypeOK` |
| `AnnouncedAreHeld` | `[]AnnouncedHeld` |
| `BeatingNodesStayListed` | `ListedWhileBeating` |
| `SeedsGoFirst` | `SeedsAskedFirst` |

Its invariant has three parts. `AnnouncedHeld` with `ListedRegistered`, and that a
node about to announce its share has it in its catalogue: chunks and shares are
never lost, so what was announced stays held. `BeatsInTime`: the next heartbeat of
a running node is not overdue, and each failed one lets its row age by one
interval and delay; a row that `get_swarm` prunes is older than the TTL, whence
the number of failures. `LoopKnows`: a download whose swarm had a seed goes to a
seed for every chunk, because whole files come first in the tracker's order; that
order has a first element in every set of peers (`FirstListed`), for which a set
of numbers must have a least one (`Least`).

**Only model-checked.** Liveness under fairness (CallsEnd, ActiveLeadsToMoved,
HandlersEnd, ShutdownEnds, JobsEnd, RequestEnds, StopEnds, AllGetTheFile) is out of
the prover's reach, as are ENABLED, induction over data and recursive operators.
Every invariant, action property and refinement that a passing run checks is
stated by a theorem. The four violations are counterexamples of TLC; those of
`DownloadCrashAfterMove` and `AgentShutdown` are each followed by a proof of what
comes after, in every instance.

## 5. Not modelled

* Power failure: chunks are written without fsync, and the order in which the
  operating system writes its caches back is not in the model.
* Two processes on one data directory in `DownloadStore`: there one event loop
  orders the synchronous sections. (`ShareStore` does allow it.)
* Bytes that are no message of the protocol, and JSON that fails validation.
* `cleanup_stale_peers` of the tracker, which nothing calls.
* The desktop application: it starts and kills the agent and shows what the agent
  reports; each poll replaces what the last one showed.
* The commands that only print a manifest or a status, options, configuration,
  logging, error types, packaging: no state that a property could be about.

The server that a failed start leaves listening is in `AgentRuntime`; in `Swarm` a
failed start ends the process.

## 6. Plan

Done: the modules of section 2 with their runs, and the proofs of section 4. Left:

1. Two processes on one data directory, as jobs of several event loops.
2. What follows the other two findings, as the theorems on stranded files and failed
   tasks do for the first two.
