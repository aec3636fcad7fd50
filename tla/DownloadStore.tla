--------------------------- MODULE DownloadStore ---------------------------
(***************************************************************************)
(* The resumable downloads of one client process: the SQLite rows and the  *)
(* files kept by client/core/download_store.py, driven by the coroutine    *)
(* PeerNode.download_file of client/core/node.py.                          *)
(*                                                                         *)
(* All jobs of a process run on one asyncio event loop: a job gives way to *)
(* another only where it awaits (the tracker, a peer).  Between two awaits *)
(* it is alone, yet a crash may still hit between any two writes to disk,  *)
(* so each such write is a step of its own.                                *)
(*                                                                         *)
(* SHA-256 is taken to be injective: comparing digests is comparing        *)
(* contents.  A manifest is determined by its info_hash (it is the digest  *)
(* of the manifest's fields), so the manifest_mismatch error cannot occur. *)
(***************************************************************************)
EXTENDS Naturals, FiniteSets

CONSTANTS
    InfoHash,     \* the files a user may ask for
    Target,       \* paths a download may be installed at
    Job,          \* concurrent calls of download_file
    TotalChunks,  \* manifest.total_chunks of each info_hash
    Data,         \* what a chunk may hold
    Zero,         \* what truncate() fills a new partial file with
    Torn,         \* a chunk whose write was cut short
    Content,      \* the data of each chunk of each file
    NoFile,       \* no file at this path
    HalfCopied,   \* a target file whose copy was cut short
    NoTarget,     \* target of a download that has no row
    NoLimit,      \* max_chunks=None
    Limit,        \* the values of max_chunks that callers pass
    MaxFaults     \* bound: faults in a behaviour

Chunks(h) == 0 .. (TotalChunks[h] - 1)
PartialFile(h) == [Chunks(h) -> Data \cup {Torn}]

ASSUME ChunksAssumption ==
    /\ InfoHash # {} /\ Target # {}
    /\ TotalChunks \in [InfoHash -> Nat \ {0}]

ASSUME DataAssumption ==
    /\ Zero \in Data
    /\ Torn \notin Data
    /\ DOMAIN Content = InfoHash
    /\ \A h \in InfoHash : Content[h] \in [Chunks(h) -> Data]

ASSUME FileAssumption ==
    /\ NoFile # HalfCopied
    /\ \A h \in InfoHash : {NoFile, HalfCopied} \cap PartialFile(h) = {}

ASSUME LimitAssumption ==
    /\ NoLimit \notin Nat
    /\ Limit \subseteq (Nat \ {0}) \cup {NoLimit}
    /\ MaxFaults \in Nat

VARIABLES
    (* durable: they survive a crash *)
    status,      \* downloads.status, "absent" when there is no row
    targetPath,  \* downloads.target_path
    complete,    \* indexes whose download_chunks.status is 'complete'
    part,        \* the file partials/<info_hash>.part
    file,        \* the files at the target paths
    (* volatile: the coroutines *)
    pc,          \* where each call of download_file stands
    job,         \* its local variables
    (* history and bound *)
    moved,       \* info_hashes whose .part has once been moved to a target
    faults       \* number of faults so far

durable == <<status, targetPath, complete, part, file, moved>>
vars == <<status, targetPath, complete, part, file, pc, job, moved, faults>>

AwaitPc == {"swarm", "request", "progress", "announce", "report"}
SyncPc == {"create", "partial", "write", "flush", "mark",
           "verify", "move", "copying", "unlink", "commit"}
RestPc == {"idle", "returned"}

Result == {"none", "completed", "partial_progress", "file_hash_mismatch",
           "no_partial", "download_incomplete", "error"}

JobRecord ==
    [hash : InfoHash, target : Target, missing : SUBSET Nat, chunk : Nat,
     data : Data, left : Nat \cup {NoLimit}, whole : BOOLEAN, result : Result]

DurableOK ==
    /\ status \in [InfoHash -> {"absent", "active", "completed"}]
    /\ targetPath \in [InfoHash -> Target \cup {NoTarget}]
    /\ complete \in [InfoHash -> SUBSET Nat]
    /\ \A h \in InfoHash : complete[h] \subseteq Chunks(h)
    /\ DOMAIN part = InfoHash
    /\ \A h \in InfoHash : part[h] \in PartialFile(h) \cup {NoFile}
    /\ file \in [Target -> {NoFile, HalfCopied} \cup UNION {PartialFile(h) : h \in InfoHash}]
    /\ moved \subseteq InfoHash

CallsOK ==
    /\ pc \in [Job -> AwaitPc \cup SyncPc \cup RestPc]
    /\ job \in [Job -> JobRecord]
    /\ \A j \in Job : job[j].missing \subseteq Chunks(job[j].hash)

TypeOK == DurableOK /\ CallsOK /\ faults \in 0 .. MaxFaults

Pending(h) == Chunks(h) \ complete[h]
(* Faulty variant: the file is truncated one chunk too long. *)
ZerosTooLong(h) == [c \in 0 .. TotalChunks[h] |-> Zero]

Zeros(h) == [c \in Chunks(h) |-> Zero]

(* The locals of a call of download_file for h at t, before its first step. *)
Call(h, t, limit) ==
    [hash |-> h, target |-> t, missing |-> {}, chunk |-> 0, data |-> Zero,
     left |-> limit, whole |-> FALSE, result |-> "none"]

NoCall == Call(CHOOSE h \in InfoHash : TRUE, CHOOSE t \in Target : TRUE, NoLimit)

-----------------------------------------------------------------------------
Init ==
    /\ status = [h \in InfoHash |-> "absent"]
    /\ targetPath = [h \in InfoHash |-> NoTarget]
    /\ complete = [h \in InfoHash |-> {}]
    /\ part = [h \in InfoHash |-> NoFile]
    /\ file = [t \in Target |-> NoFile]
    /\ pc = [j \in Job |-> "idle"]
    /\ job = [j \in Job |-> NoCall]
    /\ moved = {}
    /\ faults = 0

-----------------------------------------------------------------------------
(* Faulty variant: the store's calls run in threads. *)
LoopShared(j) == TRUE

(* The event loop: j may take a step when no other job is between two of   *)
(* its awaits.                                                             *)
LoopFree(j) == \A k \in Job \ {j} : pc[k] \notin SyncPc

(* j, which stands at from, goes on to to with the locals r. *)
Goes(j, from, to, r) ==
    /\ pc[j] = from
    /\ LoopFree(j)
    /\ pc' = [pc EXCEPT ![j] = to]
    /\ job' = [job EXCEPT ![j] = r]

(* j goes to its end with result; its other locals are of no more use. *)
Ends(j, from, to, result) ==
    Goes(j, from, to, [Call(job[j].hash, job[j].target, NoLimit) EXCEPT !.result = result])

Raises(j, from, error) == Ends(j, from, "returned", error)

(* Faulty variant: the file is opened with "w+b". *)
EnsurePartialTruncates(h) == Zeros(h)

(* _ensure_partial_file: open("a+b") creates the file, truncate() fills it. *)
EnsurePartial(h) == IF part[h] = NoFile THEN Zeros(h) ELSE part[h]

(* A user (through the agent or the CLI) asks for h at t, for at most      *)
(* limit chunks.  A call that has returned is asked for again.             *)
StartDownload(j, h, t, limit) ==
    /\ \E from \in RestPc : Goes(j, from, "swarm", Call(h, t, limit))
    /\ UNCHANGED <<durable, faults>>

(* The tracker answers get_swarm: the manifest is known. *)
GetSwarm(j) ==
    /\ Goes(j, "swarm", "create", job[j])
    /\ UNCHANGED <<durable, faults>>

(* Faulty variant: an existing row is made active again. *)
CreateReopens(j) ==
    LET h == job[j].hash IN
    /\ Goes(j, "create", "partial", job[j])
    /\ status' = [status EXCEPT ![h] = "active"]
    /\ targetPath' = [targetPath EXCEPT ![h] = job[j].target]
    /\ UNCHANGED <<complete, part, file, moved, faults>>

(* create_or_resume_download up to its commit: a new row with all chunks   *)
(* pending, or the existing row, whatever its status, with a new target.   *)
CreateOrResume(j) ==
    LET h == job[j].hash IN
    /\ Goes(j, "create", "partial", job[j])
    /\ status' = [status EXCEPT ![h] = IF @ = "absent" THEN "active" ELSE @]
    /\ targetPath' = [targetPath EXCEPT ![h] = job[j].target]
    /\ UNCHANGED <<complete, part, file, moved, faults>>

(* Faulty variant: with nothing missing, a chunk is waited for all the same. *)
OpenPartialWaits(j) ==
    LET h == job[j].hash IN
    /\ Goes(j, "partial", "request", [job[j] EXCEPT !.missing = Pending(h)])
    /\ part' = [part EXCEPT ![h] = EnsurePartial(h)]
    /\ UNCHANGED <<status, targetPath, complete, file, moved, faults>>

(* _ensure_partial_file and get_progress, at the end of create_or_resume. *)
OpenPartial(j) ==
    LET h == job[j].hash IN
    /\ Goes(j, "partial", IF Pending(h) = {} THEN "announce" ELSE "request",
            [job[j] EXCEPT !.missing = Pending(h), !.whole = Pending(h) = {}])
    /\ part' = [part EXCEPT ![h] = EnsurePartial(h)]
    /\ UNCHANGED <<status, targetPath, complete, file, moved, faults>>

(* Faulty variant: chunks are stored unchecked. *)
ChunkUnchecked(h, c, d) == TRUE

(* write_chunk's size and SHA-256 checks, which come before any write. *)
ChunkAccepted(h, c, d) == d = Content[h][c]

(* A peer answers the request for the first missing chunk of the list. *)
ReceiveChunk(j, c, d) ==
    /\ c \in job[j].missing
    /\ \A e \in job[j].missing : c <= e
    /\ ChunkAccepted(job[j].hash, c, d)
    /\ Goes(j, "request", "write", [job[j] EXCEPT !.chunk = c, !.data = d])
    /\ UNCHANGED <<durable, faults>>

(* The write reaches the disk in two steps: a crash between them leaves    *)
(* the chunk torn, unless the bytes it overwrites were the same.           *)
BeginWrite(j) ==
    LET h == job[j].hash
        c == job[j].chunk
        old == EnsurePartial(h) IN
    /\ Goes(j, "write", "flush", job[j])
    /\ part' = [part EXCEPT ![h] =
                   [old EXCEPT ![c] = IF @ = job[j].data THEN @ ELSE Torn]]
    /\ UNCHANGED <<status, targetPath, complete, file, moved, faults>>

EndWrite(j) ==
    /\ Goes(j, "flush", "mark", job[j])
    /\ part' = [part EXCEPT ![job[j].hash][job[j].chunk] = job[j].data]
    /\ UNCHANGED <<status, targetPath, complete, file, moved, faults>>

(* The UPDATE and commit that end write_chunk. *)
MarkComplete(j) ==
    LET h == job[j].hash
        c == job[j].chunk IN
    /\ Goes(j, "mark", "progress",
            [job[j] EXCEPT !.missing = @ \ {c}, !.chunk = 0, !.data = Zero])
    /\ complete' = [complete EXCEPT ![h] = @ \cup {c}]
    /\ UNCHANGED <<status, targetPath, part, file, moved, faults>>

Spend(left) == IF left = NoLimit THEN NoLimit ELSE left - 1

(* The progress callback, which may wait for the agent's lock, is over.    *)
(* The loop goes on to the next missing chunk, or ends when there is none  *)
(* or max_chunks were stored; `current` is then read.                      *)
EndIteration(j) ==
    LET left == Spend(job[j].left)
        ends == job[j].missing = {} \/ left = 0 IN
    /\ Goes(j, "progress", IF ends THEN "announce" ELSE "request",
            [job[j] EXCEPT !.left = left, !.whole = ends /\ Pending(job[j].hash) = {}])
    /\ UNCHANGED <<durable, faults>>

(* Faulty variant: every call goes on to finalize. *)
AnnounceThenFinalize(j) ==
    /\ Goes(j, "announce", "verify", job[j])
    /\ UNCHANGED <<durable, faults>>

(* The tracker acknowledges announce_file.  Whether to finalize is decided *)
(* by `current`, read before this await.                                   *)
Announce(j) ==
    /\ IF job[j].whole
       THEN Goes(j, "announce", "verify", job[j])
       ELSE Ends(j, "announce", "report", "partial_progress")
    /\ UNCHANGED <<durable, faults>>

(* Faulty variant: the hash of the whole file is not compared. *)
VerdictByRows(h) ==
    IF Pending(h) # {} THEN "download_incomplete"
    ELSE IF part[h] = NoFile THEN "no_partial"
    ELSE "none"

(* finalize_download up to the SHA-256 of the partial file. *)
Verdict(h) ==
    IF Pending(h) # {} THEN "download_incomplete"
    ELSE IF part[h] = NoFile THEN "no_partial"
    ELSE IF part[h] # Content[h] THEN "file_hash_mismatch"
    ELSE "none"

(* Faulty variant: the row is updated before the file is moved. *)
VerifyThenCommit(j) ==
    LET verdict == Verdict(job[j].hash) IN
    /\ IF verdict = "none"
       THEN Goes(j, "verify", "commit", job[j])
       ELSE Raises(j, "verify", verdict)
    /\ UNCHANGED <<durable, faults>>

Verify(j) ==
    LET verdict == Verdict(job[j].hash) IN
    /\ IF verdict = "none"
       THEN Goes(j, "verify", "move", job[j])
       ELSE Raises(j, "verify", verdict)
    /\ UNCHANGED <<durable, faults>>

(* shutil.move within one file system: a single rename. *)
MoveByRename(j) ==
    LET h == job[j].hash IN
    /\ Goes(j, "move", "commit", job[j])
    /\ file' = [file EXCEPT ![targetPath[h]] = part[h]]
    /\ part' = [part EXCEPT ![h] = NoFile]
    /\ moved' = moved \cup {h}
    /\ UNCHANGED <<status, targetPath, complete, faults>>

(* shutil.move across file systems: a copy, then the unlink of the source. *)
BeginCopy(j) ==
    /\ Goes(j, "move", "copying", job[j])
    /\ file' = [file EXCEPT ![targetPath[job[j].hash]] = HalfCopied]
    /\ UNCHANGED <<status, targetPath, complete, part, moved, faults>>

EndCopy(j) ==
    LET h == job[j].hash IN
    /\ Goes(j, "copying", "unlink", job[j])
    /\ file' = [file EXCEPT ![targetPath[h]] = part[h]]
    /\ UNCHANGED <<status, targetPath, complete, part, moved, faults>>

UnlinkPartial(j) ==
    LET h == job[j].hash IN
    /\ Goes(j, "unlink", "commit", job[j])
    /\ part' = [part EXCEPT ![h] = NoFile]
    /\ moved' = moved \cup {h}
    /\ UNCHANGED <<status, targetPath, complete, file, faults>>

(* UPDATE downloads SET status = 'completed' and its commit. *)
CommitCompleted(j) ==
    /\ Ends(j, "commit", "report", "completed")
    /\ status' = [status EXCEPT ![job[j].hash] = "completed"]
    /\ UNCHANGED <<targetPath, complete, part, file, moved, faults>>

(* The last progress callback is over and download_file returns. *)
Return(j) ==
    /\ Goes(j, "report", "returned", job[j])
    /\ UNCHANGED <<durable, faults>>

-----------------------------------------------------------------------------
(* Faults.  MaxFaults bounds them all. *)
Fault == faults < MaxFaults /\ faults' = faults + 1

(* An awaited tracker or peer call fails or is cancelled, no listed peer   *)
(* has the chunk, or the chunk a peer sent is not the one in the manifest. *)
AwaitFails(j) ==
    /\ Fault
    /\ \E from \in AwaitPc : Raises(j, from, "error")
    /\ UNCHANGED durable

(* An I/O or SQLite call raises: what is already on disk stays there, and  *)
(* `with conn` rolls back what is not committed.                           *)
DiskFails(j) ==
    /\ Fault
    /\ \E from \in SyncPc : Raises(j, from, "error")
    /\ UNCHANGED durable

(* The process dies; all that is durable stays. *)
Crash ==
    /\ Fault
    /\ \E j \in Job : pc[j] # "idle"
    /\ pc' = [j \in Job |-> "idle"]
    /\ job' = [j \in Job |-> NoCall]
    /\ UNCHANGED durable

Finalize(j) ==
    \/ Verify(j)
    \/ MoveByRename(j)
    \/ BeginCopy(j)
    \/ EndCopy(j)
    \/ UnlinkPartial(j)
    \/ CommitCompleted(j)

DownloadStep(j) ==
    \/ GetSwarm(j)
    \/ CreateOrResume(j)
    \/ OpenPartial(j)
    \/ \E c \in job[j].missing, d \in Data : ReceiveChunk(j, c, d)
    \/ BeginWrite(j)
    \/ EndWrite(j)
    \/ MarkComplete(j)
    \/ EndIteration(j)
    \/ Announce(j)
    \/ Finalize(j)
    \/ Return(j)

Ask(j) == \E h \in InfoHash, t \in Target, limit \in Limit : StartDownload(j, h, t, limit)

Next ==
    \/ \E j \in Job : Ask(j) \/ DownloadStep(j) \/ AwaitFails(j) \/ DiskFails(j)
    \/ Crash

Spec == Init /\ [][Next]_vars

(* The event loop runs every job that can go on, peers and the tracker     *)
(* answer, and a user whose call has returned asks again.                  *)
Fairness == \A j \in Job : SF_vars(DownloadStep(j)) /\ WF_vars(Ask(j))

FairSpec == Spec /\ Fairness

-----------------------------------------------------------------------------
(* Resuming is sound: until a partial file has been moved, every chunk its *)
(* row calls complete is in the file, whole and right, after any crash,    *)
(* I/O error or interleaving of jobs (write_chunk writes, then marks).     *)
ResumeSound ==
    \A h \in InfoHash \ moved : \A c \in complete[h] :
        part[h] # NoFile /\ part[h][c] = Content[h][c]

(* finalize_download can only reject a partial file all of whose chunks    *)
(* were accepted one by one when that file has been moved away before.     *)
MismatchOnlyAfterMove ==
    \A j \in Job :
        job[j].result \in {"file_hash_mismatch", "no_partial"} => job[j].hash \in moved

(* The decision to finalize is read before the await of announce_file, and *)
(* is still right after it: no call ends with download_incomplete.         *)
NoIncompleteFinalize == \A j \in Job : job[j].result # "download_incomplete"

(* A target path holds nothing, a copy that runs or was cut short, or a    *)
(* file of the right content: none with zeros or a torn chunk is installed *)
(* (finalize_download checks before it moves).                             *)
TargetsIntact ==
    \A t \in Target : file[t] \in {NoFile, HalfCopied} \cup {Content[h] : h \in InfoHash}

(* A copy cut short lies at a target only while a call is copying there,   *)
(* or since a fault: no other call gives the row another path meanwhile.   *)
NoHalfCopyLeft ==
    \A t \in Target : file[t] = HalfCopied /\ faults = 0 =>
        \E j \in Job : pc[j] = "copying" /\ targetPath[job[j].hash] = t

(* When a row becomes completed, the file is whole at the path it names,   *)
(* though other calls may have changed that path since the chunks came in. *)
RecordedHasFile ==
    [][\A h \in InfoHash :
          status[h] # "completed" /\ status'[h] = "completed"
             => file'[targetPath'[h]] = Content[h]]_vars

(* The partial file of h was moved away, and no call of h is about to write *)
(* or to commit, or knows of chunks to fetch.  Its row is "completed", or  *)
(* "active" when a fault came between the move and the commit.             *)
MovedAway(h) ==
    /\ h \in moved /\ part[h] # Content[h]
    /\ \A j \in Job : job[j].hash = h =>
          job[j].missing = {} /\ pc[j] \notin {"write", "flush", "mark", "commit"}

(* Such a download stays as it is, however often it is asked for again:    *)
(* with all its chunks complete no call fetches any of them, and the file  *)
(* of zeros that takes the place of the one moved never passes the hash    *)
(* check of finalize_download.  So an active row is never completed, and a *)
(* completed one names what path it is given, but h is not moved there.    *)
MovedAwayForGood ==
    [][\A h \in InfoHash :
          MovedAway(h) /\ Content[h] # Zeros(h) => MovedAway(h)' /\ status'[h] = status[h]]_vars

(* Every call of download_file comes to an end. *)
CallsEnd == \A j \in Job : pc[j] = "swarm" ~> pc[j] \in RestPc

(* A download that was begun is in the end moved to a target, provided the *)
(* user asks again after each failure and the faults stop.                 *)
ActiveLeadsToMoved == \A h \in InfoHash : status[h] = "active" ~> h \in moved

(* README: partial downloads persist and continue after a node restart.    *)
(* So a download that was begun is in the end recorded as completed.       *)
ActiveLeadsToCompleted == \A h \in InfoHash : status[h] = "active" ~> status[h] = "completed"

(* test_node_e2e.py: a call that returns "completed" left the file at the  *)
(* target path the caller gave.                                            *)
ReturnedMeansDelivered ==
    [][\A j \in Job :
          pc[j] # "returned" /\ pc'[j] = "returned" /\ job'[j].result = "completed"
             => file'[job[j].target] = Content[job[j].hash]]_vars

-----------------------------------------------------------------------------
(* The inductive invariant behind the safety properties. *)

(* Between two awaits a job is alone on the event loop. *)
LoopExclusive == \A j, k \in Job : j # k /\ pc[j] \in SyncPc => pc[k] \notin SyncPc

(* A partial file is moved only when all chunks are complete, and a row is *)
(* completed only after that.                                              *)
RowsInOrder ==
    \A h \in InfoHash :
        /\ h \in moved => status[h] # "absent" /\ complete[h] = Chunks(h)
        /\ status[h] = "completed" => h \in moved

AfterCreate == {"partial", "request", "write", "flush", "mark", "progress", "announce",
                "verify", "move", "copying", "unlink", "commit"}

InLoop == {"swarm", "create", "partial", "request", "write", "flush", "mark",
           "progress"}

(* What a call knows of the rows when it stands at pc. *)
CallKnows(j) ==
    LET h == job[j].hash IN
    /\ pc[j] \in AfterCreate => status[h] # "absent" /\ targetPath[h] \in Target
    /\ pc[j] \in {"write", "flush", "mark"} =>
          job[j].chunk \in Chunks(h) /\ job[j].data = Content[h][job[j].chunk]
    /\ pc[j] \in InLoop => job[j].left # 0
    /\ job[j].whole => Chunks(h) \subseteq complete[h]
    /\ pc[j] \in {"verify", "move", "copying", "unlink", "commit"} => job[j].whole
    /\ job[j].result # "download_incomplete"
    /\ job[j].result \in {"file_hash_mismatch", "no_partial"} => h \in moved

(* What it knows of the files: nobody else is writing them. *)
CallSees(j) ==
    LET h == job[j].hash IN
    /\ pc[j] \in {"flush", "mark"} => part[h] # NoFile
    /\ pc[j] = "mark" => part[h][job[j].chunk] = Content[h][job[j].chunk]
    /\ pc[j] \in {"move", "copying", "unlink"} => part[h] = Content[h]
    /\ pc[j] \in {"unlink", "commit"} => file[targetPath[h]] = Content[h]
    /\ pc[j] = "commit" => h \in moved

IInv ==
    /\ TypeOK
    /\ LoopExclusive
    /\ RowsInOrder
    /\ ResumeSound
    /\ TargetsIntact
    /\ \A j \in Job : CallKnows(j)
    /\ \A j \in Job : CallSees(j)

-----------------------------------------------------------------------------
(* The promise the store keeps: it implements Delivery. *)
Phase(h) ==
    IF status[h] = "completed" THEN "recorded"
    ELSE IF h \in moved THEN "installed"
    ELSE IF status[h] = "active" THEN "fetching"
    ELSE "absent"

D == INSTANCE Delivery WITH have <- complete, phase <- [h \in InfoHash |-> Phase(h)]

(* The store implements its promise: see Delivery. *)
ImplementsDelivery == D!Spec
=============================================================================
