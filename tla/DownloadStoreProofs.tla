------------------------ MODULE DownloadStoreProofs ------------------------
(***************************************************************************)
(* Proofs about DownloadStore: IInv is an inductive invariant, the safety  *)
(* properties follow from it, and the store implements Delivery.           *)
(***************************************************************************)
EXTENDS DownloadStore, TLAPS

(* A fresh call is well typed. *)
LEMMA CallTyped ==
    ASSUME NEW h \in InfoHash, NEW t \in Target, NEW limit \in Nat \cup {NoLimit}
    PROVE  /\ Call(h, t, limit) \in JobRecord
           /\ Call(h, t, limit).hash = h
           /\ Call(h, t, limit).missing = {}
           /\ Call(h, t, limit).left = limit
           /\ ~ Call(h, t, limit).whole
           /\ Call(h, t, limit).result = "none"
  BY DataAssumption DEF Call, JobRecord, Result

LEMMA NoCallTyped == \E h \in InfoHash, t \in Target : NoCall = Call(h, t, NoLimit)
  BY ChunksAssumption DEF NoCall

-----------------------------------------------------------------------------
(* What a step of j on the event loop does to the calls: j goes on, the    *)
(* others stand where they stood, none of them between two of its awaits.  *)
LEMMA GoesFacts ==
    ASSUME CallsOK, NEW j \in Job, NEW from, NEW to, NEW r, Goes(j, from, to, r)
    PROVE  /\ pc[j] = from
           /\ pc'[j] = to
           /\ job'[j] = r
           /\ \A k \in Job : k # j =>
                 pc'[k] = pc[k] /\ job'[k] = job[k] /\ pc[k] \notin SyncPc
  BY DEF Goes, LoopFree, CallsOK

LEMMA GoesTyped ==
    ASSUME CallsOK, NEW j \in Job, NEW from, NEW r,
           NEW to \in AwaitPc \cup SyncPc \cup RestPc, Goes(j, from, to, r),
           r \in JobRecord, r.missing \subseteq Chunks(r.hash)
    PROVE  CallsOK'
  <1>1. pc' \in [Job -> AwaitPc \cup SyncPc \cup RestPc]
    BY DEF Goes, CallsOK
  <1>2. job' \in [Job -> JobRecord]
    BY DEF Goes, CallsOK
  <1>3. ASSUME NEW k \in Job
        PROVE  job'[k].missing \subseteq Chunks(job'[k].hash)
    BY GoesFacts DEF CallsOK
  <1>. QED  BY <1>1, <1>2, <1>3 DEF CallsOK, Chunks

(* The rows only advance: what a call knew of them stays true. *)
RowsAdvance ==
    /\ moved \subseteq moved'
    /\ \A h \in InfoHash :
          /\ complete[h] \subseteq complete'[h]
          /\ status[h] # "absent" => status'[h] # "absent"
          /\ targetPath[h] \in Target => targetPath'[h] \in Target

(* A step of j that only advances the rows disturbs no other call. *)
LEMMA OthersKeep ==
    ASSUME IInv, NEW j \in Job, NEW from, NEW to, NEW r, Goes(j, from, to, r),
           RowsAdvance
    PROVE  /\ LoopExclusive'
           /\ \A k \in Job \ {j} : CallKnows(k)' /\ CallSees(k)'
  <1>. USE GoesFacts DEF IInv, TypeOK
  <1>1. LoopExclusive'
    BY DEF LoopExclusive
  <1>2. ASSUME NEW k \in Job \ {j}
        PROVE  CallKnows(k)'
    <2>1. job[k].hash \in InfoHash
      BY DEF CallsOK, JobRecord
    <2>2. CallKnows(k) /\ pc'[k] = pc[k] /\ job'[k] = job[k]
      OBVIOUS
    <2>. QED  BY <2>1, <2>2 DEF CallKnows, RowsAdvance, Chunks
  <1>3. ASSUME NEW k \in Job \ {j}
        PROVE  CallSees(k)'
    BY DEF CallSees, SyncPc
  <1>. QED  BY <1>1, <1>2, <1>3

(* What remains to be shown of a step of j that only advances the rows. *)
LEMMA StepPreserves ==
    ASSUME IInv, NEW j \in Job, NEW from, NEW r,
           NEW to \in AwaitPc \cup SyncPc \cup RestPc, Goes(j, from, to, r),
           r \in JobRecord, r.missing \subseteq Chunks(r.hash),
           RowsAdvance, DurableOK', faults' \in 0 .. MaxFaults,
           RowsInOrder', ResumeSound', TargetsIntact', CallKnows(j)', CallSees(j)'
    PROVE  IInv'
  <1>1. CallsOK'
    BY GoesTyped DEF IInv, TypeOK
  <1>2. LoopExclusive' /\ \A k \in Job \ {j} : CallKnows(k)' /\ CallSees(k)'
    BY OthersKeep
  <1>. QED  BY <1>1, <1>2 DEF IInv, TypeOK

(* A step that writes nothing to disk. *)
LEMMA DurableUnchanged ==
    ASSUME IInv, UNCHANGED durable
    PROVE  RowsAdvance /\ DurableOK' /\ RowsInOrder' /\ ResumeSound' /\ TargetsIntact'
  BY DEF IInv, TypeOK, durable, RowsAdvance, DurableOK, RowsInOrder, ResumeSound,
         TargetsIntact, Chunks, PartialFile

LEMMA VolatileStep ==
    ASSUME IInv, UNCHANGED durable, NEW j \in Job, NEW from, NEW r,
           NEW to \in AwaitPc \cup SyncPc \cup RestPc, Goes(j, from, to, r),
           r \in JobRecord, r.missing \subseteq Chunks(r.hash),
           faults' \in 0 .. MaxFaults, CallKnows(j)', CallSees(j)'
    PROVE  IInv'
  BY StepPreserves, DurableUnchanged

(* A call that comes to its end, for whatever reason, with nothing written. *)
LEMMA EndPreserves ==
    ASSUME IInv, UNCHANGED durable, NEW j \in Job, NEW from,
           NEW to \in {"report", "returned"},
           NEW result \in Result, Ends(j, from, to, result),
           faults' \in 0 .. MaxFaults, result # "download_incomplete",
           result \in {"file_hash_mismatch", "no_partial"} => job[j].hash \in moved
    PROVE  IInv'
  <1>. DEFINE r == [Call(job[j].hash, job[j].target, NoLimit) EXCEPT !.result = result]
  <1>1. job[j].hash \in InfoHash /\ job[j].target \in Target
    BY DEF IInv, TypeOK, CallsOK, JobRecord
  <1>2. /\ r \in JobRecord /\ r.hash = job[j].hash /\ r.missing = {}
        /\ ~ r.whole /\ r.result = result
    BY <1>1, CallTyped DEF JobRecord
  <1>. HIDE DEF r
  <1>3. Goes(j, from, to, r)
    BY DEF Ends, r
  <1>4. pc'[j] = to /\ job'[j] = r
    BY <1>3, GoesFacts DEF IInv, TypeOK
  <1>5. CallKnows(j)' /\ CallSees(j)'
    BY <1>2, <1>4 DEF CallKnows, CallSees, AfterCreate, InLoop, durable
  <1>. QED  BY <1>2, <1>3, <1>5, VolatileStep DEF RestPc, AwaitPc

-----------------------------------------------------------------------------
(* The initial states, and the steps that write nothing to disk. *)
LEMMA InitInv == Init => IInv
  <1>. SUFFICES ASSUME Init PROVE IInv
    OBVIOUS
  <1>. USE DEF Init
  <1>1. PICK h \in InfoHash, t \in Target : NoCall = Call(h, t, NoLimit)
    BY NoCallTyped
  <1>2. CallsOK
    BY <1>1, CallTyped DEF CallsOK, RestPc
  <1>3. TypeOK
    BY <1>2, LimitAssumption DEF TypeOK, DurableOK
  <1>4. LoopExclusive /\ RowsInOrder /\ ResumeSound /\ TargetsIntact
    BY DEF LoopExclusive, RowsInOrder, ResumeSound, TargetsIntact, SyncPc
  <1>5. ASSUME NEW j \in Job PROVE CallKnows(j) /\ CallSees(j)
    BY <1>1, CallTyped DEF CallKnows, CallSees, AfterCreate, InLoop
  <1>. QED  BY <1>3, <1>4, <1>5 DEF IInv

LEMMA StartDownloadInv ==
    ASSUME IInv, NEW j \in Job, NEW h \in InfoHash, NEW t \in Target,
           NEW limit \in Limit, StartDownload(j, h, t, limit)
    PROVE  IInv'
  <1>1. PICK from \in RestPc : Goes(j, from, "swarm", Call(h, t, limit))
    BY DEF StartDownload
  <1>. DEFINE r == Call(h, t, limit)
  <1>2. /\ r \in JobRecord /\ r.missing = {} /\ r.left # 0
        /\ ~ r.whole /\ r.result = "none"
    BY CallTyped, LimitAssumption
  <1>. HIDE DEF r
  <1>3. pc'[j] = "swarm" /\ job'[j] = r
    BY <1>1, GoesFacts DEF IInv, TypeOK, r
  <1>4. CallKnows(j)' /\ CallSees(j)'
    BY <1>2, <1>3 DEF CallKnows, CallSees, AfterCreate
  <1>5. UNCHANGED durable /\ faults' \in 0 .. MaxFaults
    BY DEF StartDownload, IInv, TypeOK
  <1>. QED  BY <1>1, <1>2, <1>4, <1>5, VolatileStep DEF AwaitPc, r

LEMMA GetSwarmInv ==
    ASSUME IInv, NEW j \in Job, GetSwarm(j)
    PROVE  IInv'
  <1>1. Goes(j, "swarm", "create", job[j]) /\ UNCHANGED durable
    BY DEF GetSwarm
  <1>2. job[j] \in JobRecord /\ job[j].missing \subseteq Chunks(job[j].hash)
    BY DEF IInv, TypeOK, CallsOK
  <1>3. pc[j] = "swarm" /\ pc'[j] = "create" /\ job'[j] = job[j]
    BY <1>1, GoesFacts DEF IInv, TypeOK
  <1>4. CallKnows(j)' /\ CallSees(j)'
    BY <1>1, <1>3 DEF IInv, CallKnows, CallSees, AfterCreate, InLoop, durable, Chunks
  <1>5. faults' \in 0 .. MaxFaults
    BY DEF GetSwarm, IInv, TypeOK
  <1>. QED  BY <1>1, <1>2, <1>4, <1>5, VolatileStep DEF SyncPc

LEMMA ReceiveChunkInv ==
    ASSUME IInv, NEW j \in Job, NEW c \in job[j].missing, NEW d \in Data,
           ReceiveChunk(j, c, d)
    PROVE  IInv'
  <1>. DEFINE h == job[j].hash
  <1>. DEFINE r == [job[j] EXCEPT !.chunk = c, !.data = d]
  <1>1. Goes(j, "request", "write", r) /\ UNCHANGED durable /\ d = Content[h][c]
    BY DEF ReceiveChunk, ChunkAccepted
  <1>2. /\ job[j] \in JobRecord /\ job[j].missing \subseteq Chunks(h)
        /\ h \in InfoHash /\ Chunks(h) \subseteq Nat /\ c \in Nat
    BY DEF IInv, TypeOK, CallsOK, JobRecord, Chunks
  <1>3. /\ r \in JobRecord /\ r.hash = h /\ r.missing = job[j].missing
        /\ r.left = job[j].left /\ r.chunk = c /\ r.data = d /\ r.whole = job[j].whole
        /\ r.result = job[j].result
    BY <1>2 DEF JobRecord
  <1>. HIDE DEF r
  <1>4. pc[j] = "request" /\ pc'[j] = "write" /\ job'[j] = r
    BY <1>1, GoesFacts DEF IInv, TypeOK
  <1>5. CallKnows(j)' /\ CallSees(j)'
    BY <1>1, <1>2, <1>3, <1>4
    DEF IInv, CallKnows, CallSees, AfterCreate, InLoop, durable, Chunks
  <1>6. faults' \in 0 .. MaxFaults
    BY DEF ReceiveChunk, IInv, TypeOK
  <1>. QED  BY <1>1, <1>2, <1>3, <1>5, <1>6, VolatileStep DEF SyncPc

LEMMA EndIterationInv ==
    ASSUME IInv, NEW j \in Job, EndIteration(j)
    PROVE  IInv'
  <1>. DEFINE h == job[j].hash
              left == Spend(job[j].left)
              ends == job[j].missing = {} \/ left = 0
              whole == ends /\ Pending(h) = {}
              r == [job[j] EXCEPT !.left = left, !.whole = whole]
              to == IF ends THEN "announce" ELSE "request"
  <1>1. Goes(j, "progress", to, r) /\ UNCHANGED durable
    BY DEF EndIteration
  <1>2. pc[j] = "progress" /\ pc'[j] = to /\ job'[j] = r
    BY <1>1, GoesFacts DEF IInv, TypeOK
  <1>3. job[j] \in JobRecord /\ job[j].missing \subseteq Chunks(h)
    BY DEF IInv, TypeOK, CallsOK
  <1>4. left \in Nat \cup {NoLimit}
    BY <1>2, <1>3 DEF Spend, JobRecord, IInv, CallKnows, InLoop
  <1>5. /\ r \in JobRecord /\ r.hash = h /\ r.missing = job[j].missing /\ r.left = left
        /\ r.whole => Pending(h) = {}
        /\ r.result = job[j].result
    <2>1. PICK w \in BOOLEAN : w = whole
      OBVIOUS
    <2>2. r = [job[j] EXCEPT !.left = left, !.whole = w]
      BY <2>1, Zenon
    <2>. HIDE DEF r, left, ends
    <2>. QED  BY <1>3, <1>4, <2>1, <2>2 DEF JobRecord
  <1>. HIDE DEF r, left
  <1>6. CallKnows(j)' /\ CallSees(j)'
    BY <1>1, <1>2, <1>3, <1>5
    DEF IInv, CallKnows, CallSees, AfterCreate, InLoop, durable, Chunks, Pending
  <1>7. faults' \in 0 .. MaxFaults
    BY DEF EndIteration, IInv, TypeOK
  <1>. QED  BY <1>1, <1>3, <1>5, <1>6, <1>7, VolatileStep DEF AwaitPc

LEMMA ReturnInv ==
    ASSUME IInv, NEW j \in Job, Return(j)
    PROVE  IInv'
  <1>1. Goes(j, "report", "returned", job[j]) /\ UNCHANGED durable
    BY DEF Return
  <1>2. job[j] \in JobRecord /\ job[j].missing \subseteq Chunks(job[j].hash)
    BY DEF IInv, TypeOK, CallsOK
  <1>3. pc[j] = "report" /\ pc'[j] = "returned" /\ job'[j] = job[j]
    BY <1>1, GoesFacts DEF IInv, TypeOK
  <1>4. CallKnows(j)' /\ CallSees(j)'
    BY <1>1, <1>3 DEF IInv, CallKnows, CallSees, AfterCreate, InLoop, durable, Chunks
  <1>5. faults' \in 0 .. MaxFaults
    BY DEF Return, IInv, TypeOK
  <1>. QED  BY <1>1, <1>2, <1>4, <1>5, VolatileStep DEF RestPc

LEMMA AnnounceInv ==
    ASSUME IInv, NEW j \in Job, Announce(j)
    PROVE  IInv'
  <1>1. UNCHANGED durable /\ faults' \in 0 .. MaxFaults
    BY DEF Announce, IInv, TypeOK
  <1>2. CASE job[j].whole
    <2>1. Goes(j, "announce", "verify", job[j])
      BY <1>2 DEF Announce
    <2>2. job[j] \in JobRecord /\ job[j].missing \subseteq Chunks(job[j].hash)
      BY DEF IInv, TypeOK, CallsOK
    <2>3. pc[j] = "announce" /\ pc'[j] = "verify" /\ job'[j] = job[j]
      BY <2>1, GoesFacts DEF IInv, TypeOK
    <2>4. CallKnows(j)' /\ CallSees(j)'
      BY <1>1, <1>2, <2>3 DEF IInv, CallKnows, CallSees, AfterCreate, InLoop, durable, Chunks
    <2>. QED  BY <1>1, <2>1, <2>2, <2>4, VolatileStep DEF SyncPc
  <1>3. CASE ~ job[j].whole
    BY <1>1, <1>3, EndPreserves DEF Announce, Result
  <1>. QED  BY <1>2, <1>3

(* A partial file that was never moved and whose chunks are all complete   *)
(* has the hash of the manifest: the one place where ResumeSound matters.  *)
LEMMA WholePartial ==
    ASSUME IInv, NEW h \in InfoHash \ moved, Pending(h) = {}
    PROVE  part[h] # NoFile /\ part[h] = Content[h]
  <1>1. \A c \in Chunks(h) : part[h] # NoFile /\ part[h][c] = Content[h][c]
    BY DEF IInv, ResumeSound, Pending
  <1>2. 0 \in Chunks(h)
    BY ChunksAssumption DEF Chunks
  <1>3. part[h] \in PartialFile(h) /\ Content[h] \in [Chunks(h) -> Data]
    BY <1>1, <1>2, DataAssumption DEF IInv, TypeOK, DurableOK
  <1>. QED  BY <1>1, <1>2, <1>3 DEF PartialFile

LEMMA VerifyInv ==
    ASSUME IInv, NEW j \in Job, Verify(j)
    PROVE  IInv'
  <1>. DEFINE h == job[j].hash
  <1>1. UNCHANGED durable /\ faults' \in 0 .. MaxFaults
    BY DEF Verify, IInv, TypeOK
  <1>2. job[j] \in JobRecord /\ job[j].missing \subseteq Chunks(h) /\ h \in InfoHash
    BY DEF IInv, TypeOK, CallsOK, JobRecord
  <1>3. pc[j] = "verify"
    BY DEF Verify, Raises, Ends, Goes
  <1>4. Pending(h) = {}
    BY <1>3 DEF IInv, CallKnows, Pending
  <1>5. CASE Verdict(h) = "none"
    <2>1. Goes(j, "verify", "move", job[j]) /\ part[h] = Content[h]
      BY <1>4, <1>5 DEF Verify, Verdict
    <2>2. pc'[j] = "move" /\ job'[j] = job[j]
      BY <2>1, GoesFacts DEF IInv, TypeOK
    <2>3. CallKnows(j)' /\ CallSees(j)'
      BY <1>1, <1>3, <2>1, <2>2
      DEF IInv, CallKnows, CallSees, AfterCreate, InLoop, durable, Chunks
    <2>. QED  BY <1>1, <1>2, <2>1, <2>3, VolatileStep DEF SyncPc
  <1>6. CASE Verdict(h) # "none"
    <2>1. Verdict(h) \in {"no_partial", "file_hash_mismatch"} /\ h \in moved
      BY <1>2, <1>4, <1>6, WholePartial DEF Verdict
    <2>2. Ends(j, "verify", "returned", Verdict(h))
      BY <1>6 DEF Verify, Raises
    <2>. QED  BY <1>1, <2>1, <2>2, EndPreserves DEF Result
  <1>. QED  BY <1>5, <1>6

LEMMA FailureInv ==
    ASSUME IInv, NEW j \in Job, AwaitFails(j) \/ DiskFails(j)
    PROVE  IInv'
  <1>1. UNCHANGED durable /\ faults' \in 0 .. MaxFaults
    BY LimitAssumption DEF AwaitFails, DiskFails, Fault, IInv, TypeOK
  <1>2. PICK from : Ends(j, from, "returned", "error")
    BY DEF AwaitFails, DiskFails, Raises
  <1>. QED  BY <1>1, <1>2, EndPreserves DEF Result

LEMMA CrashInv ==
    ASSUME IInv, Crash
    PROVE  IInv'
  <1>. USE DEF Crash
  <1>1. PICK h \in InfoHash, t \in Target : NoCall = Call(h, t, NoLimit)
    BY NoCallTyped
  <1>2. CallsOK'
    BY <1>1, CallTyped DEF CallsOK, RestPc, Chunks, Crash
  <1>3. faults' \in 0 .. MaxFaults
    BY LimitAssumption DEF Fault, IInv, TypeOK
  <1>4. DurableOK' /\ RowsInOrder' /\ ResumeSound' /\ TargetsIntact'
    BY DurableUnchanged
  <1>5. LoopExclusive'
    BY DEF LoopExclusive, SyncPc
  <1>6. ASSUME NEW j \in Job PROVE CallKnows(j)' /\ CallSees(j)'
    BY <1>1, CallTyped DEF CallKnows, CallSees, AfterCreate, InLoop
  <1>. QED  BY <1>2, <1>3, <1>4, <1>5, <1>6 DEF IInv, TypeOK

-----------------------------------------------------------------------------
(* The steps that write to disk. *)
LEMMA CreateOrResumeInv ==
    ASSUME IInv, NEW j \in Job, CreateOrResume(j)
    PROVE  IInv'
  <1>. DEFINE h == job[j].hash
  <1>1. /\ Goes(j, "create", "partial", job[j])
        /\ status' = [status EXCEPT ![h] = IF @ = "absent" THEN "active" ELSE @]
        /\ targetPath' = [targetPath EXCEPT ![h] = job[j].target]
        /\ UNCHANGED <<complete, part, file, moved, faults>>
    BY DEF CreateOrResume
  <1>2. /\ job[j] \in JobRecord /\ job[j].missing \subseteq Chunks(h)
        /\ h \in InfoHash /\ job[j].target \in Target
    BY DEF IInv, TypeOK, CallsOK, JobRecord
  <1>3. pc[j] = "create" /\ pc'[j] = "partial" /\ job'[j] = job[j]
    BY <1>1, GoesFacts DEF IInv, TypeOK
  <1>4. RowsAdvance
    BY <1>1, <1>2 DEF RowsAdvance, IInv, TypeOK, DurableOK
  <1>5. DurableOK' /\ faults' \in 0 .. MaxFaults
    BY <1>1, <1>2 DEF IInv, TypeOK, DurableOK, Chunks, PartialFile
  <1>6. RowsInOrder' /\ ResumeSound' /\ TargetsIntact'
    BY <1>1, <1>2
    DEF IInv, TypeOK, DurableOK, RowsInOrder, ResumeSound, TargetsIntact, Chunks
  <1>7. CallKnows(j)' /\ CallSees(j)'
    BY <1>1, <1>2, <1>3
    DEF IInv, TypeOK, DurableOK, CallKnows, CallSees, InLoop, Chunks
  <1>. QED  BY <1>1, <1>2, <1>4, <1>5, <1>6, <1>7, StepPreserves DEF SyncPc

(* Creating the partial file leaves no chunk wrong that a row calls        *)
(* complete: a file that was never moved and has complete chunks exists.   *)
LEMMA EnsurePartialFacts ==
    ASSUME IInv, NEW h \in InfoHash
    PROVE  /\ EnsurePartial(h) \in PartialFile(h)
           /\ EnsurePartial(h) # NoFile
           /\ part[h] # NoFile => EnsurePartial(h) = part[h]
           /\ h \notin moved =>
                 \A c \in complete[h] : EnsurePartial(h)[c] = Content[h][c]
  <1>1. Zeros(h) \in PartialFile(h)
    BY DataAssumption DEF Zeros, PartialFile
  <1>2. NoFile \notin PartialFile(h)
    BY FileAssumption
  <1>3. part[h] \in PartialFile(h) \cup {NoFile}
    BY DEF IInv, TypeOK, DurableOK
  <1>4. h \notin moved => \A c \in complete[h] : part[h] # NoFile /\ part[h][c] = Content[h][c]
    BY DEF IInv, ResumeSound
  <1>. QED  BY <1>1, <1>2, <1>3, <1>4 DEF EnsurePartial

LEMMA OpenPartialInv ==
    ASSUME IInv, NEW j \in Job, OpenPartial(j)
    PROVE  IInv'
  <1>. DEFINE h == job[j].hash
  <1>. DEFINE r == [job[j] EXCEPT !.missing = Pending(h), !.whole = Pending(h) = {}]
  <1>. DEFINE to == IF Pending(h) = {} THEN "announce" ELSE "request"
  <1>1. /\ Goes(j, "partial", to, r)
        /\ part' = [part EXCEPT ![h] = EnsurePartial(h)]
        /\ UNCHANGED <<status, targetPath, complete, file, moved, faults>>
    BY DEF OpenPartial
  <1>2. job[j] \in JobRecord /\ h \in InfoHash
    BY DEF IInv, TypeOK, CallsOK, JobRecord
  <1>3. /\ r \in JobRecord /\ r.hash = h /\ r.missing = Pending(h)
        /\ r.whole = (Pending(h) = {}) /\ r.result = job[j].result
        /\ r.left = job[j].left
    <2>1. PICK w \in BOOLEAN : w = (Pending(h) = {})
      OBVIOUS
    <2>2. PICK m \in SUBSET Nat : m = Pending(h)
      <3>1. Pending(h) \in SUBSET Nat
        BY <1>2, ChunksAssumption DEF Pending, Chunks
      <3>. QED  BY <3>1, Zenon
    <2>3. r = [job[j] EXCEPT !.missing = m, !.whole = w]
      BY <2>1, <2>2, Zenon
    <2>. HIDE DEF r
    <2>. QED  BY <1>2, <2>1, <2>2, <2>3 DEF JobRecord
  <1>. HIDE DEF r
  <1>4. pc[j] = "partial" /\ pc'[j] = to /\ job'[j] = r
    BY <1>1, GoesFacts DEF IInv, TypeOK
  <1>5. RowsAdvance
    BY <1>1 DEF RowsAdvance
  <1>6. DurableOK' /\ faults' \in 0 .. MaxFaults
    BY <1>1, <1>2, EnsurePartialFacts DEF IInv, TypeOK, DurableOK, Chunks, PartialFile
  <1>7. RowsInOrder' /\ TargetsIntact'
    BY <1>1 DEF IInv, RowsInOrder, TargetsIntact, Chunks
  <1>8. ResumeSound'
    BY <1>1, <1>2, EnsurePartialFacts DEF IInv, TypeOK, DurableOK, ResumeSound
  <1>9. CallKnows(j)' /\ CallSees(j)'
    BY <1>1, <1>2, <1>3, <1>4 DEF IInv, CallKnows, CallSees, AfterCreate, InLoop, Chunks, Pending
  <1>10. r.missing \subseteq Chunks(r.hash)
    BY <1>3 DEF Pending
  <1>. QED  BY <1>1, <1>3, <1>5, <1>6, <1>7, <1>8, <1>9, <1>10, StepPreserves DEF AwaitPc

(* A step of j that writes only the partial file of its own download.      *)
LEMMA PartialStep ==
    ASSUME IInv, NEW j \in Job, NEW from,
           NEW to \in AwaitPc \cup SyncPc \cup RestPc, Goes(j, from, to, job[j]),
           NEW new \in PartialFile(job[j].hash),
           part' = [part EXCEPT ![job[j].hash] = new],
           job[j].hash \notin moved =>
              \A c \in complete[job[j].hash] : new[c] = Content[job[j].hash][c],
           UNCHANGED <<status, targetPath, complete, file, moved, faults>>,
           CallKnows(j)', CallSees(j)'
    PROVE  IInv'
  <1>. DEFINE h == job[j].hash
  <1>1. job[j] \in JobRecord /\ h \in InfoHash /\ job[j].missing \subseteq Chunks(h)
    BY DEF IInv, TypeOK, CallsOK, JobRecord
  <1>2. new # NoFile
    BY <1>1, FileAssumption
  <1>3. RowsAdvance
    BY DEF RowsAdvance
  <1>4. DurableOK' /\ faults' \in 0 .. MaxFaults
    BY <1>1 DEF IInv, TypeOK, DurableOK, Chunks, PartialFile
  <1>5. RowsInOrder' /\ TargetsIntact'
    BY DEF IInv, RowsInOrder, TargetsIntact, Chunks
  <1>6. ResumeSound'
    BY <1>1, <1>2 DEF IInv, TypeOK, DurableOK, ResumeSound
  <1>. QED  BY <1>1, <1>3, <1>4, <1>5, <1>6, StepPreserves

(* At write, flush and mark the call is about to store a chunk it checked. *)
LEMMA WritingFacts ==
    ASSUME IInv, NEW j \in Job, pc[j] \in {"write", "flush", "mark"}
    PROVE  /\ job[j].hash \in InfoHash
           /\ job[j].chunk \in Chunks(job[j].hash)
           /\ job[j].data = Content[job[j].hash][job[j].chunk]
           /\ job[j].data \in Data
  BY DEF IInv, TypeOK, CallsOK, JobRecord, CallKnows

LEMMA BeginWriteInv ==
    ASSUME IInv, NEW j \in Job, BeginWrite(j)
    PROVE  IInv'
  <1>. DEFINE h == job[j].hash
              c == job[j].chunk
              old == EnsurePartial(h)
              new == [old EXCEPT ![c] = IF @ = job[j].data THEN @ ELSE Torn]
  <1>1. /\ Goes(j, "write", "flush", job[j])
        /\ part' = [part EXCEPT ![h] = new]
        /\ UNCHANGED <<status, targetPath, complete, file, moved, faults>>
    BY DEF BeginWrite
  <1>2. pc[j] = "write" /\ pc'[j] = "flush" /\ job'[j] = job[j]
    BY <1>1, GoesFacts DEF IInv, TypeOK
  <1>3. h \in InfoHash /\ c \in Chunks(h) /\ job[j].data = Content[h][c]
    BY <1>2, WritingFacts
  <1>4. old \in PartialFile(h) /\ (h \notin moved => \A i \in complete[h] : old[i] = Content[h][i])
    BY <1>3, EnsurePartialFacts
  <1>5. new \in PartialFile(h) /\ (h \notin moved => \A i \in complete[h] : new[i] = Content[h][i])
    BY <1>3, <1>4 DEF PartialFile
  <1>6. new # NoFile
    BY <1>3, <1>5, FileAssumption
  <1>. HIDE DEF new
  <1>7. CallKnows(j)'
    BY <1>1, <1>2 DEF IInv, CallKnows, AfterCreate, InLoop, Chunks
  <1>8. CallSees(j)'
    BY <1>1, <1>2, <1>3, <1>6 DEF IInv, TypeOK, DurableOK, CallSees
  <1>. QED  BY <1>1, <1>5, <1>7, <1>8, PartialStep DEF SyncPc

LEMMA EndWriteInv ==
    ASSUME IInv, NEW j \in Job, EndWrite(j)
    PROVE  IInv'
  <1>. DEFINE h == job[j].hash
              c == job[j].chunk
              new == [part[h] EXCEPT ![c] = job[j].data]
  <1>1. /\ Goes(j, "flush", "mark", job[j])
        /\ part' = [part EXCEPT ![h] = new]
        /\ UNCHANGED <<status, targetPath, complete, file, moved, faults>>
    BY DEF EndWrite
  <1>2. pc[j] = "flush" /\ pc'[j] = "mark" /\ job'[j] = job[j]
    BY <1>1, GoesFacts DEF IInv, TypeOK
  <1>3. h \in InfoHash /\ c \in Chunks(h) /\ job[j].data = Content[h][c] /\ job[j].data \in Data
    BY <1>2, WritingFacts
  <1>4. part[h] \in PartialFile(h)
    BY <1>2, <1>3 DEF IInv, TypeOK, DurableOK, CallSees
  <1>5. h \notin moved => \A i \in complete[h] : part[h][i] = Content[h][i]
    BY <1>3 DEF IInv, ResumeSound
  <1>6. /\ new \in PartialFile(h) /\ new[c] = Content[h][c]
        /\ h \notin moved => \A i \in complete[h] : new[i] = Content[h][i]
    BY <1>3, <1>4, <1>5 DEF PartialFile
  <1>7. new # NoFile
    BY <1>3, <1>6, FileAssumption
  <1>. HIDE DEF new
  <1>8. CallKnows(j)'
    BY <1>1, <1>2 DEF IInv, CallKnows, AfterCreate, InLoop, Chunks
  <1>9. CallSees(j)'
    BY <1>1, <1>2, <1>3, <1>6, <1>7 DEF IInv, TypeOK, DurableOK, CallSees
  <1>. QED  BY <1>1, <1>6, <1>8, <1>9, PartialStep DEF SyncPc

LEMMA MarkCompleteInv ==
    ASSUME IInv, NEW j \in Job, MarkComplete(j)
    PROVE  IInv'
  <1>. DEFINE h == job[j].hash
              c == job[j].chunk
              rest == job[j].missing \ {c}
              now == complete[h] \cup {c}
              r == [job[j] EXCEPT !.missing = rest, !.chunk = 0, !.data = Zero]
  <1>1. /\ Goes(j, "mark", "progress", r)
        /\ complete' = [complete EXCEPT ![h] = now]
        /\ UNCHANGED <<status, targetPath, part, file, moved, faults>>
    BY DEF MarkComplete
  <1>2. pc[j] = "mark" /\ pc'[j] = "progress" /\ job'[j] = r
    BY <1>1, GoesFacts DEF IInv, TypeOK
  <1>3. h \in InfoHash /\ c \in Chunks(h) /\ job[j] \in JobRecord
    BY <1>2, WritingFacts DEF IInv, TypeOK, CallsOK
  <1>4. now \subseteq Chunks(h) /\ now \subseteq Nat /\ rest \subseteq Chunks(h)
    BY <1>3 DEF IInv, TypeOK, DurableOK, CallsOK, JobRecord
  <1>5. /\ r \in JobRecord /\ r.hash = h /\ r.missing = rest /\ r.left = job[j].left
        /\ r.whole = job[j].whole /\ r.result = job[j].result
    BY <1>3, DataAssumption DEF JobRecord
  <1>. HIDE DEF r
  <1>6. RowsAdvance
    BY <1>1, <1>3 DEF RowsAdvance, IInv, TypeOK, DurableOK
  <1>7. DurableOK' /\ faults' \in 0 .. MaxFaults
    BY <1>1, <1>3, <1>4 DEF IInv, TypeOK, DurableOK, Chunks, PartialFile
  <1>8. RowsInOrder' /\ TargetsIntact'
    BY <1>1, <1>3, <1>4 DEF IInv, TypeOK, DurableOK, RowsInOrder, TargetsIntact, Chunks
  <1>9. part[h] # NoFile /\ part[h][c] = Content[h][c]
    BY <1>2 DEF IInv, CallSees
  <1>10. ResumeSound'
    BY <1>1, <1>3, <1>9 DEF IInv, TypeOK, DurableOK, ResumeSound
  <1>11. CallKnows(j)' /\ CallSees(j)'
    BY <1>1, <1>2, <1>3, <1>5
    DEF IInv, TypeOK, DurableOK, CallKnows, CallSees, AfterCreate, InLoop, Chunks
  <1>. QED  BY <1>1, <1>4, <1>5, <1>6, <1>7, <1>8, <1>10, <1>11, StepPreserves DEF AwaitPc

(* A step of finalize_download that writes target, partial file and moved. *)
LEMMA MoveStep ==
    ASSUME IInv, NEW j \in Job, pc[j] \in {"move", "copying", "unlink"},
           NEW to \in {"copying", "unlink", "commit"}, Goes(j, pc[j], to, job[j]),
           NEW new \in {HalfCopied, Content[job[j].hash]},
           file' = [file EXCEPT ![targetPath[job[j].hash]] = new],
           \/ part' = part /\ moved' = moved
           \/ /\ part' = [part EXCEPT ![job[j].hash] = NoFile]
              /\ moved' = moved \cup {job[j].hash},
           UNCHANGED <<status, targetPath, complete, faults>>,
           CallSees(j)'
    PROVE  IInv'
  <1>. DEFINE h == job[j].hash
  <1>1. job[j] \in JobRecord /\ h \in InfoHash /\ job[j].missing \subseteq Chunks(h)
    BY DEF IInv, TypeOK, CallsOK, JobRecord
  <1>2. status[h] # "absent" /\ targetPath[h] \in Target /\ complete[h] = Chunks(h)
    BY <1>1 DEF IInv, TypeOK, DurableOK, CallKnows, AfterCreate, InLoop
  <1>3. RowsAdvance
    BY DEF RowsAdvance
  <1>4. Content[h] \in PartialFile(h)
    BY <1>1, DataAssumption DEF PartialFile
  <1>5. DurableOK' /\ faults' \in 0 .. MaxFaults
    BY <1>1, <1>2, <1>4 DEF IInv, TypeOK, DurableOK, Chunks, PartialFile
  <1>6. RowsInOrder' /\ TargetsIntact'
    BY <1>1, <1>2 DEF IInv, TypeOK, DurableOK, RowsInOrder, TargetsIntact, Chunks
  <1>7. ResumeSound'
    BY <1>1 DEF IInv, TypeOK, DurableOK, ResumeSound
  <1>8. CallKnows(j)'
    <2>1. pc'[j] = to /\ job'[j] = job[j] /\ job[j].whole
      BY GoesFacts DEF IInv, TypeOK, CallKnows
    <2>. QED  BY <1>2, <2>1 DEF IInv, CallKnows, InLoop, Chunks
  <1>. QED  BY <1>1, <1>3, <1>5, <1>6, <1>7, <1>8, StepPreserves DEF SyncPc

(* At the steps of a move the partial file is the whole file.              *)
LEMMA MovingFacts ==
    ASSUME IInv, NEW j \in Job, pc[j] \in {"move", "copying", "unlink"}
    PROVE  /\ job[j].hash \in InfoHash
           /\ targetPath[job[j].hash] \in Target
           /\ part[job[j].hash] = Content[job[j].hash]
           /\ complete[job[j].hash] = Chunks(job[j].hash)
           /\ part[job[j].hash] # NoFile
  <1>1. job[j].hash \in InfoHash
    BY DEF IInv, TypeOK, CallsOK, JobRecord
  <1>2. Content[job[j].hash] \in PartialFile(job[j].hash)
    BY <1>1, DataAssumption DEF PartialFile
  <1>3. part[job[j].hash] = Content[job[j].hash]
    BY DEF IInv, CallSees
  <1>4. targetPath[job[j].hash] \in Target /\ job[j].whole
    BY DEF IInv, CallKnows, AfterCreate
  <1>5. complete[job[j].hash] = Chunks(job[j].hash)
    BY <1>1, <1>4 DEF IInv, TypeOK, DurableOK, CallKnows
  <1>. QED  BY <1>1, <1>2, <1>3, <1>4, <1>5, FileAssumption

LEMMA MovesInv ==
    ASSUME IInv, NEW j \in Job,
           MoveByRename(j) \/ BeginCopy(j) \/ EndCopy(j) \/ UnlinkPartial(j)
    PROVE  IInv'
  <1>. DEFINE h == job[j].hash
  <1>1. CASE MoveByRename(j)
    <2>1. pc[j] = "move" /\ pc'[j] = "commit" /\ job'[j] = job[j]
      BY <1>1, GoesFacts DEF MoveByRename, IInv, TypeOK
    <2>2. CallSees(j)'
      BY <1>1, <2>1, MovingFacts DEF MoveByRename, CallSees, IInv, TypeOK, DurableOK
    <2>3. /\ Goes(j, pc[j], "commit", job[j])
          /\ file' = [file EXCEPT ![targetPath[h]] = Content[h]]
      BY <1>1, <2>1, MovingFacts DEF MoveByRename
    <2>. QED  BY <1>1, <2>1, <2>2, <2>3, MoveStep DEF MoveByRename
  <1>2. CASE BeginCopy(j)
    <2>1. pc[j] = "move" /\ pc'[j] = "copying" /\ job'[j] = job[j]
      BY <1>2, GoesFacts DEF BeginCopy, IInv, TypeOK
    <2>2. CallSees(j)'
      BY <1>2, <2>1, MovingFacts DEF BeginCopy, CallSees
    <2>3. Goes(j, pc[j], "copying", job[j])
      BY <1>2, <2>1 DEF BeginCopy
    <2>. QED  BY <1>2, <2>1, <2>2, <2>3, MoveStep DEF BeginCopy
  <1>3. CASE EndCopy(j)
    <2>1. pc[j] = "copying" /\ pc'[j] = "unlink" /\ job'[j] = job[j]
      BY <1>3, GoesFacts DEF EndCopy, IInv, TypeOK
    <2>2. CallSees(j)'
      BY <1>3, <2>1, MovingFacts DEF EndCopy, CallSees, IInv, TypeOK, DurableOK
    <2>3. /\ Goes(j, pc[j], "unlink", job[j])
          /\ file' = [file EXCEPT ![targetPath[h]] = Content[h]]
      BY <1>3, <2>1, MovingFacts DEF EndCopy
    <2>. QED  BY <1>3, <2>1, <2>2, <2>3, MoveStep DEF EndCopy
  <1>4. CASE UnlinkPartial(j)
    <2>1. pc[j] = "unlink" /\ pc'[j] = "commit" /\ job'[j] = job[j]
      BY <1>4, GoesFacts DEF UnlinkPartial, IInv, TypeOK
    <2>2. file[targetPath[h]] = Content[h] /\ h \in InfoHash /\ targetPath[h] \in Target
      BY <2>1, MovingFacts DEF IInv, CallSees
    <2>3. CallSees(j)'
      BY <1>4, <2>1, <2>2 DEF UnlinkPartial, CallSees
    <2>4. /\ Goes(j, pc[j], "commit", job[j])
          /\ file' = [file EXCEPT ![targetPath[h]] = Content[h]]
      BY <1>4, <2>1, <2>2 DEF UnlinkPartial, IInv, TypeOK, DurableOK
    <2>. QED  BY <1>4, <2>1, <2>3, <2>4, MoveStep DEF UnlinkPartial
  <1>. QED  BY <1>1, <1>2, <1>3, <1>4

LEMMA CommitCompletedInv ==
    ASSUME IInv, NEW j \in Job, CommitCompleted(j)
    PROVE  IInv'
  <1>. DEFINE h == job[j].hash
              r == [Call(h, job[j].target, NoLimit) EXCEPT !.result = "completed"]
  <1>1. /\ Goes(j, "commit", "report", r)
        /\ status' = [status EXCEPT ![h] = "completed"]
        /\ UNCHANGED <<targetPath, complete, part, file, moved, faults>>
    BY DEF CommitCompleted, Ends
  <1>2. h \in InfoHash /\ job[j].target \in Target
    BY DEF IInv, TypeOK, CallsOK, JobRecord
  <1>3. /\ r \in JobRecord /\ r.hash = h /\ r.missing = {}
        /\ ~ r.whole /\ r.result = "completed"
    BY <1>2, CallTyped DEF JobRecord, Result
  <1>. HIDE DEF r
  <1>4. pc[j] = "commit" /\ pc'[j] = "report" /\ job'[j] = r /\ h \in moved
    BY <1>1, GoesFacts DEF IInv, TypeOK, CallSees
  <1>5. RowsAdvance
    BY <1>1 DEF RowsAdvance, IInv, TypeOK, DurableOK
  <1>6. DurableOK' /\ faults' \in 0 .. MaxFaults
    BY <1>1, <1>2 DEF IInv, TypeOK, DurableOK, Chunks, PartialFile
  <1>7. RowsInOrder' /\ ResumeSound' /\ TargetsIntact'
    BY <1>1, <1>2, <1>4
    DEF IInv, TypeOK, DurableOK, RowsInOrder, ResumeSound, TargetsIntact, Chunks
  <1>8. CallKnows(j)' /\ CallSees(j)'
    BY <1>3, <1>4 DEF CallKnows, CallSees, AfterCreate, InLoop
  <1>. QED  BY <1>1, <1>3, <1>5, <1>6, <1>7, <1>8, StepPreserves DEF AwaitPc

-----------------------------------------------------------------------------
(* IInv is inductive. *)
LEMMA NextInv == IInv /\ [Next]_vars => IInv'
  <1>. SUFFICES ASSUME IInv, [Next]_vars PROVE IInv'
    OBVIOUS
  <1>1. ASSUME NEW j \in Job, Ask(j) PROVE IInv'
    BY <1>1, StartDownloadInv DEF Ask
  <1>2. ASSUME NEW j \in Job, DownloadStep(j) PROVE IInv'
    <2>1. CASE Finalize(j)
      BY <2>1, VerifyInv, MovesInv, CommitCompletedInv DEF Finalize
    <2>2. CASE ~ Finalize(j)
      BY <1>2, <2>2, GetSwarmInv, CreateOrResumeInv, OpenPartialInv, ReceiveChunkInv,
         BeginWriteInv, EndWriteInv, MarkCompleteInv, EndIterationInv, AnnounceInv, ReturnInv
         DEF DownloadStep
    <2>. QED  BY <2>1, <2>2
  <1>3. ASSUME NEW j \in Job, AwaitFails(j) \/ DiskFails(j) PROVE IInv'
    BY <1>3, FailureInv
  <1>4. CASE Crash
    BY <1>4, CrashInv
  <1>5. CASE UNCHANGED vars
    BY <1>5
    DEF vars, IInv, TypeOK, DurableOK, CallsOK, LoopExclusive, RowsInOrder, ResumeSound,
        TargetsIntact, CallKnows, CallSees, Chunks, PartialFile
  <1>. QED  BY <1>1, <1>2, <1>3, <1>4, <1>5 DEF Next

(* IInv holds in every reachable state, for any number of files, chunks,   *)
(* targets, concurrent jobs and faults.                                    *)
THEOREM Invariance == Spec => []IInv
  BY InitInv, NextInv, PTL DEF Spec

(* Every variable keeps its type. *)
THEOREM TypeCorrect == Spec => []TypeOK
  <1>1. IInv => TypeOK
    BY DEF IInv
  <1>. QED  BY <1>1, Invariance, PTL

(* Resuming is sound: a chunk called complete is in the partial file, with *)
(* the data of the manifest, until that file has been moved (write_chunk). *)
THEOREM ResumeIsSound == Spec => []ResumeSound
  <1>1. IInv => ResumeSound
    BY DEF IInv
  <1>. QED  BY <1>1, Invariance, PTL

(* finalize_download rejects a partial file only if it was moved before.   *)
THEOREM FinalizeRejectsOnlyMoved == Spec => []MismatchOnlyAfterMove
  <1>1. IInv => MismatchOnlyAfterMove
    BY DEF IInv, CallKnows, MismatchOnlyAfterMove
  <1>. QED  BY <1>1, Invariance, PTL

(* finalize_download never finds a chunk pending, though `current` was read *)
(* before the await of announce_file.                                       *)
THEOREM FinalizeFindsAllChunks == Spec => []NoIncompleteFinalize
  <1>1. IInv => NoIncompleteFinalize
    BY DEF IInv, CallKnows, NoIncompleteFinalize
  <1>. QED  BY <1>1, Invariance, PTL

(* No target path ever holds anything but the content of a file or a copy  *)
(* that a fault cut short (finalize_download).                             *)
THEOREM TargetsStayIntact == Spec => []TargetsIntact
  <1>1. IInv => TargetsIntact
    BY DEF IInv
  <1>. QED  BY <1>1, Invariance, PTL

(* A step that begins at an await, or before or after a copy, finds no     *)
(* copy in progress.                                                       *)
LEMMA NobodyCopies ==
    ASSUME IInv, NoHalfCopyLeft, faults = 0,
           NEW j \in Job, NEW from, NEW to, NEW r, Goes(j, from, to, r),
           NEW t \in Target, file[t] = HalfCopied
    PROVE  from = "copying" /\ targetPath[job[j].hash] = t
  <1>1. PICK k \in Job : pc[k] = "copying" /\ targetPath[job[k].hash] = t
    BY DEF NoHalfCopyLeft
  <1>2. k = j
    BY <1>1, GoesFacts DEF SyncPc, IInv, TypeOK
  <1>. QED  BY <1>1, <1>2 DEF Goes

LEMMA CopyStays ==
    ASSUME IInv, NoHalfCopyLeft, [Next]_vars
    PROVE  NoHalfCopyLeft'
  <1>. SUFFICES ASSUME NEW t \in Target, file'[t] = HalfCopied, faults' = 0
                PROVE  \E j \in Job : pc'[j] = "copying" /\ targetPath'[job'[j].hash] = t
    BY DEF NoHalfCopyLeft
  <1>1. faults \in Nat /\ file \in [Target -> {NoFile, HalfCopied}
                                      \cup UNION {PartialFile(h) : h \in InfoHash}]
    BY LimitAssumption DEF IInv, TypeOK, DurableOK
  <1>2. ASSUME Fault  PROVE FALSE
    BY <1>1, <1>2 DEF Fault
  <1>3. ASSUME NEW j \in Job, BeginCopy(j)
        PROVE  pc'[j] = "copying" /\ targetPath'[job'[j].hash] = t
    <2>1. /\ Goes(j, "move", "copying", job[j]) /\ UNCHANGED <<targetPath, faults>>
          /\ file' = [file EXCEPT ![targetPath[job[j].hash]] = HalfCopied]
      BY <1>3 DEF BeginCopy
    <2>2. pc'[j] = "copying" /\ job'[j] = job[j]
      BY <2>1, GoesFacts DEF IInv, TypeOK
    <2>3. file[t] # HalfCopied
      BY <2>1, NobodyCopies
    <2>4. t = targetPath[job[j].hash]
      BY <1>1, <2>1, <2>3
    <2>. QED  BY <2>1, <2>2, <2>4
  <1>4. ASSUME NEW j \in Job, EndCopy(j) \/ MoveByRename(j)  PROVE FALSE
    <2>. DEFINE h == job[j].hash
    <2>1. /\ UNCHANGED faults /\ file' = [file EXCEPT ![targetPath[h]] = part[h]]
          /\ \E from \in {"move", "copying"} : \E to : pc[j] = from /\ Goes(j, from, to, job[j])
      BY <1>4 DEF EndCopy, MoveByRename, Goes
    <2>2. part[h] = Content[h] /\ h \in InfoHash
      BY <2>1 DEF IInv, CallSees, TypeOK, CallsOK, JobRecord
    <2>3. part[h] # HalfCopied
      BY <2>2, DataAssumption, FileAssumption DEF PartialFile, IInv, TypeOK, DurableOK
    <2>4. t # targetPath[h] /\ file[t] = HalfCopied
      BY <1>1, <2>1, <2>3
    <2>. QED  BY <2>1, <2>4, NobodyCopies
  <1>5. ASSUME NEW j \in Job,
               \/ GetSwarm(j) \/ CreateOrResume(j) \/ OpenPartial(j) \/ BeginWrite(j)
               \/ EndWrite(j) \/ MarkComplete(j) \/ EndIteration(j) \/ Announce(j)
               \/ Verify(j) \/ UnlinkPartial(j) \/ CommitCompleted(j) \/ Return(j) \/ Ask(j)
               \/ \E c \in job[j].missing, d \in Data : ReceiveChunk(j, c, d)
        PROVE  FALSE
    <2>1. UNCHANGED <<file, faults>>
      BY <1>5 DEF GetSwarm, CreateOrResume, OpenPartial, BeginWrite, EndWrite, MarkComplete,
           EndIteration, Announce, Verify, UnlinkPartial, CommitCompleted, Return, Ask,
           StartDownload, ReceiveChunk, durable
    <2>2. \E from, to, r : from # "copying" /\ Goes(j, from, to, r)
      <3>1. CASE GetSwarm(j) \/ CreateOrResume(j) \/ OpenPartial(j) \/ BeginWrite(j) \/ EndWrite(j)
        BY <3>1 DEF GetSwarm, CreateOrResume, OpenPartial, BeginWrite, EndWrite
      <3>2. CASE MarkComplete(j) \/ EndIteration(j) \/ UnlinkPartial(j) \/ Return(j)
        BY <3>2 DEF MarkComplete, EndIteration, UnlinkPartial, Return
      <3>3. CASE Announce(j) \/ Verify(j) \/ CommitCompleted(j)
        BY <3>3 DEF Announce, Verify, CommitCompleted, Ends, Raises
      <3>4. CASE Ask(j) \/ \E c \in job[j].missing, d \in Data : ReceiveChunk(j, c, d)
        BY <3>4 DEF Ask, StartDownload, ReceiveChunk, RestPc
      <3>. QED  BY <1>5, <3>1, <3>2, <3>3, <3>4
    <2>. QED  BY <2>1, <2>2, NobodyCopies
  <1>6. CASE UNCHANGED vars
    BY <1>6 DEF vars, NoHalfCopyLeft
  <1>. QED  BY <1>2, <1>3, <1>4, <1>5, <1>6
            DEF Next, DownloadStep, Finalize, AwaitFails, DiskFails, Crash

(* Half a file is at a target only while it is being copied there or after *)
(* a fault (shutil.move across file systems, under concurrent downloads    *)
(* that redirect one another's rows).                                      *)
THEOREM NoCopyIsLeftHalf == Spec => []NoHalfCopyLeft
  <1>1. Init => NoHalfCopyLeft
    BY FileAssumption DEF Init, NoHalfCopyLeft
  <1>. QED  BY <1>1, CopyStays, Invariance, PTL DEF Spec

(* Only the commit of finalize_download makes a row completed. *)
LEMMA OnlyCommitCompletes ==
    ASSUME IInv, [Next]_vars, NEW h \in InfoHash,
           status[h] # "completed", status'[h] = "completed"
    PROVE  \E j \in Job : CommitCompleted(j) /\ h = job[j].hash
  <1>1. status' # status
    OBVIOUS
  <1>2. ASSUME NEW j \in Job, CreateOrResume(j) PROVE FALSE
    BY <1>2 DEF CreateOrResume, IInv, TypeOK, DurableOK
  <1>3. PICK j \in Job : CommitCompleted(j)
    BY <1>1, <1>2
    DEF Next, Ask, DownloadStep, Finalize, StartDownload, GetSwarm, OpenPartial, ReceiveChunk,
        BeginWrite, EndWrite, MarkComplete, EndIteration, Announce, Verify, MoveByRename,
        BeginCopy, EndCopy, UnlinkPartial, Return, AwaitFails, DiskFails, Crash, durable, vars
  <1>. QED  BY <1>3 DEF CommitCompleted, IInv, TypeOK, DurableOK

(* When a row becomes completed the file is whole at the path of the row,  *)
(* even if a fault or another call came between any two of the steps.      *)
THEOREM RecordedFileIsThere == Spec => RecordedHasFile
  <1>1. ASSUME IInv, [Next]_vars, NEW h \in InfoHash,
               status[h] # "completed", status'[h] = "completed"
        PROVE  file'[targetPath'[h]] = Content[h]
    BY <1>1, OnlyCommitCompletes DEF CommitCompleted, Ends, Goes, IInv, CallSees
  <1>2. IInv /\ [Next]_vars =>
          [\A h \in InfoHash :
             status[h] # "completed" /\ status'[h] = "completed"
               => file'[targetPath'[h]] = Content[h]]_vars
    BY <1>1
  <1>. QED  BY <1>2, Invariance, PTL DEF Spec, RecordedHasFile

-----------------------------------------------------------------------------
(* What is left of a download once its file was moved. *)

(* A step of j leaves h as it is when j gets no chunk of h to fetch, does   *)
(* not come to a write or a commit of h, and its row and file are as bad.  *)
LEMMA MovedAwayStep ==
    ASSUME IInv, NEW h \in InfoHash, MovedAway(h), NEW j \in Job,
           NEW from, NEW to, NEW r, Goes(j, from, to, r),
           r.hash = h => r.missing = {} /\ to \notin {"write", "flush", "mark", "commit"},
           moved \subseteq moved', status'[h] = status[h], part'[h] # Content[h]
    PROVE  MovedAway(h)' /\ status'[h] = status[h]
  <1>1. pc'[j] = to /\ job'[j] = r /\ \A k \in Job \ {j} : pc'[k] = pc[k] /\ job'[k] = job[k]
    BY GoesFacts DEF IInv, TypeOK
  <1>2. ASSUME NEW k \in Job, job'[k].hash = h
        PROVE  job'[k].missing = {} /\ pc'[k] \notin {"write", "flush", "mark", "commit"}
    BY <1>1, <1>2 DEF MovedAway
  <1>. QED  BY <1>2 DEF MovedAway

(* A call that ends leaves h as it is if the rows and files stay. *)
LEMMA MovedAwayEnd ==
    ASSUME IInv, NEW h \in InfoHash, MovedAway(h), NEW j \in Job, NEW from,
           NEW to \in {"report", "returned"}, NEW result, Ends(j, from, to, result),
           UNCHANGED <<status, part, moved>>
    PROVE  MovedAway(h)' /\ status'[h] = status[h]
  <1>. DEFINE r == [Call(job[j].hash, job[j].target, NoLimit) EXCEPT !.result = result]
  <1>1. Goes(j, from, to, r) /\ r.missing = {}
    BY DEF Ends, Call
  <1>. HIDE DEF r
  <1>2. status'[h] = status[h] /\ part'[h] # Content[h] /\ moved' = moved
    BY DEF MovedAway
  <1>. QED  BY <1>1, <1>2, MovedAwayStep

LEMMA MovedAwayStays ==
    ASSUME IInv, [Next]_vars, NEW h \in InfoHash, MovedAway(h), Content[h] # Zeros(h)
    PROVE  MovedAway(h)' /\ status'[h] = status[h]
  <1>1. /\ h \in moved /\ status[h] # "absent" /\ part[h] # Content[h]
        /\ complete[h] = Chunks(h) /\ Pending(h) = {}
    BY DEF MovedAway, IInv, RowsInOrder, Pending
  <1>2. \A j \in Job : job[j].hash = h =>
          /\ job[j].missing = {}
          /\ pc[j] \notin {"write", "flush", "mark", "move", "copying", "unlink", "commit"}
    BY <1>1 DEF MovedAway, IInv, CallSees
  <1>3. ASSUME NEW j \in Job, Ask(j) PROVE MovedAway(h)' /\ status'[h] = status[h]
    <2>1. PICK g \in InfoHash, t \in Target, limit \in Limit : StartDownload(j, g, t, limit)
      BY <1>3 DEF Ask
    <2>2. PICK from \in RestPc : Goes(j, from, "swarm", Call(g, t, limit))
      BY <2>1 DEF StartDownload
    <2>3. Call(g, t, limit).missing = {}
      BY DEF Call
    <2>4. UNCHANGED <<status, part, moved>>
      BY <2>1 DEF StartDownload, durable
    <2>. QED  BY <1>1, <2>2, <2>3, <2>4, MovedAwayStep
  <1>4. ASSUME NEW j \in Job,
               GetSwarm(j) \/ Return(j) \/ EndIteration(j) \/ (Announce(j) /\ job[j].whole)
                 \/ (Verify(j) /\ Verdict(job[j].hash) = "none")
        PROVE  MovedAway(h)' /\ status'[h] = status[h]
    <2>1. UNCHANGED <<status, part, moved>>
      BY <1>4 DEF GetSwarm, Return, EndIteration, Announce, Verify, durable
    <2>2. PICK from, to, r : Goes(j, from, to, r) /\ r.hash = job[j].hash
                    /\ r.missing = job[j].missing
                    /\ to \in {"create", "returned", "announce", "request", "verify", "move"}
      BY <1>4 DEF GetSwarm, Return, EndIteration, Announce, Verify, IInv, TypeOK, CallsOK, JobRecord
    <2>. QED  BY <1>1, <1>2, <2>1, <2>2, MovedAwayStep
  <1>5. ASSUME NEW j \in Job, CreateOrResume(j) PROVE MovedAway(h)' /\ status'[h] = status[h]
    <2>1. Goes(j, "create", "partial", job[j]) /\ UNCHANGED <<part, moved>> /\ status'[h] = status[h]
      BY <1>1, <1>5 DEF CreateOrResume, IInv, TypeOK, DurableOK
    <2>. QED  BY <1>1, <1>2, <2>1, MovedAwayStep
  <1>6. ASSUME NEW j \in Job, OpenPartial(j) PROVE MovedAway(h)' /\ status'[h] = status[h]
    <2>. DEFINE g == job[j].hash
                r == [job[j] EXCEPT !.missing = Pending(g), !.whole = Pending(g) = {}]
    <2>1. /\ Goes(j, "partial", IF Pending(g) = {} THEN "announce" ELSE "request", r)
          /\ part' = [part EXCEPT ![g] = EnsurePartial(g)]
          /\ UNCHANGED <<status, moved>>
      BY <1>6 DEF OpenPartial
    <2>2. r.hash = g /\ r.missing = Pending(g)
      BY DEF IInv, TypeOK, CallsOK, JobRecord
    <2>. HIDE DEF r
    <2>3. part'[h] # Content[h]
      BY <1>1, <2>1 DEF EnsurePartial, IInv, TypeOK, DurableOK
    <2>. QED  BY <1>1, <2>1, <2>2, <2>3, MovedAwayStep
  <1>7. ASSUME NEW j \in Job, BeginWrite(j) \/ EndWrite(j) \/ MarkComplete(j)
                 \/ \E c \in job[j].missing, d \in Data : ReceiveChunk(j, c, d)
        PROVE  MovedAway(h)' /\ status'[h] = status[h]
    <2>1. job[j].hash # h
      BY <1>2, <1>7 DEF BeginWrite, EndWrite, MarkComplete, ReceiveChunk, Goes
    <2>2. UNCHANGED <<status, moved>> /\ part'[h] = part[h]
      BY <1>7, <2>1
      DEF BeginWrite, EndWrite, MarkComplete, ReceiveChunk, durable, IInv, TypeOK, DurableOK
    <2>3. \E from, to, r : Goes(j, from, to, r) /\ r.hash = job[j].hash
      <3>1. CASE BeginWrite(j) \/ EndWrite(j)
        BY <3>1 DEF BeginWrite, EndWrite
      <3>2. CASE MarkComplete(j)
        <4>. DEFINE r == [job[j] EXCEPT !.missing = @ \ {job[j].chunk}, !.chunk = 0, !.data = Zero]
        <4>1. Goes(j, "mark", "progress", r)
          BY <3>2 DEF MarkComplete
        <4>2. r.hash = job[j].hash
          BY DEF IInv, TypeOK, CallsOK, JobRecord
        <4>. QED  BY <4>1, <4>2
      <3>3. ASSUME NEW c, NEW d, ReceiveChunk(j, c, d)
            PROVE  \E from, to, r : Goes(j, from, to, r) /\ r.hash = job[j].hash
        <4>. DEFINE r == [job[j] EXCEPT !.chunk = c, !.data = d]
        <4>1. Goes(j, "request", "write", r)
          BY <3>3 DEF ReceiveChunk
        <4>2. r.hash = job[j].hash
          BY DEF IInv, TypeOK, CallsOK, JobRecord
        <4>. QED  BY <4>1, <4>2
      <3>. QED  BY <1>7, <3>1, <3>2, <3>3
    <2>. QED  BY <1>1, <2>1, <2>2, <2>3, MovedAwayStep
  <1>8. ASSUME NEW j \in Job, MoveByRename(j) \/ BeginCopy(j) \/ EndCopy(j) \/ UnlinkPartial(j)
        PROVE  MovedAway(h)' /\ status'[h] = status[h]
    <2>1. job[j].hash # h
      BY <1>2, <1>8 DEF MoveByRename, BeginCopy, EndCopy, UnlinkPartial, Goes
    <2>2. UNCHANGED status /\ part'[h] = part[h] /\ moved \subseteq moved'
      BY <1>8, <2>1 DEF MoveByRename, BeginCopy, EndCopy, UnlinkPartial, IInv, TypeOK, DurableOK
    <2>3. PICK from, to : Goes(j, from, to, job[j])
      BY <1>8 DEF MoveByRename, BeginCopy, EndCopy, UnlinkPartial
    <2>. QED  BY <1>1, <2>1, <2>2, <2>3, MovedAwayStep
  <1>9. ASSUME NEW j \in Job, CommitCompleted(j) PROVE MovedAway(h)' /\ status'[h] = status[h]
    <2>. DEFINE r == [Call(job[j].hash, job[j].target, NoLimit) EXCEPT !.result = "completed"]
    <2>1. Goes(j, "commit", "report", r) /\ r.hash = job[j].hash /\ UNCHANGED <<part, moved>>
      BY <1>9 DEF CommitCompleted, Ends, Call
    <2>. HIDE DEF r
    <2>2. job[j].hash # h
      BY <1>2, <2>1 DEF Goes
    <2>3. status'[h] = status[h]
      BY <1>1, <1>9, <2>2 DEF CommitCompleted, IInv, TypeOK, DurableOK
    <2>. QED  BY <1>1, <2>1, <2>2, <2>3, MovedAwayStep
  <1>10. ASSUME NEW j \in Job,
                (Announce(j) /\ ~ job[j].whole) \/ (Verify(j) /\ Verdict(job[j].hash) # "none")
                  \/ AwaitFails(j) \/ DiskFails(j)
         PROVE  MovedAway(h)' /\ status'[h] = status[h]
    <2>1. UNCHANGED <<status, part, moved>>
      BY <1>10 DEF Announce, Verify, AwaitFails, DiskFails, durable
    <2>2. \E from, result : Ends(j, from, "report", result) \/ Ends(j, from, "returned", result)
      <3>1. CASE Announce(j) /\ ~ job[j].whole
        BY <3>1 DEF Announce
      <3>2. CASE Verify(j) /\ Verdict(job[j].hash) # "none"
        BY <3>2 DEF Verify, Raises
      <3>3. CASE AwaitFails(j) \/ DiskFails(j)
        BY <3>3 DEF AwaitFails, DiskFails, Raises
      <3>. QED  BY <1>10, <3>1, <3>2, <3>3
    <2>. QED  BY <2>1, <2>2, MovedAwayEnd
  <1>11. CASE Crash
    <2>1. \A j \in Job : pc'[j] = "idle" /\ job'[j] = NoCall
      BY <1>11 DEF Crash
    <2>2. NoCall.missing = {}
      BY DEF NoCall, Call
    <2>3. UNCHANGED <<status, part, moved>>
      BY <1>11 DEF Crash, durable
    <2>. QED  BY <1>1, <2>1, <2>2, <2>3 DEF MovedAway
  <1>12. CASE UNCHANGED vars
    BY <1>12 DEF vars, MovedAway
  <1>. QED
    BY <1>3, <1>4, <1>5, <1>6, <1>7, <1>8, <1>9, <1>10, <1>11, <1>12
    DEF Next, DownloadStep, Finalize

(* A download whose file was moved is not begun anew and, if a fault kept  *)
(* the call that moved it from the commit, not repaired either             *)
(* (create_or_resume_download, finalize_download): every later step of any *)
(* call, and every fault, leaves it as it is.                              *)
THEOREM NothingRepairsMoved == Spec => MovedAwayForGood
  <1>1. IInv /\ [Next]_vars =>
          [\A h \in InfoHash :
             MovedAway(h) /\ Content[h] # Zeros(h)
               => MovedAway(h)' /\ status'[h] = status[h]]_vars
    BY MovedAwayStays
  <1>. QED  BY <1>1, Invariance, PTL DEF Spec, MovedAwayForGood

(* A row that is active then is never completed: the promise that          *)
(* downloads resume (ActiveLeadsToCompleted) is broken for every file but  *)
(* one of zeros, for any number of calls.                                  *)
THEOREM StrandedNeverRecorded ==
    ASSUME NEW h \in InfoHash, Content[h] # Zeros(h)
    PROVE  Spec => [](MovedAway(h) /\ status[h] = "active" => [](status[h] = "active"))
  <1>. DEFINE Stranded == MovedAway(h) /\ status[h] = "active"
  <1>1. IInv /\ [Next]_vars /\ Stranded => Stranded'
    BY MovedAwayStays
  <1>2. Stranded => status[h] = "active"
    OBVIOUS
  <1>. QED  BY <1>1, <1>2, Invariance, PTL DEF Spec

-----------------------------------------------------------------------------
(* The store implements Delivery. *)
LEMMA InitDelivers == Init => D!Init
  BY DEF Init, D!Init, Phase

(* A step that changes neither the rows nor moved leaves the promise alone. *)
LEMMA SameRowsDelivers ==
    ASSUME UNCHANGED <<status, complete, moved>>
    PROVE  UNCHANGED D!vars
  BY DEF D!vars, Phase

LEMMA CreateDelivers ==
    ASSUME IInv, NEW j \in Job, CreateOrResume(j)
    PROVE  [D!Next]_(D!vars)
  <1>. DEFINE h == job[j].hash
  <1>1. h \in InfoHash
    BY DEF IInv, TypeOK, CallsOK, JobRecord
  <1>2. /\ status' = [status EXCEPT ![h] = IF @ = "absent" THEN "active" ELSE @]
        /\ UNCHANGED <<complete, moved>>
    BY DEF CreateOrResume
  <1>3. CASE status[h] = "absent"
    <2>1. h \notin moved /\ Phase(h) = "absent"
      BY <1>1, <1>3 DEF IInv, RowsInOrder, Phase
    <2>2. \A g \in InfoHash : Phase(g)' = IF g = h THEN "fetching" ELSE Phase(g)
      BY <1>1, <1>2, <1>3, <2>1 DEF IInv, TypeOK, DurableOK, Phase
    <2>3. D!Begin(h)
      BY <1>1, <1>2, <2>1, <2>2 DEF D!Begin, D!Moves
    <2>. QED  BY <1>1, <2>3 DEF D!Next
  <1>4. CASE status[h] # "absent"
    BY <1>1, <1>2, <1>4, SameRowsDelivers DEF IInv, TypeOK, DurableOK
  <1>. QED  BY <1>3, <1>4

LEMMA MarkDelivers ==
    ASSUME IInv, NEW j \in Job, MarkComplete(j)
    PROVE  [D!Next]_(D!vars)
  <1>. DEFINE h == job[j].hash
              c == job[j].chunk
  <1>1. /\ complete' = [complete EXCEPT ![h] = complete[h] \cup {c}]
        /\ UNCHANGED <<status, moved>> /\ pc[j] = "mark"
    BY DEF MarkComplete, Goes
  <1>2. h \in InfoHash /\ c \in Chunks(h)
    BY <1>1, WritingFacts
  <1>3. CASE h \in moved
    <2>1. complete' = complete
      BY <1>1, <1>2, <1>3 DEF IInv, RowsInOrder, TypeOK, DurableOK
    <2>. QED  BY <1>1, <2>1, SameRowsDelivers
  <1>4. CASE h \notin moved
    <2>1. Phase(h) = "fetching"
      BY <1>1, <1>2, <1>4 DEF IInv, TypeOK, DurableOK, RowsInOrder, CallKnows, AfterCreate, Phase
    <2>2. D!Gain(h, c)
      BY <1>1, <1>2, <2>1 DEF D!Gain, Phase
    <2>. QED  BY <1>2, <2>2 DEF D!Next, D!All, Chunks
  <1>. QED  BY <1>3, <1>4

LEMMA MovesDeliver ==
    ASSUME IInv, NEW j \in Job, MoveByRename(j) \/ UnlinkPartial(j)
    PROVE  [D!Next]_(D!vars)
  <1>. DEFINE h == job[j].hash
  <1>1. pc[j] \in {"move", "unlink"} /\ moved' = moved \cup {h} /\ UNCHANGED <<status, complete>>
    BY DEF MoveByRename, UnlinkPartial, Goes
  <1>2. h \in InfoHash /\ complete[h] = Chunks(h) /\ status[h] # "absent"
    BY <1>1, MovingFacts DEF IInv, CallKnows, AfterCreate
  <1>3. CASE h \in moved
    BY <1>1, <1>3, SameRowsDelivers
  <1>4. CASE h \notin moved
    <2>1. status[h] = "active" /\ Phase(h) = "fetching"
      BY <1>2, <1>4 DEF IInv, TypeOK, DurableOK, RowsInOrder, Phase
    <2>2. \A g \in InfoHash : Phase(g)' = IF g = h THEN "installed" ELSE Phase(g)
      BY <1>1, <2>1 DEF Phase
    <2>3. D!Install(h)
      BY <1>1, <1>2, <2>1, <2>2 DEF D!Install, D!Moves, D!All, Chunks
    <2>. QED  BY <1>2, <2>3 DEF D!Next
  <1>. QED  BY <1>3, <1>4

LEMMA CommitDelivers ==
    ASSUME IInv, NEW j \in Job, CommitCompleted(j)
    PROVE  [D!Next]_(D!vars)
  <1>. DEFINE h == job[j].hash
  <1>1. /\ status' = [status EXCEPT ![h] = "completed"]
        /\ UNCHANGED <<complete, moved>> /\ pc[j] = "commit"
    BY DEF CommitCompleted, Ends, Goes
  <1>2. h \in InfoHash /\ h \in moved
    BY <1>1 DEF IInv, TypeOK, CallsOK, JobRecord, CallSees
  <1>3. CASE status[h] = "completed"
    BY <1>1, <1>2, <1>3, SameRowsDelivers DEF IInv, TypeOK, DurableOK
  <1>4. CASE status[h] # "completed"
    <2>1. Phase(h) = "installed"
      BY <1>2, <1>4 DEF Phase
    <2>2. \A g \in InfoHash : Phase(g)' = IF g = h THEN "recorded" ELSE Phase(g)
      BY <1>1, <1>2 DEF IInv, TypeOK, DurableOK, Phase
    <2>3. D!Record(h)
      BY <1>1, <1>2, <2>1, <2>2 DEF D!Record, D!Moves
    <2>. QED  BY <1>2, <2>3 DEF D!Next
  <1>. QED  BY <1>3, <1>4

LEMMA NextDelivers == IInv /\ [Next]_vars => [D!Next]_(D!vars)
  <1>. SUFFICES ASSUME IInv, [Next]_vars PROVE [D!Next]_(D!vars)
    OBVIOUS
  <1>1. ASSUME NEW j \in Job, DownloadStep(j) PROVE [D!Next]_(D!vars)
    <2>1. CASE CreateOrResume(j) \/ MarkComplete(j)
      BY <2>1, CreateDelivers, MarkDelivers
    <2>2. CASE MoveByRename(j) \/ UnlinkPartial(j) \/ CommitCompleted(j)
      BY <2>2, MovesDeliver, CommitDelivers
    <2>3. CASE \/ GetSwarm(j) \/ OpenPartial(j) \/ BeginWrite(j) \/ EndWrite(j)
               \/ EndIteration(j) \/ Announce(j) \/ Verify(j) \/ BeginCopy(j) \/ EndCopy(j)
               \/ Return(j)
               \/ \E c \in job[j].missing, d \in Data : ReceiveChunk(j, c, d)
      BY <2>3, SameRowsDelivers
      DEF GetSwarm, OpenPartial, BeginWrite, EndWrite, EndIteration, Announce, Verify,
          BeginCopy, EndCopy, Return, ReceiveChunk, durable
    <2>. QED  BY <1>1, <2>1, <2>2, <2>3 DEF DownloadStep, Finalize
  <1>2. CASE ~ \E j \in Job : DownloadStep(j)
    BY <1>2, SameRowsDelivers
    DEF Next, Ask, StartDownload, AwaitFails, DiskFails, Crash, durable, vars
  <1>. QED  BY <1>1, <1>2

(* Whatever the interleaving, crashes and errors, chunks once gained are   *)
(* kept, a file is installed only when whole and then recorded, for good.  *)
THEOREM StoreImplementsDelivery == Spec => ImplementsDelivery
  BY InitDelivers, NextDelivers, Invariance, PTL DEF Spec, D!Spec, ImplementsDelivery
=============================================================================
