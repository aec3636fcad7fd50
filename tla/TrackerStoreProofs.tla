------------------------- MODULE TrackerStoreProofs -------------------------
(***************************************************************************)
(* Proofs about TrackerStore: IInv is an inductive invariant, the safety   *)
(* properties follow from it, and the database implements TrackerRegistry. *)
(***************************************************************************)
EXTENDS TrackerStore, TLAPS

(* Types, apart: the database, the handlers, the history. *)
DatabaseOK ==
    /\ peers \in [Peer -> {NoRow} \cup PeerRow]
    /\ files \in [InfoHash -> {NoRow} \cup Meta]
    /\ state \in [Peer -> [InfoHash -> {NoRow} \cup SUBSET AllChunks]]

HandlersOK ==
    /\ clock \in Time
    /\ pc \in [Request -> {"idle", "called", "metadata", "insert", "update"}]
    /\ req \in [Request -> RequestRecord]
    /\ \A r \in Request : req[r].chunks \subseteq Chunks(req[r].meta)
    /\ reply \in [status : Status, swarm : SUBSET Listed]

HistoryOK ==
    /\ lastAck \in [Peer -> Time]
    /\ accepted \subseteq InfoHash \X Meta

LEMMA TypeSplit == TypeOK <=> DatabaseOK /\ HandlersOK /\ HistoryOK
  BY DEF TypeOK, DatabaseOK, HandlersOK, HistoryOK

LEMMA TypeSplitNext == DatabaseOK' /\ HandlersOK' /\ HistoryOK' => TypeOK'
  BY DEF TypeOK, DatabaseOK, HandlersOK, HistoryOK

(* The arguments of no request, and of those that arrive, are well typed. *)
LEMMA NoRequestTyped ==
    NoRequest \in RequestRecord /\ NoRequest.chunks = {} /\ NoRequest.now = 0
  <1>1. /\ (CHOOSE p \in Peer : TRUE) \in Peer
        /\ (CHOOSE a \in Addr : TRUE) \in Addr
        /\ (CHOOSE h \in InfoHash : TRUE) \in InfoHash
        /\ (CHOOSE m \in Meta : TRUE) \in Meta
    BY TrackerAssumption
  <1>2. 0 \in Time
    BY TrackerAssumption DEF Time
  <1>. QED  BY <1>1, <1>2 DEF NoRequest, RequestRecord, Op

LEMMA ArgumentsTyped ==
    ASSUME HandlersOK, NEW r \in Request, Arrives(r)
    PROVE  \E args \in RequestRecord :
              /\ args.chunks \subseteq Chunks(args.meta)
              /\ args.now = clock
              /\ Receive(r, args)
  <1>. DEFINE Good(q) == /\ q \in RequestRecord
                         /\ q.chunks \subseteq Chunks(q.meta)
                         /\ q.now = clock
  <1>1. ASSUME NEW p \in Peer, NEW a \in Addr
        PROVE  Good([NoRequest EXCEPT !.op = "register", !.peer = p, !.addr = a, !.now = clock])
    BY NoRequestTyped DEF RequestRecord, Op, HandlersOK
  <1>2. ASSUME NEW p \in Peer
        PROVE  Good([NoRequest EXCEPT !.op = "heartbeat", !.peer = p, !.now = clock])
    BY NoRequestTyped DEF RequestRecord, Op, HandlersOK
  <1>3. ASSUME NEW h \in InfoHash
        PROVE  Good([NoRequest EXCEPT !.op = "get_swarm", !.hash = h, !.now = clock])
    BY NoRequestTyped DEF RequestRecord, Op, HandlersOK
  <1>4. ASSUME NEW p \in Peer, NEW h \in InfoHash, NEW m \in Meta, NEW c \in SUBSET Chunks(m)
        PROVE  Good([NoRequest EXCEPT !.op = "announce", !.peer = p, !.hash = h, !.meta = m,
                                      !.chunks = c, !.now = clock])
    <2>1. c \in SUBSET AllChunks
      BY DEF AllChunks
    <2>. QED  BY <2>1, NoRequestTyped DEF RequestRecord, Op, HandlersOK
  <1>. HIDE DEF Good
  <1>5. \E args : Good(args) /\ Receive(r, args)
    BY <1>1, <1>2, <1>3, <1>4, Zenon DEF Arrives
  <1>. QED  BY <1>5 DEF Good

-----------------------------------------------------------------------------
(* What the end of a handler does to the handlers, and a statement before. *)
LEMMA AnswersFacts ==
    ASSUME HandlersOK, NEW r \in Request, NEW status \in Status,
           NEW swarm \in SUBSET Listed, Answers(r, status, swarm)
    PROVE  /\ HandlersOK'
           /\ pc'[r] = "idle"
           /\ \A s \in Request \ {r} : pc'[s] = pc[s] /\ req'[s] = req[s]
           /\ clock' = clock
  BY NoRequestTyped DEF Answers, HandlersOK

LEMMA GoesOnFacts ==
    ASSUME HandlersOK, NEW r \in Request, NEW to \in {"metadata", "insert", "update"},
           GoesOn(r, to)
    PROVE  /\ HandlersOK'
           /\ pc'[r] = to
           /\ \A s \in Request \ {r} : pc'[s] = pc[s]
           /\ req' = req /\ clock' = clock
  BY DEF GoesOn, HandlersOK, NoReply, Status

(* The part of IInv that is about the tables and the history alone. *)
TablesOK ==
    /\ DatabaseOK
    /\ HistoryOK
    /\ NoOrphanState
    /\ AcceptedMetadataStands
    /\ StateFits

(* The part that is about the rows and the clock. *)
RowsInTime ==
    /\ \A p \in Peer : lastAck[p] <= clock
    /\ \A p \in Peer : peers[p] # NoRow => lastAck[p] <= peers[p].lastSeen + MaxDelay

FilesStay == \A h \in InfoHash : files[h] # NoRow => files'[h] = files[h]

(* What remains to be shown of a handler that answers. *)
LEMMA AnswerPreserves ==
    ASSUME IInv, NEW r \in Request, NEW status \in Status,
           NEW swarm \in SUBSET Listed, Answers(r, status, swarm),
           TablesOK', RowsInTime', FilesStay
    PROVE  IInv'
  <1>1. HandlersOK
    BY TypeSplit DEF IInv
  <1>2. TypeOK'
    BY <1>1, AnswersFacts, TypeSplitNext DEF TablesOK
  <1>3. ASSUME NEW s \in Request  PROVE HandlerKnows(s)'
    <2>1. CASE s = r
      BY <1>1, <2>1, AnswersFacts DEF HandlerKnows
    <2>2. CASE s # r
      <3>1. pc'[s] = pc[s] /\ req'[s] = req[s] /\ HandlerKnows(s)
        BY <1>1, <2>2, AnswersFacts DEF IInv
      <3>2. req[s].hash \in InfoHash /\ req[s].meta \in Meta
        BY <1>1 DEF HandlersOK, RequestRecord
      <3>. QED  BY <3>1, <3>2, TrackerAssumption DEF HandlerKnows, FilesStay
    <2>. QED  BY <2>1, <2>2
  <1>4. InTime'
    BY <1>1, AnswersFacts DEF IInv, InTime, RowsInTime
  <1>. QED  BY <1>2, <1>3, <1>4 DEF IInv, TablesOK

LEMMA TablesUnchanged ==
    ASSUME IInv, UNCHANGED <<database, history>>
    PROVE  TablesOK' /\ FilesStay
  <1>1. DatabaseOK /\ HistoryOK
    BY TypeSplit DEF IInv
  <1>. QED  BY <1>1 DEF IInv, TablesOK, FilesStay, database, history, DatabaseOK, HistoryOK,
               NoOrphanState, AcceptedMetadataStands, StateFits

(* A handler that answers and writes nothing. *)
LEMMA RefusalPreserves ==
    ASSUME IInv, NEW r \in Request, NEW status \in Status, Answers(r, status, {}),
           UNCHANGED <<database, history>>
    PROVE  IInv'
  <1>1. RowsInTime'
    BY DEF IInv, InTime, RowsInTime, Answers, database, history
  <1>. QED  BY <1>1, AnswerPreserves, TablesUnchanged

-----------------------------------------------------------------------------
LEMMA InitInv == Init => IInv
  <1>. SUFFICES ASSUME Init PROVE IInv
    OBVIOUS
  <1>. USE TrackerAssumption DEF Init
  <1>1. DatabaseOK
    BY DEF DatabaseOK
  <1>2. HandlersOK
    BY NoRequestTyped DEF HandlersOK, Time, NoReply, Status
  <1>3. HistoryOK
    BY DEF HistoryOK, Time
  <1>4. NoOrphanState /\ AcceptedMetadataStands /\ StateFits
    BY DEF NoOrphanState, AcceptedMetadataStands, StateFits
  <1>5. InTime
    BY DEF InTime
  <1>6. \A r \in Request : HandlerKnows(r)
    BY DEF HandlerKnows
  <1>. QED  BY <1>1, <1>2, <1>3, <1>4, <1>5, <1>6, TypeSplit DEF IInv

LEMMA ArrivesPreserves ==
    ASSUME IInv, NEW r \in Request, Arrives(r)
    PROVE  IInv'
  <1>1. HandlersOK
    BY TypeSplit DEF IInv
  <1>2. PICK args \in RequestRecord :
               args.chunks \subseteq Chunks(args.meta) /\ args.now = clock /\ Receive(r, args)
    BY <1>1, ArgumentsTyped
  <1>3. /\ pc'[r] = "called" /\ req'[r] = args
        /\ \A s \in Request \ {r} : pc'[s] = pc[s] /\ req'[s] = req[s]
        /\ UNCHANGED <<database, clock, history>>
    BY <1>1, <1>2 DEF Receive, HandlersOK
  <1>4. HandlersOK'
    BY <1>1, <1>2 DEF HandlersOK, Receive, NoReply, Status
  <1>5. TablesOK'
    BY <1>3, TablesUnchanged
  <1>6. ASSUME NEW s \in Request  PROVE HandlerKnows(s)'
    BY <1>3 DEF IInv, HandlerKnows, database
  <1>7. InTime'
    BY <1>1, <1>2, <1>3, TrackerAssumption DEF IInv, InTime, database, history, HandlersOK, Time
  <1>. QED  BY <1>4, <1>5, <1>6, <1>7, TypeSplitNext DEF IInv, TablesOK

(* The row of a peer is written and its time acknowledged. *)
LEMMA SeenPreserves ==
    ASSUME IInv, NEW r \in Request, pc[r] = "called", NEW row \in PeerRow,
           row.lastSeen = req[r].now,
           peers' = [peers EXCEPT ![req[r].peer] = row],
           Acknowledge(req[r].peer, req[r].now),
           Answers(r, "ok", {}),
           UNCHANGED <<files, state, accepted>>
    PROVE  IInv'
  <1>. DEFINE q == req[r]
  <1>1. DatabaseOK /\ HandlersOK /\ HistoryOK
    BY TypeSplit DEF IInv
  <1>2. /\ row.lastSeen = q.now
        /\ peers' = [peers EXCEPT ![q.peer] = row]
        /\ lastAck' = [lastAck EXCEPT ![q.peer] = IF q.now > @ THEN q.now ELSE @]
    BY DEF Acknowledge
  <1>3. q.peer \in Peer /\ q.now \in Time
    BY <1>1 DEF HandlersOK, RequestRecord
  <1>4. clock' = clock /\ clock \in Nat /\ q.now <= clock /\ clock <= q.now + MaxDelay
    BY <1>1 DEF Answers, IInv, InTime, HandlersOK, Time
  <1>. HIDE DEF q
  <1>5. DatabaseOK' /\ HistoryOK'
    BY <1>1, <1>2, <1>3 DEF DatabaseOK, HistoryOK
  <1>6. NoOrphanState' /\ AcceptedMetadataStands' /\ StateFits' /\ FilesStay
    BY <1>1, <1>2, <1>3, TrackerAssumption
       DEF IInv, NoOrphanState, AcceptedMetadataStands, StateFits, FilesStay, DatabaseOK
  <1>7. RowsInTime'
    <2>1. ASSUME NEW p \in Peer
          PROVE  /\ lastAck'[p] <= clock'
                 /\ peers'[p] # NoRow => lastAck'[p] <= peers'[p].lastSeen + MaxDelay
      <3>1. lastAck[p] \in Nat /\ lastAck[p] <= clock
            /\ (peers[p] # NoRow => lastAck[p] <= peers[p].lastSeen + MaxDelay)
        BY <1>1 DEF HistoryOK, Time, IInv, InTime
      <3>2. CASE p = q.peer
        <4>1. /\ peers'[p].lastSeen = q.now
              /\ lastAck'[p] = (IF q.now > lastAck[p] THEN q.now ELSE lastAck[p])
          BY <1>1, <1>2, <1>3, <3>2 DEF DatabaseOK, HistoryOK
        <4>. QED  BY <1>3, <1>4, <3>1, <4>1, TrackerAssumption DEF Time
      <3>3. CASE p # q.peer
        <4>1. peers'[p] = peers[p] /\ lastAck'[p] = lastAck[p]
          BY <1>1, <1>2, <1>3, <3>3 DEF DatabaseOK, HistoryOK
        <4>. QED  BY <1>4, <3>1, <4>1
      <3>. QED  BY <3>2, <3>3
    <2>. QED  BY <2>1 DEF RowsInTime
  <1>. QED  BY <1>5, <1>6, <1>7, AnswerPreserves DEF TablesOK, Status

LEMMA RegisterPreserves ==
    ASSUME IInv, NEW r \in Request, RegisterPeer(r)
    PROVE  IInv'
  <1>1. [addr |-> req[r].addr, lastSeen |-> req[r].now] \in PeerRow
    BY DEF IInv, TypeOK, RequestRecord, PeerRow
  <1>. QED  BY <1>1, SeenPreserves DEF RegisterPeer, Runs

LEMMA HeartbeatPreserves ==
    ASSUME IInv, NEW r \in Request, HeartbeatPeer(r)
    PROVE  IInv'
  <1>. DEFINE p == req[r].peer
  <1>1. CASE peers[p] = NoRow
    BY <1>1, RefusalPreserves DEF HeartbeatPeer, database, history, Status
  <1>2. CASE peers[p] # NoRow
    <2>. DEFINE row == [peers[p] EXCEPT !.lastSeen = req[r].now]
    <2>1. p \in Peer /\ req[r].now \in Time /\ peers[p] \in PeerRow
      BY <1>2 DEF IInv, TypeOK, RequestRecord
    <2>2. row \in PeerRow /\ row.lastSeen = req[r].now
      BY <2>1 DEF PeerRow
    <2>3. peers' = [peers EXCEPT ![p] = row]
      BY <1>2 DEF HeartbeatPeer
    <2>. QED  BY <1>2, <2>2, <2>3, SeenPreserves DEF HeartbeatPeer, Runs
  <1>. QED  BY <1>1, <1>2

(* A statement of announce_file that reads and goes on. *)
LEMMA GoesOnPreserves ==
    ASSUME IInv, NEW r \in Request, NEW to \in {"metadata", "insert", "update"},
           GoesOn(r, to), pc[r] # "idle", req[r].op = "announce",
           to = "update" => files[req[r].hash] = req[r].meta,
           UNCHANGED <<database, history>>
    PROVE  IInv'
  <1>1. HandlersOK
    BY TypeSplit DEF IInv
  <1>2. /\ HandlersOK' /\ pc'[r] = to /\ req' = req /\ clock' = clock
        /\ \A s \in Request \ {r} : pc'[s] = pc[s]
    BY <1>1, GoesOnFacts
  <1>3. TablesOK'
    BY TablesUnchanged
  <1>4. ASSUME NEW s \in Request  PROVE HandlerKnows(s)'
    BY <1>2 DEF IInv, HandlerKnows, database
  <1>5. InTime'
    BY <1>2 DEF IInv, InTime, database, history
  <1>. QED  BY <1>2, <1>3, <1>4, <1>5, TypeSplitNext DEF IInv, TablesOK

LEMMA SelectPeerPreserves ==
    ASSUME IInv, NEW r \in Request, SelectPeer(r)
    PROVE  IInv'
  <1>1. CASE peers[req[r].peer] = NoRow
    BY <1>1, RefusalPreserves DEF SelectPeer, Status
  <1>2. CASE peers[req[r].peer] # NoRow
    BY <1>2, GoesOnPreserves DEF SelectPeer, Runs
  <1>. QED  BY <1>1, <1>2

LEMMA SelectMetadataPreserves ==
    ASSUME IInv, NEW r \in Request, SelectMetadata(r)
    PROVE  IInv'
  <1>1. CASE Conflicts(r)
    BY <1>1, RefusalPreserves DEF SelectMetadata, Status
  <1>2. CASE ~ Conflicts(r) /\ files[req[r].hash] = NoRow
    BY <1>2, GoesOnPreserves DEF SelectMetadata, Runs
  <1>3. CASE ~ Conflicts(r) /\ files[req[r].hash] # NoRow
    <2>1. files[req[r].hash] = req[r].meta
      BY <1>3 DEF Conflicts
    <2>. QED  BY <1>3, <2>1, GoesOnPreserves DEF SelectMetadata, Runs
  <1>. QED  BY <1>1, <1>2, <1>3

LEMMA CommitPreserves ==
    ASSUME IInv, NEW r \in Request, CommitAnnounce(r)
    PROVE  IInv'
  <1>. DEFINE q == req[r]
  <1>1. CASE KeyTaken(r) \/ PeerGone(r)
    BY <1>1, RefusalPreserves DEF CommitAnnounce, database, history, Status
  <1>2. CASE ~ (KeyTaken(r) \/ PeerGone(r))
    <2>1. DatabaseOK /\ HandlersOK /\ HistoryOK
      BY TypeSplit DEF IInv
    <2>2. /\ q.peer \in Peer /\ q.hash \in InfoHash /\ q.meta \in Meta
          /\ q.chunks \subseteq Chunks(q.meta) /\ q.chunks \in SUBSET AllChunks
      BY <2>1 DEF HandlersOK, RequestRecord
    <2>3. /\ state' = [state EXCEPT ![q.peer][q.hash] = q.chunks]
          /\ accepted' = accepted \cup {<<q.hash, q.meta>>}
          /\ Answers(r, "ok", {})
          /\ UNCHANGED <<peers, lastAck>>
      BY <1>2 DEF CommitAnnounce
    <2>4. peers[q.peer] # NoRow
      BY <1>2 DEF PeerGone
    <2>5. files' = [files EXCEPT ![q.hash] = q.meta] /\ files[q.hash] \in {NoRow, q.meta}
      <3>1. CASE pc[r] = "insert"
        BY <1>2, <3>1 DEF CommitAnnounce, KeyTaken
      <3>2. CASE pc[r] = "update"
        <4>1. files[q.hash] = q.meta /\ files' = files
          BY <1>2, <3>2 DEF CommitAnnounce, IInv, HandlerKnows
        <4>. QED  BY <2>1, <2>2, <4>1 DEF DatabaseOK
      <3>. QED  BY <3>1, <3>2 DEF CommitAnnounce
    <2>. HIDE DEF q
    <2>6. DatabaseOK' /\ HistoryOK'
      <3>1. state' \in [Peer -> [InfoHash -> {NoRow} \cup SUBSET AllChunks]]
        BY <2>1, <2>2, <2>3 DEF DatabaseOK
      <3>2. files' \in [InfoHash -> {NoRow} \cup Meta]
        BY <2>1, <2>2, <2>5 DEF DatabaseOK
      <3>3. accepted' \subseteq InfoHash \X Meta
        BY <2>1, <2>2, <2>3 DEF HistoryOK
      <3>. QED  BY <2>1, <2>3, <3>1, <3>2, <3>3 DEF DatabaseOK, HistoryOK
    <2>7. FilesStay /\ \A h \in InfoHash : files'[h] = IF h = q.hash THEN q.meta ELSE files[h]
      BY <2>1, <2>2, <2>5 DEF FilesStay, DatabaseOK
    <2>8. \A p \in Peer, h \in InfoHash :
             state'[p][h] = IF p = q.peer /\ h = q.hash THEN q.chunks ELSE state[p][h]
      BY <2>1, <2>2, <2>3 DEF DatabaseOK
    <2>9. NoOrphanState'
      BY <2>2, <2>3, <2>4, <2>7, <2>8, TrackerAssumption DEF IInv, NoOrphanState
    <2>10. AcceptedMetadataStands'
      <3>1. ASSUME NEW h \in InfoHash, NEW m \in Meta, <<h, m>> \in accepted'
            PROVE  files'[h] = m
        <4>1. CASE <<h, m>> \in accepted
          BY <2>2, <2>5, <2>7, <4>1, TrackerAssumption DEF IInv, AcceptedMetadataStands
        <4>2. CASE h = q.hash /\ m = q.meta
          BY <2>7, <4>2
        <4>. QED  BY <2>3, <3>1, <4>1, <4>2
      <3>. QED  BY <3>1 DEF AcceptedMetadataStands
    <2>11. StateFits'
      <3>1. ASSUME NEW p \in Peer, NEW h \in InfoHash, state'[p][h] # NoRow
            PROVE  state'[p][h] \subseteq Chunks(files'[h])
        <4>1. CASE p = q.peer /\ h = q.hash
          BY <2>2, <2>7, <2>8, <4>1
        <4>2. CASE ~ (p = q.peer /\ h = q.hash)
          <5>1. state'[p][h] = state[p][h] /\ state[p][h] # NoRow
            BY <2>8, <3>1, <4>2
          <5>2. files[h] # NoRow /\ state[p][h] \subseteq Chunks(files[h])
            BY <5>1 DEF IInv, NoOrphanState, StateFits
          <5>. QED  BY <2>7, <5>1, <5>2 DEF FilesStay
        <4>. QED  BY <4>1, <4>2
      <3>. QED  BY <3>1 DEF StateFits, Chunks
    <2>12. RowsInTime'
      BY <2>3 DEF IInv, InTime, RowsInTime, Answers
    <2>. QED  BY <2>3, <2>6, <2>7, <2>9, <2>10, <2>11, <2>12, AnswerPreserves
              DEF TablesOK, Status
  <1>. QED  BY <1>1, <1>2

(* After the deletion, what is listed is well typed, recent and fits. *)
LEMMA SwarmFacts ==
    ASSUME IInv, NEW now \in Time, DeleteStale(now), UNCHANGED <<files, history>>, clock' = clock
    PROVE  /\ TablesOK' /\ RowsInTime'
           /\ \A h \in InfoHash : \A l \in Swarm(h, peers', state') :
                 /\ l \in Listed
                 /\ l.lastSeen + TTL >= now
                 /\ l.chunks \subseteq Chunks(files[h])
  <1>1. DatabaseOK /\ HistoryOK
    BY TypeSplit DEF IInv
  <1>2. \A p \in Peer : /\ peers'[p] = IF p \in Stale(now) THEN NoRow ELSE peers[p]
                        /\ \A h \in InfoHash :
                              state'[p][h] = IF p \in Stale(now) THEN NoRow ELSE state[p][h]
    BY <1>1 DEF DeleteStale, DatabaseOK
  <1>3. DatabaseOK' /\ HistoryOK'
    BY <1>1 DEF DeleteStale, DatabaseOK, HistoryOK, history
  <1>4. NoOrphanState' /\ AcceptedMetadataStands' /\ StateFits'
    BY <1>2 DEF IInv, NoOrphanState, AcceptedMetadataStands, StateFits, history, Chunks
  <1>5. RowsInTime'
    BY <1>2 DEF IInv, InTime, RowsInTime, history
  <1>6. ASSUME NEW h \in InfoHash, NEW l \in Swarm(h, peers', state')
        PROVE  /\ l \in Listed
               /\ l.lastSeen + TTL >= now
               /\ l.chunks \subseteq Chunks(files[h])
    <2>1. PICK p \in Peer :
             /\ state'[p][h] # NoRow
             /\ l = [peer |-> p, addr |-> peers'[p].addr, chunks |-> state'[p][h],
                     lastSeen |-> peers'[p].lastSeen]
      BY DEF Swarm
    <2>2. peers'[p] # NoRow /\ state'[p][h] \subseteq Chunks(files[h])
      BY <1>4, <2>1 DEF NoOrphanState, StateFits, Chunks
    <2>3. peers'[p] \in PeerRow /\ state'[p][h] \in SUBSET AllChunks
      BY <1>3, <2>1, <2>2 DEF DatabaseOK
    <2>4. peers'[p] = peers[p] /\ peers[p] # NoRow /\ p \notin Stale(now)
      BY <1>2, <2>2
    <2>5. peers[p].lastSeen + TTL >= now
      BY <2>3, <2>4, TrackerAssumption DEF Stale, PeerRow, Time
    <2>. QED  BY <2>1, <2>2, <2>3, <2>4, <2>5 DEF Listed, PeerRow
  <1>. QED  BY <1>3, <1>4, <1>5, <1>6 DEF TablesOK

LEMMA GetSwarmPreserves ==
    ASSUME IInv, NEW r \in Request, GetSwarm(r)
    PROVE  IInv'
  <1>. DEFINE h == req[r].hash
  <1>1. CASE files[h] = NoRow
    BY <1>1, RefusalPreserves DEF GetSwarm, database, history, Status
  <1>2. CASE files[h] # NoRow
    <2>1. h \in InfoHash /\ req[r].now \in Time
      BY DEF IInv, TypeOK, RequestRecord
    <2>2. /\ DeleteStale(req[r].now) /\ Answers(r, "ok", Swarm(h, peers', state'))
          /\ UNCHANGED <<files, history>>
      BY <1>2 DEF GetSwarm
    <2>3. clock' = clock
      BY <2>2 DEF Answers
    <2>4. TablesOK' /\ RowsInTime' /\ Swarm(h, peers', state') \in SUBSET Listed
      BY <2>1, <2>2, <2>3, SwarmFacts
    <2>5. FilesStay
      BY <2>2 DEF FilesStay
    <2>. QED  BY <2>2, <2>4, <2>5, AnswerPreserves DEF Status
  <1>. QED  BY <1>1, <1>2

LEMMA RestartPreserves == ASSUME IInv, Restart PROVE IInv'
  <1>1. DatabaseOK /\ HandlersOK
    BY TypeSplit DEF IInv
  <1>2. TablesOK'
    BY TablesUnchanged DEF Restart
  <1>3. HandlersOK'
    BY <1>1, NoRequestTyped DEF Restart, HandlersOK, NoReply, Status
  <1>4. InTime' /\ \A r \in Request : HandlerKnows(r)'
    BY DEF Restart, IInv, InTime, HandlerKnows, database, history
  <1>. QED  BY <1>2, <1>3, <1>4, TypeSplitNext DEF IInv, TablesOK

LEMMA TickPreserves == ASSUME IInv, Tick PROVE IInv'
  <1>1. DatabaseOK /\ HandlersOK /\ HistoryOK
    BY TypeSplit DEF IInv
  <1>2. TablesOK'
    BY TablesUnchanged DEF Tick
  <1>3. HandlersOK'
    BY <1>1, TrackerAssumption DEF Tick, HandlersOK, NoReply, Status, Time
  <1>4. \A r \in Request : HandlerKnows(r)'
    BY DEF Tick, IInv, HandlerKnows, database
  <1>5. InTime'
    <2>1. clock \in Nat /\ clock' = clock + 1
      BY <1>1 DEF Tick, HandlersOK, Time
    <2>2. ASSUME NEW r \in Request, pc'[r] # "idle"
          PROVE  req'[r].now <= clock' /\ clock' <= req'[r].now + MaxDelay
      <3>1. req[r].now \in Nat
        BY <1>1 DEF HandlersOK, RequestRecord, Time
      <3>. QED  BY <2>1, <2>2, <3>1, TrackerAssumption DEF Tick, IInv, InTime
    <2>3. ASSUME NEW p \in Peer  PROVE lastAck'[p] <= clock'
      <3>1. lastAck[p] \in Nat /\ lastAck[p] <= clock /\ lastAck' = lastAck
        BY <1>1 DEF HistoryOK, Time, IInv, InTime, Tick, history
      <3>. QED  BY <2>1, <3>1
    <2>. QED  BY <2>2, <2>3 DEF Tick, IInv, InTime, database, history
  <1>. QED  BY <1>2, <1>3, <1>4, <1>5, TypeSplitNext DEF IInv, TablesOK

LEMMA NextPreserves == IInv /\ [Next]_vars => IInv'
  <1>. SUFFICES ASSUME IInv, [Next]_vars PROVE IInv'
    OBVIOUS
  <1>1. ASSUME NEW r \in Request, Handle(r)  PROVE IInv'
    BY <1>1, RegisterPreserves, HeartbeatPreserves, SelectPeerPreserves,
       SelectMetadataPreserves, CommitPreserves, GetSwarmPreserves DEF Handle
  <1>2. ASSUME NEW r \in Request, Abort(r)  PROVE IInv'
    BY <1>2, RefusalPreserves DEF Abort, Status
  <1>3. CASE UNCHANGED vars
    BY <1>3 DEF vars, IInv, TypeOK, NoOrphanState, AcceptedMetadataStands, HandlerKnows,
               StateFits, InTime
  <1>. QED  BY <1>1, <1>2, <1>3, ArrivesPreserves, RestartPreserves, TickPreserves DEF Next

-----------------------------------------------------------------------------
(* The inductive invariant holds in every reachable state. *)
THEOREM Invariance == Spec => []IInv
  BY InitInv, NextPreserves, PTL DEF Spec

(* Every variable of the tracker keeps its type. *)
THEOREM TypeCorrect == Spec => []TypeOK
  <1>1. IInv => TypeOK
    BY DEF IInv
  <1>. QED  BY <1>1, Invariance, PTL

(* No announced state is left without its peer or its file, whoever prunes *)
(* or restarts between the statements of a handler of announce_file.       *)
THEOREM TablesConsistent == Spec => []NoOrphanState
  <1>1. IInv => NoOrphanState
    BY DEF IInv
  <1>. QED  BY <1>1, Invariance, PTL

(* Metadata that announce_file once accepted stand.                        *)
THEOREM MetadataStand == Spec => []AcceptedMetadataStands
  <1>1. IInv => AcceptedMetadataStands
    BY DEF IInv
  <1>. QED  BY <1>1, Invariance, PTL

-----------------------------------------------------------------------------
LEMMA KeptAliveStep ==
    ASSUME IInv, [Next]_vars, NEW p \in Peer, peers[p] # NoRow, peers'[p] = NoRow
    PROVE  lastAck[p] + TTL < clock + MaxDelay
  <1>1. DatabaseOK /\ HandlersOK /\ HistoryOK
    BY TypeSplit DEF IInv
  <1>2. ASSUME NEW r \in Request, RegisterPeer(r)  PROVE FALSE
    <2>1. [addr |-> req[r].addr, lastSeen |-> req[r].now] \in PeerRow
      BY <1>1 DEF HandlersOK, RequestRecord, PeerRow
    <2>. QED  BY <1>1, <1>2, <2>1, TrackerAssumption DEF RegisterPeer, DatabaseOK
  <1>3. ASSUME NEW r \in Request, HeartbeatPeer(r)  PROVE FALSE
    <2>1. peers[p] \in PeerRow /\ req[r].now \in Time
      BY <1>1 DEF DatabaseOK, HandlersOK, RequestRecord
    <2>2. [peers[p] EXCEPT !.lastSeen = req[r].now] \in PeerRow
      BY <2>1 DEF PeerRow
    <2>3. peers'[p] \in {peers[p], [peers[p] EXCEPT !.lastSeen = req[r].now]}
      BY <1>1, <1>3 DEF HeartbeatPeer, DatabaseOK
    <2>. QED  BY <2>1, <2>2, <2>3, TrackerAssumption
  <1>4. ASSUME NEW r \in Request, GetSwarm(r)
        PROVE  lastAck[p] + TTL < clock + MaxDelay
    <2>1. p \in Stale(req[r].now) /\ pc[r] # "idle"
      BY <1>1, <1>4 DEF GetSwarm, DeleteStale, DatabaseOK, Runs
    <2>2. /\ peers[p].lastSeen \in Nat /\ req[r].now \in Nat /\ clock \in Nat
          /\ lastAck[p] \in Nat
      BY <1>1 DEF DatabaseOK, HandlersOK, HistoryOK, PeerRow, RequestRecord, Time
    <2>3. peers[p].lastSeen + TTL < req[r].now
      BY <2>1 DEF Stale
    <2>4. lastAck[p] <= peers[p].lastSeen + MaxDelay /\ req[r].now <= clock
      BY <2>1 DEF IInv, InTime
    <2>. QED  BY <2>2, <2>3, <2>4, TrackerAssumption
  <1>5. ASSUME NEW r \in Request,
               Arrives(r) \/ SelectPeer(r) \/ SelectMetadata(r) \/ CommitAnnounce(r) \/ Abort(r)
        PROVE  FALSE
    BY <1>5 DEF Arrives, Receive, SelectPeer, SelectMetadata, CommitAnnounce, Abort, database
  <1>6. CASE Restart \/ Tick \/ UNCHANGED vars
    BY <1>6 DEF Restart, Tick, vars, database
  <1>. QED  BY <1>2, <1>3, <1>4, <1>5, <1>6 DEF Next, Handle

(* A peer is not pruned before its last acknowledged sign of life has aged *)
(* by the TTL, less the time that a request may take.                      *)
THEOREM AcknowledgedPeersKept == Spec => KeptAlive
  <1>1. IInv /\ [Next]_vars =>
           [\A p \in Peer :
              peers[p] # NoRow /\ peers'[p] = NoRow => lastAck[p] + TTL < clock + MaxDelay]_vars
    BY KeptAliveStep
  <1>. QED  BY <1>1, Invariance, PTL DEF Spec, KeptAlive

LEMMA SwarmStep ==
    ASSUME IInv, Next, NEW r \in Request, Runs(r, "get_swarm", "called"), pc'[r] = "idle",
           NEW l \in reply'.swarm
    PROVE  /\ l.lastSeen + TTL + MaxDelay >= clock
           /\ l.chunks \subseteq Chunks(files[req[r].hash])
  <1>1. DatabaseOK /\ HandlersOK /\ HistoryOK
    BY TypeSplit DEF IInv
  <1>2. pc[r] = "called" /\ req[r].op = "get_swarm"
    BY DEF Runs
  <1>3. CASE GetSwarm(r) /\ files[req[r].hash] # NoRow
    <2>1. req[r].hash \in InfoHash /\ req[r].now \in Time
      BY <1>1 DEF HandlersOK, RequestRecord
    <2>2. /\ DeleteStale(req[r].now)
          /\ Answers(r, "ok", Swarm(req[r].hash, peers', state'))
          /\ UNCHANGED <<files, history>>
      BY <1>3 DEF GetSwarm
    <2>3. clock' = clock /\ l \in Swarm(req[r].hash, peers', state')
      BY <2>2 DEF Answers
    <2>4. /\ l \in Listed /\ l.lastSeen + TTL >= req[r].now
          /\ l.chunks \subseteq Chunks(files[req[r].hash])
      BY <2>1, <2>2, <2>3, SwarmFacts
    <2>5. clock <= req[r].now + MaxDelay
      BY <1>2 DEF IInv, InTime
    <2>. QED  BY <1>1, <2>1, <2>4, <2>5, TrackerAssumption DEF Listed, Time, HandlersOK
  <1>4. CASE \/ GetSwarm(r) /\ files[req[r].hash] = NoRow
             \/ Abort(r)
             \/ Restart
    <2>1. reply'.swarm = {}
      BY <1>4 DEF GetSwarm, Abort, Restart, Answers, NoReply
    <2>. QED  BY <2>1
  <1>5. CASE Tick
    BY <1>2, <1>5 DEF Tick
  <1>6. ASSUME NEW s \in Request \ {r}, Arrives(s) \/ Handle(s) \/ Abort(s)
        PROVE  FALSE
    <2>1. pc'[r] = pc[r]
      BY <1>1, <1>6 DEF Arrives, Receive, Handle, RegisterPeer, HeartbeatPeer, SelectPeer,
                        SelectMetadata, CommitAnnounce, GetSwarm, Abort, Answers, GoesOn, HandlersOK
    <2>. QED  BY <1>2, <2>1
  <1>7. ASSUME Arrives(r) \/ RegisterPeer(r) \/ HeartbeatPeer(r) \/ SelectPeer(r)
               \/ SelectMetadata(r) \/ CommitAnnounce(r)
        PROVE  FALSE
    BY <1>2, <1>7 DEF Arrives, Receive, RegisterPeer, HeartbeatPeer, SelectPeer, SelectMetadata,
                      CommitAnnounce, Runs
  <1>. QED  BY <1>3, <1>4, <1>5, <1>6, <1>7 DEF Next, Handle

(* A swarm lists no peer that has been silent too long and no chunk beyond *)
(* the file's.                                                             *)
THEOREM SwarmsAreLive == Spec => SwarmListsOnlyLive
  <1>. DEFINE A == \A r \in Request :
                      Runs(r, "get_swarm", "called") /\ pc'[r] = "idle" =>
                         \A l \in reply'.swarm :
                            /\ l.lastSeen + TTL + MaxDelay >= clock
                            /\ l.chunks \subseteq Chunks(files[req[r].hash])
  <1>1. IInv /\ [Next]_vars => [A]_vars
    BY SwarmStep
  <1>. QED  BY <1>1, Invariance, PTL DEF Spec, SwarmListsOnlyLive

-----------------------------------------------------------------------------
(* Every step is one operation of the registry, or none. *)
LEMMA RegistryStep == IInv /\ [Next]_vars => [R!Next]_(R!vars)
  <1>. SUFFICES ASSUME IInv, [Next]_vars PROVE R!Next \/ UNCHANGED R!vars
    OBVIOUS
  <1>1. DatabaseOK /\ HandlersOK
    BY TypeSplit DEF IInv
  <1>2. ASSUME UNCHANGED database  PROVE UNCHANGED R!vars
    BY <1>2 DEF database, R!vars
  <1>3. ASSUME NEW r \in Request, RegisterPeer(r)  PROVE R!Next
    <2>1. req[r].peer \in Peer /\ req[r].addr \in Addr /\ req[r].now \in Time
      BY <1>1 DEF HandlersOK, RequestRecord
    <2>2. R!Register(req[r].peer, req[r].addr, req[r].now)
      BY <1>3 DEF RegisterPeer, R!Register
    <2>. QED  BY <2>1, <2>2 DEF R!Next
  <1>4. ASSUME NEW r \in Request, HeartbeatPeer(r)  PROVE R!Next \/ UNCHANGED R!vars
    <2>1. req[r].peer \in Peer /\ req[r].now \in Time
      BY <1>1 DEF HandlersOK, RequestRecord
    <2>2. CASE peers[req[r].peer] = NoRow
      BY <1>2, <1>4, <2>2 DEF HeartbeatPeer, database
    <2>3. CASE peers[req[r].peer] # NoRow
      <3>1. R!Heartbeat(req[r].peer, req[r].now)
        BY <1>4, <2>3 DEF HeartbeatPeer, R!Heartbeat
      <3>. QED  BY <2>1, <3>1 DEF R!Next
    <2>. QED  BY <2>2, <2>3
  <1>5. ASSUME NEW r \in Request, CommitAnnounce(r)  PROVE R!Next \/ UNCHANGED R!vars
    <2>. DEFINE q == req[r]
    <2>1. CASE KeyTaken(r) \/ PeerGone(r)
      BY <1>2, <1>5, <2>1 DEF CommitAnnounce, database
    <2>2. CASE ~ (KeyTaken(r) \/ PeerGone(r))
      <3>1. /\ q.peer \in Peer /\ q.hash \in InfoHash /\ q.meta \in Meta
            /\ q.chunks \in SUBSET (0 .. TotalChunks[q.meta] - 1)
        BY <1>1 DEF HandlersOK, RequestRecord, Chunks
      <3>2. files' = [files EXCEPT ![q.hash] = q.meta] /\ files[q.hash] \in {NoRow, q.meta}
        <4>1. CASE pc[r] = "insert"
          BY <1>5, <2>2, <4>1 DEF CommitAnnounce, KeyTaken
        <4>2. CASE pc[r] = "update"
          <5>1. files[q.hash] = q.meta /\ files' = files
            BY <1>5, <2>2, <4>2 DEF CommitAnnounce, IInv, HandlerKnows
          <5>. QED  BY <1>1, <3>1, <5>1 DEF DatabaseOK
        <4>. QED  BY <1>5, <4>1, <4>2 DEF CommitAnnounce
      <3>3. R!Announce(q.peer, q.hash, q.meta, q.chunks)
        BY <1>5, <2>2, <3>2 DEF CommitAnnounce, PeerGone, R!Announce
      <3>. QED  BY <3>1, <3>3 DEF R!Next
    <2>. QED  BY <2>1, <2>2
  <1>6. ASSUME NEW r \in Request, GetSwarm(r)  PROVE R!Next \/ UNCHANGED R!vars
    <2>. DEFINE now == req[r].now
    <2>1. now \in Time /\ now \in Nat
      BY <1>1 DEF HandlersOK, RequestRecord, Time
    <2>2. CASE files[req[r].hash] = NoRow
      BY <1>2, <1>6, <2>2 DEF GetSwarm, database
    <2>3. CASE files[req[r].hash] # NoRow
      <3>1. DeleteStale(now) /\ UNCHANGED files
        BY <1>6, <2>3 DEF GetSwarm
      <3>2. \A p \in Peer : peers[p] # NoRow => peers[p].lastSeen \in Nat
        BY <1>1 DEF DatabaseOK, PeerRow, Time
      <3>3. CASE now < TTL
        <4>1. Stale(now) = {}
          BY <2>1, <3>2, <3>3, TrackerAssumption DEF Stale
        <4>2. peers' = peers /\ state' = state
          BY <1>1, <3>1, <4>1 DEF DeleteStale, DatabaseOK
        <4>. QED  BY <3>1, <4>2 DEF R!vars
      <3>4. CASE now >= TTL
        <4>1. now - TTL \in Time
          BY <2>1, <3>4, TrackerAssumption DEF Time
        <4>2. R!Expired(now - TTL) = Stale(now)
          BY <2>1, <3>2, <3>4, TrackerAssumption DEF Stale, R!Expired
        <4>3. R!Expire(now - TTL)
          BY <3>1, <4>2 DEF DeleteStale, R!Expire
        <4>. QED  BY <4>1, <4>3 DEF R!Next
      <3>. QED  BY <2>1, <3>3, <3>4, TrackerAssumption
    <2>. QED  BY <2>2, <2>3
  <1>7. ASSUME NEW r \in Request, Arrives(r) \/ SelectPeer(r) \/ SelectMetadata(r) \/ Abort(r)
        PROVE  UNCHANGED R!vars
    BY <1>2, <1>7 DEF Arrives, Receive, SelectPeer, SelectMetadata, Abort
  <1>8. CASE Restart \/ Tick \/ UNCHANGED vars
    BY <1>2, <1>8 DEF Restart, Tick, vars, database
  <1>. QED  BY <1>3, <1>4, <1>5, <1>6, <1>7, <1>8 DEF Next, Handle

(* The handlers, interleaved as they are, take effect one at a time.       *)
THEOREM TrackerImplementsRegistry == Spec => ImplementsRegistry
  <1>1. Init => R!Init
    BY DEF Init, R!Init
  <1>. QED  BY <1>1, RegistryStep, Invariance, PTL DEF Spec, ImplementsRegistry, R!Spec
=============================================================================
