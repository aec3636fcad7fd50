--------------------------- MODULE TrackerStore ----------------------------
(***************************************************************************)
(* The tracker: the handlers of tracker/api.py over the SQLite database of *)
(* tracker/store.py.  Every request has a connection of its own and runs   *)
(* as a coroutine, so handlers interleave at each of their statements.     *)
(*                                                                         *)
(* A SELECT outside a transaction is a step that reads the committed       *)
(* database.  From its first INSERT, UPDATE or DELETE to its commit a      *)
(* handler holds SQLite's write lock and the others keep waiting, so that  *)
(* stretch is one step.  Timestamps are taken when a handler starts.       *)
(***************************************************************************)
EXTENDS Naturals

CONSTANTS
    Peer, Addr, InfoHash,
    Meta,         \* metadata a file may be announced with
    TotalChunks,  \* total_chunks of each metadata
    Request,      \* requests in flight at a time
    TTL,          \* heartbeat_ttl_seconds
    MaxClock,     \* bound: seconds in a behaviour
    MaxDelay,     \* bound: seconds from the start of a handler to its commit
    NoRow         \* no such row

Time == 0 .. MaxClock
Chunks(m) == 0 .. (TotalChunks[m] - 1)
AllChunks == UNION {Chunks(m) : m \in Meta}
PeerRow == [addr : Addr, lastSeen : Time]

ASSUME TrackerAssumption ==
    /\ TTL \in Nat /\ MaxClock \in Nat /\ MaxDelay \in Nat
    /\ Peer # {} /\ Addr # {} /\ InfoHash # {} /\ Meta # {}
    /\ TotalChunks \in [Meta -> Nat \ {0}]
    /\ NoRow \notin Meta
    /\ \A c \in SUBSET AllChunks : NoRow # c
    /\ \A row \in PeerRow : NoRow # row

VARIABLES
    (* the database *)
    peers,    \* table peers
    files,    \* table files
    state,    \* table peer_file_state
    (* the handlers *)
    clock,    \* int(time.time())
    pc,       \* where the handler of each request stands
    req,      \* its arguments, and `now` as read at its start
    reply,    \* the answer the last step sent, NoReply if it sent none
    (* history *)
    lastAck,  \* the latest last_seen_at acknowledged to each peer
    accepted  \* the metadata whose announces were answered with success

database == <<peers, files, state>>
history == <<lastAck, accepted>>
vars == <<peers, files, state, clock, pc, req, reply, lastAck, accepted>>

Op == {"register", "heartbeat", "announce", "get_swarm"}

RequestRecord ==
    [op : Op, peer : Peer, addr : Addr, hash : InfoHash, meta : Meta,
     chunks : SUBSET AllChunks, now : Time]

Listed == [peer : Peer, addr : Addr, chunks : SUBSET AllChunks, lastSeen : Time]

Status == {"none", "ok", "peer_not_found", "info_hash_not_found",
           "metadata_conflict", "integrity_error", "unavailable"}

TypeOK ==
    /\ peers \in [Peer -> {NoRow} \cup PeerRow]
    /\ files \in [InfoHash -> {NoRow} \cup Meta]
    /\ state \in [Peer -> [InfoHash -> {NoRow} \cup SUBSET AllChunks]]
    /\ clock \in Time
    /\ pc \in [Request -> {"idle", "called", "metadata", "insert", "update"}]
    /\ req \in [Request -> RequestRecord]
    /\ \A r \in Request : req[r].chunks \subseteq Chunks(req[r].meta)
    /\ reply \in [status : Status, swarm : SUBSET Listed]
    /\ lastAck \in [Peer -> Time]
    /\ accepted \subseteq InfoHash \X Meta

NoReply == [status |-> "none", swarm |-> {}]

NoRequest ==
    [op |-> "get_swarm", peer |-> CHOOSE p \in Peer : TRUE, addr |-> CHOOSE a \in Addr : TRUE,
     hash |-> CHOOSE h \in InfoHash : TRUE, meta |-> CHOOSE m \in Meta : TRUE,
     chunks |-> {}, now |-> 0]

Init ==
    /\ peers = [p \in Peer |-> NoRow]
    /\ files = [h \in InfoHash |-> NoRow]
    /\ state = [p \in Peer |-> [h \in InfoHash |-> NoRow]]
    /\ clock = 0
    /\ pc = [r \in Request |-> "idle"]
    /\ req = [r \in Request |-> NoRequest]
    /\ reply = NoReply
    /\ lastAck = [p \in Peer |-> 0]
    /\ accepted = {}

-----------------------------------------------------------------------------
(* A request arrives; its handler reads the clock. *)
Receive(r, args) ==
    /\ pc[r] = "idle"
    /\ pc' = [pc EXCEPT ![r] = "called"]
    /\ req' = [req EXCEPT ![r] = args]
    /\ reply' = NoReply
    /\ UNCHANGED <<database, clock, history>>

(* What peers send: the fields an operation does not have keep the values  *)
(* of NoRequest.                                                           *)
Arrives(r) ==
    \E p \in Peer, h \in InfoHash :
        \/ \E a \in Addr :
              Receive(r, [NoRequest EXCEPT !.op = "register", !.peer = p, !.addr = a, !.now = clock])
        \/ Receive(r, [NoRequest EXCEPT !.op = "heartbeat", !.peer = p, !.now = clock])
        \/ Receive(r, [NoRequest EXCEPT !.op = "get_swarm", !.hash = h, !.now = clock])
        \/ \E m \in Meta : \E c \in SUBSET Chunks(m) :
              Receive(r, [NoRequest EXCEPT !.op = "announce", !.peer = p, !.hash = h, !.meta = m,
                                           !.chunks = c, !.now = clock])

(* The handler of r answers and is gone. *)
Answers(r, status, swarm) ==
    /\ pc' = [pc EXCEPT ![r] = "idle"]
    /\ req' = [req EXCEPT ![r] = NoRequest]
    /\ reply' = [status |-> status, swarm |-> swarm]
    /\ UNCHANGED clock

(* The handler of r goes on to its next statement. *)
GoesOn(r, to) ==
    /\ pc' = [pc EXCEPT ![r] = to]
    /\ reply' = NoReply
    /\ UNCHANGED <<req, clock>>

Runs(r, op, at) == pc[r] = at /\ req[r].op = op

(* Faulty variant: the peer is told when it expires. *)
AcknowledgeExpiry(p, t) == lastAck' = [lastAck EXCEPT ![p] = t + TTL]

(* The last_seen_at that a handler returns, if it is later than before. *)
Acknowledge(p, t) == lastAck' = [lastAck EXCEPT ![p] = IF t > @ THEN t ELSE @]

(* INSERT ... ON CONFLICT(peer_id) DO UPDATE: what the peer announced      *)
(* before is kept.                                                         *)
RegisterPeer(r) ==
    /\ Runs(r, "register", "called")
    /\ peers' = [peers EXCEPT ![req[r].peer] =
                    [addr |-> req[r].addr, lastSeen |-> req[r].now]]
    /\ Acknowledge(req[r].peer, req[r].now)
    /\ Answers(r, "ok", {})
    /\ UNCHANGED <<files, state, accepted>>

HeartbeatPeer(r) ==
    LET p == req[r].peer IN
    /\ Runs(r, "heartbeat", "called")
    /\ IF peers[p] = NoRow
       THEN Answers(r, "peer_not_found", {}) /\ UNCHANGED <<peers, lastAck>>
       ELSE /\ peers' = [peers EXCEPT ![p].lastSeen = req[r].now]
            /\ Acknowledge(p, req[r].now)
            /\ Answers(r, "ok", {})
    /\ UNCHANGED <<files, state, accepted>>

(* announce_file: the SELECT from peers. *)
SelectPeer(r) ==
    /\ Runs(r, "announce", "called")
    /\ IF peers[req[r].peer] = NoRow
       THEN Answers(r, "peer_not_found", {})
       ELSE GoesOn(r, "metadata")
    /\ UNCHANGED <<database, history>>

(* Faulty variant: total_chunks and the chunk hashes are not compared. *)
ConflictUnseen(r) == FALSE

(* _has_metadata_conflict: some field differs from the row. *)
Conflicts(r) == files[req[r].hash] \notin {NoRow, req[r].meta}

(* announce_file: the SELECT from files decides between INSERT and UPDATE. *)
SelectMetadata(r) ==
    /\ Runs(r, "announce", "metadata")
    /\ IF Conflicts(r)
       THEN Answers(r, "metadata_conflict", {})
       ELSE GoesOn(r, IF files[req[r].hash] = NoRow THEN "insert" ELSE "update")
    /\ UNCHANGED <<database, history>>

(* Faulty variants: INSERT OR REPLACE; foreign keys not enforced. *)
KeyReplaced(r) == FALSE
PeerUnchecked(r) == FALSE

(* The constraints of the schema: info_hash is the primary key of files,   *)
(* and peer_file_state refers to a row of peers.                           *)
KeyTaken(r) == pc[r] = "insert" /\ files[req[r].hash] # NoRow
PeerGone(r) == peers[req[r].peer] = NoRow

(* announce_file: its transaction.  A constraint that fails raises an      *)
(* IntegrityError, nothing is committed and the peer gets a 500.           *)
CommitAnnounce(r) ==
    LET q == req[r] IN
    /\ pc[r] \in {"insert", "update"}
    /\ IF KeyTaken(r) \/ PeerGone(r)
       THEN Answers(r, "integrity_error", {}) /\ UNCHANGED <<files, state, accepted>>
       ELSE /\ files' = IF pc[r] = "insert" THEN [files EXCEPT ![q.hash] = q.meta] ELSE files
            /\ state' = [state EXCEPT ![q.peer][q.hash] = q.chunks]
            /\ accepted' = accepted \cup {<<q.hash, q.meta>>}
            /\ Answers(r, "ok", {})
    /\ UNCHANGED <<peers, lastAck>>

(* Faulty variants: the cutoff is off by one, either way. *)
StaleEarly(now) == {p \in Peer : peers[p] # NoRow /\ peers[p].lastSeen + TTL <= now}
StaleLate(now) == {p \in Peer : peers[p] # NoRow /\ peers[p].lastSeen + TTL + 1 < now}

(* DELETE FROM peers WHERE last_seen_at < now - ttl, and its cascade. *)
Stale(now) == {p \in Peer : peers[p] # NoRow /\ peers[p].lastSeen + TTL < now}

DeleteStale(now) ==
    /\ peers' = [p \in Peer |-> IF p \in Stale(now) THEN NoRow ELSE peers[p]]
    /\ state' = [p \in Peer |-> IF p \in Stale(now)
                                THEN [h \in InfoHash |-> NoRow] ELSE state[p]]

(* The rows of the swarm query; seeds come first, then the latest seen.    *)
Swarm(h, Rows, State) ==
    {[peer |-> p, addr |-> Rows[p].addr, chunks |-> State[p][h], lastSeen |-> Rows[p].lastSeen] :
        p \in {q \in Peer : State[q][h] # NoRow}}

(* An unknown info_hash raises before the commit: the DELETE is undone. *)
GetSwarm(r) ==
    LET h == req[r].hash IN
    /\ Runs(r, "get_swarm", "called")
    /\ IF files[h] = NoRow
       THEN Answers(r, "info_hash_not_found", {}) /\ UNCHANGED <<peers, state>>
       ELSE DeleteStale(req[r].now) /\ Answers(r, "ok", Swarm(h, peers', state'))
    /\ UNCHANGED <<files, history>>

(* The client goes away, the database stays locked, or an I/O call raises: *)
(* the connection closes and its transaction is rolled back.               *)
Abort(r) ==
    /\ pc[r] # "idle"
    /\ Answers(r, "unavailable", {})
    /\ UNCHANGED <<database, history>>

(* The tracker process dies and starts again on the same database. *)
Restart ==
    /\ \E r \in Request : pc[r] # "idle"
    /\ pc' = [r \in Request |-> "idle"]
    /\ req' = [r \in Request |-> NoRequest]
    /\ reply' = NoReply
    /\ UNCHANGED <<database, clock, history>>

(* A second passes. *)
Tick ==
    /\ clock < MaxClock
    /\ \A r \in Request : pc[r] # "idle" => clock < req[r].now + MaxDelay
    /\ clock' = clock + 1
    /\ reply' = NoReply
    /\ UNCHANGED <<database, pc, req, history>>

Handle(r) ==
    \/ RegisterPeer(r)
    \/ HeartbeatPeer(r)
    \/ SelectPeer(r)
    \/ SelectMetadata(r)
    \/ CommitAnnounce(r)
    \/ GetSwarm(r)

Next ==
    \/ \E r \in Request : Arrives(r) \/ Handle(r) \/ Abort(r)
    \/ Restart
    \/ Tick

Spec == Init /\ [][Next]_vars

-----------------------------------------------------------------------------
(* Whatever is deleted or inserted between the statements of a handler, a  *)
(* peer listed for a file is registered and the file's metadata is known.  *)
NoOrphanState ==
    \A p \in Peer, h \in InfoHash :
        state[p][h] # NoRow => peers[p] # NoRow /\ files[h] # NoRow

(* Of peers that announce a file with different metadata, only those that  *)
(* agree with what is stored, then and ever after, are told of success.    *)
AcceptedMetadataStands ==
    \A h \in InfoHash, m \in Meta : <<h, m>> \in accepted => files[h] = m

(* A peer whose registration or heartbeat was acknowledged is not pruned   *)
(* before heartbeat_ttl_seconds have passed, less the longest time a       *)
(* request may take: a late handler may set last_seen_at back.             *)
KeptAlive ==
    [][\A p \in Peer :
          peers[p] # NoRow /\ peers'[p] = NoRow => lastAck[p] + TTL < clock + MaxDelay]_vars

(* A swarm lists no peer that was silent for longer than the TTL and the   *)
(* time the request itself took, and no chunk that the file does not have.  *)
SwarmListsOnlyLive ==
    [][\A r \in Request : Runs(r, "get_swarm", "called") /\ pc'[r] = "idle" =>
          \A l \in reply'.swarm :
             /\ l.lastSeen + TTL + MaxDelay >= clock
             /\ l.chunks \subseteq Chunks(files[req[r].hash])]_vars

(* store.py calls announce_file an upsert: a registered peer that announces *)
(* metadata equal to what is stored is never refused.                       *)
AnnounceUpserts ==
    [][\A r \in Request :
          pc[r] = "insert" /\ pc'[r] = "idle" /\ reply'.status = "integrity_error"
             => \/ peers[req[r].peer] = NoRow
                \/ files[req[r].hash] # req[r].meta]_vars

-----------------------------------------------------------------------------
(* The inductive invariant behind the safety properties. *)

(* What a handler knows between its statements: a stored metadata stays. *)
HandlerKnows(r) ==
    /\ pc[r] \in {"metadata", "insert", "update"} => req[r].op = "announce"
    /\ pc[r] = "update" => files[req[r].hash] = req[r].meta

StateFits ==
    \A p \in Peer, h \in InfoHash :
        state[p][h] # NoRow => state[p][h] \subseteq Chunks(files[h])

(* A handler reads the clock at most MaxDelay before it commits, and an    *)
(* acknowledgement is at most that much later than the row it came from.   *)
InTime ==
    /\ \A r \in Request :
          pc[r] # "idle" => req[r].now <= clock /\ clock <= req[r].now + MaxDelay
    /\ \A p \in Peer : lastAck[p] <= clock
    /\ \A p \in Peer : peers[p] # NoRow => lastAck[p] <= peers[p].lastSeen + MaxDelay

IInv ==
    /\ TypeOK
    /\ NoOrphanState
    /\ AcceptedMetadataStands
    /\ \A r \in Request : HandlerKnows(r)
    /\ StateFits
    /\ InTime

-----------------------------------------------------------------------------
(* The database is a registry whose operations take effect one at a time. *)
R == INSTANCE TrackerRegistry

ImplementsRegistry == R!Spec
=============================================================================
