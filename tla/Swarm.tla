------------------------------- MODULE Swarm --------------------------------
(***************************************************************************)
(* Several peers, one file and the tracker: PeerNode of client/core/node.py *)
(* as the commands of cli/main.py and the agent run it.                    *)
(*                                                                         *)
(* The tracker is TrackerRegistry, which TrackerStore implements.  Asking  *)
(* a peer for a chunk is one step: it succeeds when the peer serves the    *)
(* file, unless the network loses every attempt that PeerExchange makes.   *)
(* What a download does to the disk is in DownloadStore: here a node has   *)
(* its complete chunks, which last, and in the end a copy of the file.     *)
(***************************************************************************)
EXTENDS Naturals

CONSTANTS
    Node,       \* peer ids
    Seeder,     \* the nodes whose user has the file
    Agent,      \* the nodes that are agents: the others run a command each time
    File,       \* its info_hash, and its metadata
    NumChunks,
    TTL,        \* heartbeat_ttl_seconds
    Interval,   \* heartbeat_interval_seconds
    MaxDelay,   \* bound: how late a heartbeat may be, waiting for the last answer
                \* or for a file to be hashed, which blocks the event loop
    MaxClock,   \* bound: time in a behaviour
    MaxFaults,  \* bound: requests lost, processes stopped or killed, files edited
    NoRow,      \* no such row of the tracker
    NoPeer      \* no peer to ask

Time == 0 .. MaxClock
Chunk == 0 .. (NumChunks - 1)
Row == [addr : Node, lastSeen : Time]

ASSUME SwarmAssumption ==
    /\ Node \subseteq Nat /\ Seeder \subseteq Node /\ Agent \subseteq Node /\ NoPeer \notin Node
    /\ NumChunks \in Nat \ {0}
    /\ TTL \in Nat /\ Interval \in Nat \ {0} /\ MaxDelay \in Nat
    /\ MaxClock \in Nat /\ MaxFaults \in Nat
    /\ NoRow # File
    /\ \A c \in SUBSET Chunk : NoRow # c
    /\ NoRow \notin Row

VARIABLES
    (* the tracker *)
    peers, files, state,
    (* the processes *)
    clock,
    pc,      \* where the process of each node stands
    due,     \* when its next heartbeat is due
    missed,  \* heartbeats that failed since the last one that did not
    (* their data directories *)
    shared,  \* whether the file is in the node's share catalogue
    copy,    \* the node's file: "none", "whole", or "edited" since it was shared
    have,    \* the complete chunks in its download store
    (* the locals of download_file *)
    todo,    \* progress.missing_chunks, those not yet stored
    choice,  \* the peer that will be asked for each chunk
    seeds,   \* history: the peers listed with the whole file
    faults

registry == <<peers, files, state>>
download == <<todo, choice, seeds>>
vars == <<registry, clock, pc, due, missed, shared, copy, have, download, faults>>

R == INSTANCE TrackerRegistry WITH
        Peer <- Node, Addr <- Node, InfoHash <- {File}, Meta <- {File},
        TotalChunks <- [f \in {File} |-> NumChunks]

TypeOK ==
    /\ peers \in [Node -> {NoRow} \cup Row]
    /\ files \in [{File} -> {NoRow, File}]
    /\ state \in [Node -> [{File} -> {NoRow} \cup SUBSET Chunk]]
    /\ clock \in Time
    /\ pc \in [Node -> {"off", "register", "share", "announce_share", "idle", "swarm",
                        "fetch", "announce", "leave"}]
    /\ due \in [Node -> Nat] /\ missed \in [Node -> Nat]
    /\ shared \in [Node -> BOOLEAN]
    /\ copy \in [Node -> {"none", "whole", "edited"}]
    /\ have \in [Node -> SUBSET Chunk] /\ todo \in [Node -> SUBSET Chunk]
    /\ choice \in [Node -> [Chunk -> Node \cup {NoPeer}]]
    /\ seeds \in [Node -> SUBSET Node]
    /\ faults \in 0 .. MaxFaults

NoChoice == [c \in Chunk |-> NoPeer]

Init ==
    /\ R!Init
    /\ clock = 0
    /\ pc = [n \in Node |-> "off"]
    /\ due = [n \in Node |-> 0]
    /\ missed = [n \in Node |-> 0]
    /\ shared = [n \in Node |-> FALSE]
    /\ copy = [n \in Node |-> IF n \in Seeder THEN "whole" ELSE "none"]
    /\ have = [n \in Node |-> {}]
    /\ todo = [n \in Node |-> {}]
    /\ choice = [n \in Node |-> NoChoice]
    /\ seeds = [n \in Node |-> {}]
    /\ faults = 0

-----------------------------------------------------------------------------
(* PeerServer listens before the registration and until the node stops;    *)
(* the heartbeat loop runs from the registration on.                       *)
Listening(n) == pc[n] # "off"
Running(n) == pc[n] \notin {"off", "register"}

(* What the node answers to a piece_request for the file. *)
Serves(n) == Listening(n) /\ shared[n] /\ copy[n] = "whole"

Goes(n, from, to) == pc[n] = from /\ pc' = [pc EXCEPT ![n] = to]

(* The end of a download, which `client download` follows by stopping its *)
(* node, as every command does after an exception.                         *)
Returns(n) == IF n \in Agent THEN "idle" ELSE "leave"

(* The locals of download_file are gone. *)
Forgets(n) ==
    /\ todo' = [todo EXCEPT ![n] = {}]
    /\ choice' = [choice EXCEPT ![n] = NoChoice]
    /\ seeds' = [seeds EXCEPT ![n] = {}]

Fault == faults < MaxFaults /\ faults' = faults + 1

(* A process ends. *)
Ends(n) ==
    /\ pc' = [pc EXCEPT ![n] = "off"]
    /\ Forgets(n)
    /\ missed' = [missed EXCEPT ![n] = 0]
    /\ due' = [due EXCEPT ![n] = 0]
    /\ UNCHANGED <<registry, clock, shared, copy, have>>

-----------------------------------------------------------------------------
(* The user starts a command; its peer server listens. *)
Launch(n) ==
    /\ Goes(n, "off", "register")
    /\ n \notin Agent => copy[n] # "edited"
    /\ UNCHANGED <<registry, clock, due, missed, shared, copy, have, download, faults>>

(* PeerNode.start: registered; the first heartbeat follows at once. *)
Register(n) ==
    /\ Goes(n, "register", CASE n \in Agent -> "idle"
                             [] copy[n] = "none" -> "swarm"
                             [] OTHER -> "share")
    /\ R!Register(n, n, clock)
    /\ due' = [due EXCEPT ![n] = clock]
    /\ missed' = [missed EXCEPT ![n] = 0]
    /\ UNCHANGED <<clock, shared, copy, have, download, faults>>

(* share_file: register_file, up to the await of announce_file. *)
Catalogue(n) ==
    /\ \/ Goes(n, "share", "announce_share")
       \/ n \in Agent /\ Goes(n, "idle", "announce_share")
    /\ copy[n] = "whole"
    /\ shared' = [shared EXCEPT ![n] = TRUE]
    /\ UNCHANGED <<registry, clock, due, missed, copy, have, download, faults>>

(* announce_file, which needs a registered peer. *)
Announces(n, chunks) ==
    IF peers[n] # NoRow THEN R!Announce(n, File, File, chunks) ELSE UNCHANGED registry

AnnounceShare(n) ==
    /\ Goes(n, "announce_share", IF peers[n] # NoRow THEN "idle" ELSE Returns(n))
    /\ Announces(n, Chunk)
    /\ UNCHANGED <<clock, due, missed, shared, copy, have, download, faults>>

(* The agent is asked for a download. *)
StartDownload(n) ==
    /\ n \in Agent /\ copy[n] = "none"
    /\ Goes(n, "idle", "swarm")
    /\ UNCHANGED <<registry, clock, due, missed, shared, copy, have, download, faults>>

(* The rows of the swarm query, and their order: whole files first, then   *)
(* the latest seen, then by peer id.                                       *)
Listed(State) == {p \in Node : State[p][File] # NoRow}

(* Faulty variant: ORDER BY last_seen_at only. *)
LatestSeenFirst(p, q, Rows, State) ==
    \/ Rows[p].lastSeen > Rows[q].lastSeen
    \/ Rows[p].lastSeen = Rows[q].lastSeen /\ p < q

ListedBefore(p, q, Rows, State) ==
    LET whole(r) == State[r][File] = Chunk IN
    \/ whole(p) /\ ~whole(q)
    \/ /\ whole(p) = whole(q)
       /\ \/ Rows[p].lastSeen > Rows[q].lastSeen
          \/ Rows[p].lastSeen = Rows[q].lastSeen /\ p < q

(* _select_peer_for_chunk: the first other peer that lists the chunk. *)
SelectPeer(n, c, Rows, State) ==
    LET able == {p \in Listed(State) \ {n} : c \in State[p][File]} IN
    IF able = {} THEN NoPeer
    ELSE CHOOSE p \in able : \A q \in able \ {p} : ListedBefore(p, q, Rows, State)

(* get_swarm of the tracker prunes first. *)
Prune == IF clock >= TTL THEN R!Expire(clock - TTL) ELSE UNCHANGED registry

(* Faulty variant: a download starts afresh. *)
FromScratch(n) == {}

(* create_or_resume_download: what is still complete of an earlier call. *)
Resumed(n) == have[n]

(* download_file: the swarm is read once, the missing chunks are listed.   *)
GetSwarm(n) ==
    /\ pc[n] = "swarm"
    /\ IF files[File] = NoRow
       THEN /\ pc' = [pc EXCEPT ![n] = Returns(n)]
            /\ UNCHANGED <<registry, have, download>>
       ELSE /\ Prune
            /\ have' = [have EXCEPT ![n] = Resumed(n)]
            /\ IF have'[n] = Chunk
               THEN Goes(n, "swarm", "announce") /\ UNCHANGED download
               ELSE /\ Goes(n, "swarm", "fetch")
                    /\ todo' = [todo EXCEPT ![n] = Chunk \ have'[n]]
                    /\ choice' = [choice EXCEPT ![n] =
                             [c \in Chunk |-> SelectPeer(n, c, peers', state')]]
                    /\ seeds' = [seeds EXCEPT ![n] =
                             {p \in Node \ {n} : state'[p][File] = Chunk}]
    /\ UNCHANGED <<clock, due, missed, shared, copy, faults>>

NextChunk(n) == CHOOSE c \in todo[n] : \A d \in todo[n] : c <= d

(* request_chunk and write_chunk.  After a chunk max_chunks may end the    *)
(* loop.                                                                   *)
Fetch(n) ==
    LET c == NextChunk(n) IN
    /\ pc[n] = "fetch"
    /\ choice[n][c] # NoPeer /\ Serves(choice[n][c])
    /\ have' = [have EXCEPT ![n] = @ \cup {c}]
    /\ \/ /\ todo[n] # {c}
          /\ todo' = [todo EXCEPT ![n] = @ \ {c}]
          /\ UNCHANGED <<pc, choice, seeds>>
       \/ Goes(n, "fetch", "announce") /\ Forgets(n)
    /\ UNCHANGED <<registry, clock, due, missed, shared, copy, faults>>

(* chunk_unavailable, or the peer refuses or is gone: no other peer is     *)
(* tried, the call fails.                                                  *)
FetchFails(n) ==
    LET p == choice[n][NextChunk(n)] IN
    /\ pc[n] = "fetch"
    /\ p # NoPeer => ~Serves(p)
    /\ Goes(n, "fetch", Returns(n))
    /\ Forgets(n)
    /\ UNCHANGED <<registry, clock, due, missed, shared, copy, have, faults>>

(* Faulty variant: all chunks are announced, as share_file does. *)
AnnounceAll(n) == Chunk

(* Faulty variant: chunks are counted from 1. *)
OneBased(n) == {c + 1 : c \in have[n]}

Completed(n) == have[n]

(* What is complete is announced; the whole file is moved to its target    *)
(* only after the tracker has accepted that.                               *)
AnnounceChunks(n) ==
    /\ Goes(n, "announce", Returns(n))
    /\ Announces(n, Completed(n))
    /\ copy' = IF peers[n] # NoRow /\ have[n] = Chunk
               THEN [copy EXCEPT ![n] = "whole"] ELSE copy
    /\ UNCHANGED <<clock, due, missed, shared, have, download, faults>>

(* `client download` stops its node in the end. *)
Leave(n) == pc[n] = "leave" /\ Ends(n) /\ UNCHANGED faults

-----------------------------------------------------------------------------
(* Faulty variant: the loop sleeps for the TTL. *)
NextBeatAtTTL == clock + TTL + 1

NextBeat == clock + Interval

(* _heartbeat_loop: answered, or a 404 that is only logged. *)
Beat(n) ==
    /\ Running(n) /\ clock >= due[n]
    /\ due' = [due EXCEPT ![n] = NextBeat]
    /\ IF peers[n] # NoRow
       THEN R!Heartbeat(n, clock) /\ missed' = [missed EXCEPT ![n] = 0]
       ELSE UNCHANGED <<registry, missed>>
    /\ UNCHANGED <<clock, pc, shared, copy, have, download, faults>>

(* The request is lost, or the tracker is away. *)
BeatLost(n) ==
    /\ Running(n) /\ clock >= due[n]
    /\ Fault
    /\ due' = [due EXCEPT ![n] = NextBeat]
    /\ missed' = [missed EXCEPT ![n] = @ + 1]
    /\ UNCHANGED <<registry, clock, pc, shared, copy, have, download>>

(* A request to the tracker is lost, or its answer is, or every attempt at *)
(* a chunk is: the coroutine gets an exception, whether or not the tracker *)
(* did what it asked.                                                      *)
RequestLost(n) ==
    /\ Fault
    /\ \/ /\ Goes(n, "register", "off") /\ UNCHANGED download
          /\ R!Register(n, n, clock) \/ UNCHANGED registry
       \/ Goes(n, "swarm", Returns(n)) /\ UNCHANGED <<registry, download>>
       \/ /\ Goes(n, "announce_share", Returns(n)) /\ UNCHANGED download
          /\ Announces(n, Chunk) \/ UNCHANGED registry
       \/ Goes(n, "fetch", Returns(n)) /\ Forgets(n) /\ UNCHANGED registry
       \/ /\ Goes(n, "announce", Returns(n)) /\ UNCHANGED download
          /\ Announces(n, Completed(n)) \/ UNCHANGED registry
    /\ UNCHANGED <<clock, due, missed, shared, copy, have>>

(* Ctrl+C, the agent's stop_node, or the death of the process. *)
Interrupt(n) == pc[n] \notin {"off", "leave"} /\ Fault /\ Ends(n)

(* The user changes or removes the file that is shared. *)
Edit(n) ==
    /\ shared[n] /\ copy[n] = "whole"
    /\ Fault
    /\ copy' = [copy EXCEPT ![n] = "edited"]
    /\ UNCHANGED <<registry, clock, pc, due, missed, shared, have, download>>

Tick ==
    /\ clock < MaxClock
    /\ \A n \in Node : Running(n) => clock < due[n] + MaxDelay
    /\ clock' = clock + 1
    /\ UNCHANGED <<registry, pc, due, missed, shared, copy, have, download, faults>>

NodeStep(n) ==
    \/ Register(n)
    \/ pc[n] = "share" /\ Catalogue(n)
    \/ AnnounceShare(n)
    \/ StartDownload(n)
    \/ GetSwarm(n)
    \/ Fetch(n)
    \/ FetchFails(n)
    \/ AnnounceChunks(n)
    \/ Leave(n)

Retry(n) == copy[n] = "none" /\ Launch(n)

Next ==
    \/ \E n \in Node :
          \/ Launch(n)
          \/ NodeStep(n)
          \/ Catalogue(n)
          \/ Beat(n)
          \/ BeatLost(n)
          \/ RequestLost(n)
          \/ Interrupt(n)
          \/ Edit(n)
    \/ Tick

Spec == Init /\ [][Next]_vars

(* Every process that can go on does so, and a user who does not have the  *)
(* file tries again.                                                       *)
Fairness == \A n \in Node : WF_vars(NodeStep(n)) /\ WF_vars(Retry(n))

FairSpec == Spec /\ Fairness

-----------------------------------------------------------------------------
(* A node that runs is pruned only after so many heartbeats have failed    *)
(* that the others could not keep it: with 30 seconds between heartbeats,  *)
(* up to 5 for an answer and a TTL of 120, three must fail in a row.       *)
(* register_file and finalize_download hash a whole file without yielding  *)
(* to the loop; MaxDelay has to cover the largest file, and beyond 90    *)
(* these numbers promise nothing.                                          *)
ListedWhileBeating ==
    [][\A n \in Node :
          Running(n) /\ peers[n] # NoRow /\ peers'[n] = NoRow =>
             (missed[n] + 1) * (Interval + MaxDelay) > TTL]_vars

(* The tracker lists for a node only chunks which it holds on disk: of a   *)
(* file that it shares, or complete in its download store.                 *)
AnnouncedHeld ==
    \A n \in Node : state[n][File] # NoRow =>
        shared[n] \/ state[n][File] \subseteq have[n]

(* A download that saw a seed which still serves fails only on a peer that *)
(* had announced the whole file too: one that left, edited the file, only  *)
(* downloaded it, or could not be reached in any attempt.  Of peers with   *)
(* parts of the file none can do such harm, since they are listed last.    *)
SeedsAskedFirst ==
    [][\A n \in Node :
          /\ pc[n] = "fetch" /\ pc'[n] \in {"idle", "leave"}
          /\ \E s \in seeds[n] : Serves(s)
          => choice[n][NextChunk(n)] \in seeds[n]]_vars

(* From the share to the copy: if in the end some seed stays listed, and   *)
(* every peer that is listed with the whole file serves it, then all who   *)
(* want the file get it, unless the tracker forgets them for good: a node  *)
(* that was pruned while it runs never registers again.                    *)
Seeded ==
    /\ \E s \in Node : state[s][File] = Chunk
    /\ \A p \in Node : state[p][File] = Chunk => Serves(p) \/ copy[p] = "none"

AllGetTheFile ==
    \A n \in Node \ Seeder :
        <>[]Seeded /\ []<>(peers[n] # NoRow) => <>(copy[n] # "none")

-----------------------------------------------------------------------------
(* The inductive invariant behind the safety properties. *)

(* The next heartbeat of a node that runs is at most that late, and its    *)
(* row at most one interval and delay older for each that failed.          *)
BeatsInTime ==
    \A n \in Node : Running(n) =>
        /\ clock <= due[n] + MaxDelay
        /\ peers[n] # NoRow =>
              due[n] + MaxDelay <= peers[n].lastSeen + (missed[n] + 1) * (Interval + MaxDelay)

(* What download_file knows in its loop: if the swarm had seeds, it goes    *)
(* to one of them for every chunk.                                         *)
LoopKnows ==
    \A n \in Node : pc[n] = "fetch" =>
        /\ todo[n] # {}
        /\ seeds[n] # {} => \A c \in Chunk : choice[n][c] \in seeds[n]

ListedRegistered == \A n \in Node : state[n][File] # NoRow => peers[n] # NoRow

IInv ==
    /\ TypeOK
    /\ ListedRegistered
    /\ AnnouncedHeld
    /\ \A n \in Node : pc[n] = "announce_share" => shared[n]
    /\ BeatsInTime
    /\ LoopKnows
=============================================================================
