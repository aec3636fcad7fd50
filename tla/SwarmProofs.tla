---------------------------- MODULE SwarmProofs -----------------------------
(***************************************************************************)
(* Proofs about Swarm, for any number of nodes, chunks and faults, and any *)
(* TTL and heartbeat interval.                                             *)
(***************************************************************************)
EXTENDS Swarm, TLAPS, WellFoundedInduction

State == [Node -> [{File} -> {NoRow} \cup SUBSET Chunk]]
Rows == [Node -> {NoRow} \cup Row]

RegistryOK ==
    /\ peers \in Rows
    /\ files \in [{File} -> {NoRow, File}]
    /\ state \in State

ProcessOK ==
    /\ clock \in Time
    /\ pc \in [Node -> {"off", "register", "share", "announce_share", "idle", "swarm",
                        "fetch", "announce", "leave"}]
    /\ due \in [Node -> Nat] /\ missed \in [Node -> Nat]
    /\ shared \in [Node -> BOOLEAN]
    /\ copy \in [Node -> {"none", "whole", "edited"}]
    /\ faults \in 0 .. MaxFaults

DownloadOK ==
    /\ have \in [Node -> SUBSET Chunk] /\ todo \in [Node -> SUBSET Chunk]
    /\ choice \in [Node -> [Chunk -> Node \cup {NoPeer}]]
    /\ seeds \in [Node -> SUBSET Node]

LEMMA TypeSplit == TypeOK <=> RegistryOK /\ ProcessOK /\ DownloadOK
  BY DEF TypeOK, RegistryOK, ProcessOK, DownloadOK, State, Rows

LEMMA Numbers ==
    /\ Time \subseteq Nat /\ Chunk \subseteq Nat /\ 0 \in Time
    /\ \A row \in Row : row.lastSeen \in Time /\ row # NoRow
  BY SwarmAssumption DEF Time, Chunk, Row

-----------------------------------------------------------------------------
(* A set of numbers has a least one. *)
LEMMA Least ==
    ASSUME NEW S \in SUBSET Nat, S # {}
    PROVE  \E m \in S : \A k \in S : m <= k
  <1>. DEFINE Order == OpToRel(<, Nat)
  <1>1. \A a, b \in Nat : a < b => <<a, b>> \in Order
    BY DEF OpToRel
  <1>2. IsWellFoundedOn(Order, Nat)
    BY NatLessThanWellFounded
  <1>. HIDE DEF Order
  <1>3. PICK m \in S : \A k \in S : ~ (<<k, m>> \in Order)
    BY <1>2, WFMin
  <1>4. \A k \in S : k \in Nat /\ m \in Nat /\ ~ (k < m)
    BY <1>1, <1>3
  <1>5. \A k \in S : m <= k
    BY <1>4
  <1>. QED  BY <1>5

(* The order of a swarm has a first element among any of its peers.        *)
LEMMA FirstListed ==
    ASSUME NEW rows \in Rows, NEW st \in State,
           NEW able \in SUBSET Node, able # {},
           \A p \in able : rows[p] # NoRow
    PROVE  \E p \in able : \A q \in able \ {p} : ListedBefore(p, q, rows, st)
  <1>. DEFINE whole == {p \in able : st[p][File] = Chunk}
              best == IF whole # {} THEN whole ELSE able
              Age(p) == MaxClock - rows[p].lastSeen
              ages == {Age(p) : p \in best}
  <1>1. \A p \in able : rows[p].lastSeen \in Time
    BY Numbers DEF Rows
  <1>2. \A p \in able : rows[p].lastSeen \in Nat /\ Age(p) \in Nat
    BY <1>1, SwarmAssumption DEF Time
  <1>3. best # {} /\ best \subseteq able
    OBVIOUS
  <1>4. ages \in SUBSET Nat /\ ages # {}
    BY <1>2, <1>3
  <1>5. PICK age \in ages : \A a \in ages : age <= a
    BY <1>4, Least
  <1>. DEFINE latest == {p \in best : Age(p) = age}
  <1>6. latest \in SUBSET Nat /\ latest # {}
    BY <1>3, SwarmAssumption
  <1>7. PICK p \in latest : \A q \in latest : p <= q
    BY <1>6, Least
  <1>8. p \in able /\ p \in best
    BY <1>3
  <1>9. ASSUME NEW q \in able \ {p}  PROVE ListedBefore(p, q, rows, st)
    <2>1. CASE q \in best
      <3>1. (st[p][File] = Chunk) = (st[q][File] = Chunk)
        BY <1>8, <2>1
      <3>2. Age(p) <= Age(q)
        BY <1>5, <2>1
      <3>3. rows[p].lastSeen >= rows[q].lastSeen
        BY <1>2, <1>8, <3>2, SwarmAssumption
      <3>4. CASE rows[p].lastSeen = rows[q].lastSeen
        <4>1. q \in latest
          BY <2>1, <3>4
        <4>2. p \in Nat /\ q \in Nat /\ p <= q /\ p # q
          BY <1>6, <1>7, <4>1
        <4>3. p < q
          BY <4>2
        <4>. QED  BY <3>1, <3>4, <4>3 DEF ListedBefore
      <3>5. CASE rows[p].lastSeen # rows[q].lastSeen
        <4>1. rows[p].lastSeen > rows[q].lastSeen
          BY <1>2, <1>8, <3>3, <3>5
        <4>. QED  BY <3>1, <4>1 DEF ListedBefore
      <3>. QED  BY <3>4, <3>5
    <2>2. CASE q \notin best
      BY <1>8, <2>2 DEF ListedBefore
    <2>. QED  BY <2>1, <2>2
  <1>. QED  BY <1>8, <1>9

(* _select_peer_for_chunk finds another node that lists the chunk if there  *)
(* is one, and one with the whole file if there is one of those.           *)
LEMMA SelectPeerFinds ==
    ASSUME NEW n \in Node, NEW c \in Chunk, NEW rows \in Rows, NEW st \in State,
           \A p \in Node : st[p][File] # NoRow => rows[p] # NoRow
    PROVE  /\ SelectPeer(n, c, rows, st) \in Node \cup {NoPeer}
           /\ \A s \in Node \ {n} : st[s][File] = Chunk =>
                 /\ SelectPeer(n, c, rows, st) \in Node \ {n}
                 /\ st[SelectPeer(n, c, rows, st)][File] = Chunk
  <1>. DEFINE able == {p \in Listed(st) \ {n} : c \in st[p][File]}
              chosen == SelectPeer(n, c, rows, st)
  <1>1. able \in SUBSET Node /\ \A p \in able : rows[p] # NoRow
    BY DEF Listed
  <1>2. chosen = IF able = {} THEN NoPeer
                 ELSE CHOOSE p \in able : \A q \in able \ {p} : ListedBefore(p, q, rows, st)
    BY DEF SelectPeer
  <1>. HIDE DEF chosen
  <1>3. able # {} => /\ chosen \in able
                     /\ \A q \in able \ {chosen} : ListedBefore(chosen, q, rows, st)
    <2>. HIDE DEF able
    <2>. QED  BY <1>1, <1>2, FirstListed
  <1>4. ASSUME NEW s \in Node \ {n}, st[s][File] = Chunk
        PROVE  chosen \in Node \ {n} /\ st[chosen][File] = Chunk
    <2>1. s \in able
      BY <1>4, SwarmAssumption DEF Listed
    <2>2. chosen \in able
      BY <1>3, <2>1
    <2>3. chosen # s => ListedBefore(chosen, s, rows, st)
      BY <1>3, <2>1
    <2>. QED  BY <1>4, <2>2, <2>3 DEF ListedBefore, Listed
  <1>5. chosen \in Node \cup {NoPeer}
    BY <1>1, <1>2, <1>3
  <1>. QED  BY <1>4, <1>5 DEF chosen

-----------------------------------------------------------------------------
LEMMA InitIInv == Init => IInv
  <1>. SUFFICES ASSUME Init PROVE IInv
    OBVIOUS
  <1>. USE SwarmAssumption DEF Init, R!Init
  <1>1. RegistryOK
    BY DEF RegistryOK, Rows, State
  <1>2. ProcessOK
    BY DEF ProcessOK, Time
  <1>3. DownloadOK
    BY DEF DownloadOK, NoChoice
  <1>4. AnnouncedHeld /\ ListedRegistered
    BY DEF AnnouncedHeld, ListedRegistered
  <1>5. BeatsInTime /\ LoopKnows
    BY DEF BeatsInTime, LoopKnows, Running
  <1>. QED  BY <1>1, <1>2, <1>3, <1>4, <1>5, TypeSplit DEF IInv

-----------------------------------------------------------------------------
(* What the requests do to the tables of the tracker. *)
LEMMA Registered ==
    ASSUME IInv, NEW n \in Node, R!Register(n, n, clock)
    PROVE  /\ RegistryOK' /\ ListedRegistered'
           /\ peers'[n] = [addr |-> n, lastSeen |-> clock]
           /\ \A p \in Node \ {n} : peers'[p] = peers[p]
           /\ state' = state
  <1>1. RegistryOK /\ clock \in Time
    BY TypeSplit DEF IInv, ProcessOK
  <1>2. [addr |-> n, lastSeen |-> clock] \in Row
    BY <1>1 DEF Row
  <1>. QED  BY <1>1, <1>2, Numbers DEF R!Register, RegistryOK, Rows, IInv, ListedRegistered

LEMMA Beaten ==
    ASSUME IInv, NEW n \in Node, R!Heartbeat(n, clock)
    PROVE  /\ RegistryOK' /\ ListedRegistered'
           /\ peers'[n].lastSeen = clock
           /\ \A p \in Node \ {n} : peers'[p] = peers[p]
           /\ state' = state
  <1>1. RegistryOK /\ clock \in Time
    BY TypeSplit DEF IInv, ProcessOK
  <1>2. peers[n] \in Row /\ peers'[n] = [peers[n] EXCEPT !.lastSeen = clock]
    BY <1>1 DEF R!Heartbeat, RegistryOK, Rows
  <1>3. peers'[n] \in Row /\ peers'[n].lastSeen = clock
    BY <1>1, <1>2 DEF Row
  <1>. QED  BY <1>1, <1>3, Numbers DEF R!Heartbeat, RegistryOK, Rows, IInv, ListedRegistered

LEMMA Announced ==
    ASSUME IInv, NEW n \in Node, NEW chunks \in SUBSET Chunk, Announces(n, chunks)
    PROVE  /\ RegistryOK' /\ ListedRegistered'
           /\ peers' = peers
           /\ \A p \in Node \ {n} : state'[p] = state[p]
           /\ state'[n][File] \in {state[n][File], chunks}
  <1>1. RegistryOK
    BY TypeSplit DEF IInv
  <1>2. CASE peers[n] = NoRow
    BY <1>1, <1>2 DEF Announces, registry, IInv, ListedRegistered, RegistryOK
  <1>3. CASE peers[n] # NoRow
    <2>1. R!Announce(n, File, File, chunks)
      BY <1>3 DEF Announces
    <2>2. /\ peers' = peers
          /\ state' = [state EXCEPT ![n] = [state[n] EXCEPT ![File] = chunks]]
      BY <1>1, <2>1 DEF R!Announce, RegistryOK, State
    <2>3. state' \in State /\ state'[n][File] = chunks
      BY <1>1, <2>2 DEF RegistryOK, State
    <2>4. files' \in [{File} -> {NoRow, File}]
      BY <1>1, <2>1 DEF R!Announce, RegistryOK
    <2>. QED  BY <1>1, <1>3, <2>2, <2>3, <2>4 DEF RegistryOK, IInv, ListedRegistered, State
  <1>. QED  BY <1>2, <1>3

LEMMA Pruned ==
    ASSUME IInv, Prune
    PROVE  /\ RegistryOK' /\ ListedRegistered'
           /\ \A p \in Node : peers'[p] # NoRow => peers'[p] = peers[p]
           /\ \A p \in Node : state'[p][File] # NoRow => state'[p] = state[p]
           /\ \A p \in Node : peers[p] # NoRow /\ peers'[p] = NoRow =>
                 peers[p].lastSeen + TTL < clock
  <1>1. RegistryOK /\ clock \in Nat
    BY TypeSplit, Numbers DEF IInv, ProcessOK
  <1>2. CASE clock < TTL
    BY <1>1, <1>2, SwarmAssumption DEF Prune, registry, IInv, ListedRegistered, RegistryOK
  <1>3. CASE clock >= TTL
    <2>. DEFINE gone == R!Expired(clock - TTL)
    <2>1. R!Expire(clock - TTL)
      BY <1>3 DEF Prune
    <2>2. peers' = [p \in Node |-> IF p \in gone THEN NoRow ELSE peers[p]]
      BY <2>1 DEF R!Expire
    <2>3. state' = [p \in Node |-> IF p \in gone THEN [h \in {File} |-> NoRow] ELSE state[p]]
      BY <2>1 DEF R!Expire
    <2>4. files' = files
      BY <2>1 DEF R!Expire
    <2>5. \A p \in gone : peers[p] # NoRow /\ peers[p].lastSeen < clock - TTL
      BY DEF R!Expired
    <2>. HIDE DEF gone
    <2>6. peers' \in Rows /\ state' \in State
      BY <1>1, <2>2, <2>3 DEF RegistryOK, Rows, State
    <2>7. \A p \in gone : peers[p].lastSeen + TTL < clock
      <3>1. \A p \in gone : p \in Node => peers[p].lastSeen \in Nat
        BY <1>1, <2>5, Numbers DEF RegistryOK, Rows
      <3>2. \A p \in gone : p \in Node
        BY DEF gone, R!Expired
      <3>3. ASSUME NEW p \in gone  PROVE peers[p].lastSeen + TTL < clock
        <4>1. peers[p].lastSeen \in Nat /\ peers[p].lastSeen < clock - TTL
          BY <2>5, <3>1, <3>2
        <4>2. TTL \in Nat
          BY SwarmAssumption
        <4>. QED  BY <1>1, <4>1, <4>2
      <3>. QED  BY <3>3
    <2>. QED  BY <1>1, <2>2, <2>3, <2>4, <2>6, <2>7 DEF RegistryOK, IInv, ListedRegistered
  <1>. QED  BY <1>1, <1>2, <1>3, SwarmAssumption

(* The actions, one by one. *)
Action(n) ==
    \/ Launch(n) \/ Register(n) \/ Catalogue(n) \/ AnnounceShare(n)
    \/ StartDownload(n) \/ GetSwarm(n) \/ Fetch(n) \/ FetchFails(n)
    \/ AnnounceChunks(n) \/ Leave(n) \/ Beat(n) \/ BeatLost(n)
    \/ RequestLost(n) \/ Interrupt(n) \/ Edit(n)

LEMMA NextSplit ==
    ASSUME [Next]_vars
    PROVE  (\E n \in Node : Action(n)) \/ Tick \/ UNCHANGED vars
  BY DEF Next, NodeStep, Action

-----------------------------------------------------------------------------
(* The requests that each action makes. *)
LEMMA RegistryCases ==
    ASSUME NEW n \in Node, Action(n)
    PROVE  \/ UNCHANGED registry
           \/ pc[n] = "register" /\ R!Register(n, n, clock)
           \/ pc[n] = "announce_share" /\ Announces(n, Chunk)
           \/ Announces(n, have[n])
           \/ GetSwarm(n) /\ Prune
           \/ Beat(n) /\ R!Heartbeat(n, clock)
  BY DEF Action, Launch, Register, Catalogue, AnnounceShare, StartDownload, GetSwarm, Fetch,
         FetchFails, AnnounceChunks, Completed, Leave, Ends, Beat, BeatLost, RequestLost,
         Interrupt, Edit, Goes, registry

LEMMA RegistryStep ==
    ASSUME IInv, [Next]_vars
    PROVE  RegistryOK' /\ ListedRegistered'
  <1>1. RegistryOK /\ ListedRegistered /\ DownloadOK
    BY TypeSplit DEF IInv
  <1>2. UNCHANGED registry => RegistryOK' /\ ListedRegistered'
    BY <1>1 DEF registry, RegistryOK, ListedRegistered
  <1>3. ASSUME NEW n \in Node, Action(n)  PROVE RegistryOK' /\ ListedRegistered'
    BY <1>1, <1>2, <1>3, RegistryCases, Registered, Beaten, Announced, Pruned DEF DownloadOK
  <1>. QED  BY <1>2, <1>3, NextSplit DEF Tick, vars

LEMMA ProcessStep ==
    ASSUME IInv, [Next]_vars
    PROVE  ProcessOK'
  <1>1. ProcessOK /\ clock \in Nat
    BY TypeSplit, Numbers DEF IInv, ProcessOK
  <1>2. NextBeat \in Nat
    BY <1>1, SwarmAssumption DEF NextBeat
  <1>3. faults' = faults \/ Fault => faults' \in 0 .. MaxFaults
    BY <1>1, SwarmAssumption DEF ProcessOK, Fault
  <1>4. ASSUME NEW n \in Node, Action(n)  PROVE clock' \in Time /\ faults' \in 0 .. MaxFaults
    <2>1. clock' = clock /\ (faults' = faults \/ Fault)
      BY <1>4 DEF Action, Launch, Register, Catalogue, AnnounceShare, StartDownload, GetSwarm,
           Fetch, FetchFails, AnnounceChunks, Leave, Ends, Beat, BeatLost, RequestLost,
           Interrupt, Edit
    <2>. QED  BY <1>1, <1>3, <2>1 DEF ProcessOK
  <1>5. ASSUME NEW n \in Node, Action(n)
        PROVE  pc' \in [Node -> {"off", "register", "share", "announce_share", "idle", "swarm",
                                 "fetch", "announce", "leave"}]
    <2>1. Returns(n) \in {"idle", "leave"}
      BY DEF Returns
    <2>. QED
      BY <1>1, <1>5, <2>1
      DEF ProcessOK, Action, Launch, Register, Catalogue, AnnounceShare, StartDownload, GetSwarm,
          Fetch, FetchFails, AnnounceChunks, Leave, Ends, Beat, BeatLost, RequestLost,
          Interrupt, Edit, Goes
  <1>6. ASSUME NEW n \in Node, Action(n)
        PROVE  due' \in [Node -> Nat] /\ missed' \in [Node -> Nat]
    BY <1>1, <1>2, <1>6
    DEF ProcessOK, Action, Launch, Register, Catalogue, AnnounceShare, StartDownload, GetSwarm,
        Fetch, FetchFails, AnnounceChunks, Leave, Ends, Beat, BeatLost, RequestLost,
        Interrupt, Edit
  <1>7. ASSUME NEW n \in Node, Action(n)
        PROVE  /\ shared' \in [Node -> BOOLEAN]
               /\ copy' \in [Node -> {"none", "whole", "edited"}]
    BY <1>1, <1>7
    DEF ProcessOK, Action, Launch, Register, Catalogue, AnnounceShare, StartDownload, GetSwarm,
        Fetch, FetchFails, AnnounceChunks, Leave, Ends, Beat, BeatLost, RequestLost,
        Interrupt, Edit
  <1>8. CASE Tick
    <2>1. clock' \in Time
      BY <1>1, <1>8, SwarmAssumption DEF Tick, Time, ProcessOK
    <2>. QED  BY <1>1, <1>8, <2>1 DEF Tick, ProcessOK
  <1>9. CASE UNCHANGED vars
    BY <1>1, <1>9 DEF vars, ProcessOK
  <1>10. ASSUME NEW n \in Node, Action(n)  PROVE ProcessOK'
    BY <1>4, <1>5, <1>6, <1>7, <1>10 DEF ProcessOK
  <1>. QED  BY <1>8, <1>9, <1>10, NextSplit

LEMMA NextChunkTodo ==
    ASSUME IInv, NEW n \in Node, pc[n] = "fetch"
    PROVE  NextChunk(n) \in todo[n]
  <1>1. todo[n] \in SUBSET Nat /\ todo[n] # {}
    BY TypeSplit, Numbers DEF IInv, LoopKnows, DownloadOK
  <1>2. \E c \in todo[n] : \A d \in todo[n] : c <= d
    BY <1>1, Least
  <1>. QED  BY <1>2 DEF NextChunk

(* The choice that download_file makes when it has read the swarm. *)
LEMMA SwarmRead ==
    ASSUME IInv, NEW n \in Node, GetSwarm(n), pc'[n] = "fetch"
    PROVE  /\ todo' = [todo EXCEPT ![n] = Chunk \ have[n]] /\ have[n] # Chunk
           /\ seeds' = [seeds EXCEPT ![n] = seeds'[n]]
           /\ choice' = [choice EXCEPT ![n] = choice'[n]]
           /\ seeds'[n] \in SUBSET Node
           /\ choice'[n] \in [Chunk -> Node \cup {NoPeer}]
           /\ seeds'[n] # {} => \A c \in Chunk : choice'[n][c] \in seeds'[n]
  <1>. DEFINE chosen == [c \in Chunk |-> SelectPeer(n, c, peers', state')]
              whole == {p \in Node \ {n} : state'[p][File] = Chunk}
  <1>1. ProcessOK /\ DownloadOK
    BY TypeSplit DEF IInv
  <1>2. files[File] # NoRow /\ have[n] # Chunk
    BY <1>1 DEF GetSwarm, Goes, Returns, Resumed, ProcessOK, DownloadOK
  <1>3. /\ Prune
        /\ todo' = [todo EXCEPT ![n] = Chunk \ have[n]]
        /\ choice' = [choice EXCEPT ![n] = chosen]
        /\ seeds' = [seeds EXCEPT ![n] = whole]
    BY <1>1, <1>2 DEF GetSwarm, Resumed, DownloadOK
  <1>4. /\ peers' \in Rows /\ state' \in State
        /\ \A p \in Node : state'[p][File] # NoRow => peers'[p] # NoRow
    BY <1>3, Pruned DEF RegistryOK, ListedRegistered
  <1>5. \A c \in Chunk :
           /\ SelectPeer(n, c, peers', state') \in Node \cup {NoPeer}
           /\ whole # {} => SelectPeer(n, c, peers', state') \in whole
    BY <1>4, SelectPeerFinds
  <1>6. seeds'[n] = whole /\ choice'[n] = chosen
    BY <1>1, <1>3 DEF DownloadOK
  <1>7. /\ seeds' = [seeds EXCEPT ![n] = seeds'[n]]
        /\ choice' = [choice EXCEPT ![n] = choice'[n]]
    <2>. HIDE DEF chosen, whole
    <2>. QED  BY <1>3, <1>6
  <1>8. seeds'[n] \in SUBSET Node
    BY <1>6
  <1>9. \A c \in Chunk : choice'[n][c] = SelectPeer(n, c, peers', state')
    BY <1>6
  <1>10. choice'[n] \in [Chunk -> Node \cup {NoPeer}]
    BY <1>5, <1>6
  <1>11. seeds'[n] # {} => \A c \in Chunk : choice'[n][c] \in seeds'[n]
    <2>. HIDE DEF whole, chosen
    <2>. QED  BY <1>5, <1>6, <1>9
  <1>. QED  BY <1>2, <1>3, <1>7, <1>8, <1>10, <1>11

LEMMA DownloadStep ==
    ASSUME IInv, [Next]_vars
    PROVE  DownloadOK' /\ LoopKnows'
  <1>1. ProcessOK /\ DownloadOK /\ LoopKnows
    BY TypeSplit DEF IInv
  <1>2. ASSUME UNCHANGED <<have, download>>,
               \A n \in Node : pc'[n] = "fetch" => pc[n] = "fetch"
        PROVE  DownloadOK' /\ LoopKnows'
    BY <1>1, <1>2 DEF download, DownloadOK, LoopKnows
  <1>3. ASSUME NEW n \in Node, Forgets(n), pc'[n] # "fetch",
               \A p \in Node \ {n} : pc'[p] = pc[p],
               have' \in [Node -> SUBSET Chunk]
        PROVE  DownloadOK' /\ LoopKnows'
    BY <1>1, <1>3 DEF Forgets, NoChoice, DownloadOK, LoopKnows
  <1>4. ASSUME NEW n \in Node,
               \/ Launch(n) \/ Register(n) \/ Catalogue(n) \/ AnnounceShare(n) \/ StartDownload(n)
               \/ AnnounceChunks(n) \/ Beat(n) \/ BeatLost(n) \/ Edit(n)
               \/ RequestLost(n) /\ pc[n] # "fetch"
        PROVE  DownloadOK' /\ LoopKnows'
    <2>1. Returns(n) # "fetch"
      BY DEF Returns
    <2>2. UNCHANGED <<have, download>>
      BY <1>4 DEF Launch, Register, Catalogue, AnnounceShare, StartDownload, AnnounceChunks,
                  Beat, BeatLost, RequestLost, Edit, Goes
    <2>3. pc' = pc \/ \E to : to # "fetch" /\ pc' = [pc EXCEPT ![n] = to]
      BY <1>4, <2>1 DEF Launch, Register, Catalogue, AnnounceShare, StartDownload, AnnounceChunks,
                  Beat, BeatLost, RequestLost, Edit, Goes
    <2>4. \A p \in Node : pc'[p] = "fetch" => pc[p] = "fetch"
      BY <1>1, <2>3 DEF ProcessOK
    <2>. QED  BY <1>2, <2>2, <2>4
  <1>5. ASSUME NEW n \in Node, Leave(n) \/ Interrupt(n)  PROVE DownloadOK' /\ LoopKnows'
    BY <1>1, <1>3, <1>5 DEF Leave, Interrupt, Ends, ProcessOK, DownloadOK
  <1>6. ASSUME NEW n \in Node, GetSwarm(n)  PROVE DownloadOK' /\ LoopKnows'
    <2>1. have' = have
      BY <1>1, <1>6 DEF GetSwarm, Resumed, DownloadOK
    <2>2. \A p \in Node \ {n} : pc'[p] = pc[p]
      BY <1>1, <1>6 DEF GetSwarm, Goes, ProcessOK
    <2>3. CASE pc'[n] = "fetch"
      <3>1. Chunk \ have[n] # {}
        <4>1. have[n] # Chunk
          BY <1>6, <2>3, SwarmRead
        <4>2. have[n] \in SUBSET Chunk
          BY <1>1 DEF DownloadOK
        <4>. QED  BY <4>1, <4>2
      <3>2. /\ todo' = [todo EXCEPT ![n] = Chunk \ have[n]]
            /\ seeds' = [seeds EXCEPT ![n] = seeds'[n]]
            /\ choice' = [choice EXCEPT ![n] = choice'[n]]
            /\ seeds'[n] \in SUBSET Node
            /\ choice'[n] \in [Chunk -> Node \cup {NoPeer}]
            /\ seeds'[n] # {} => \A c \in Chunk : choice'[n][c] \in seeds'[n]
        BY <1>6, <2>3, SwarmRead
      <3>3. DownloadOK'
        BY <1>1, <2>1, <3>2 DEF DownloadOK
      <3>4. todo'[n] # {}
        BY <1>1, <3>1, <3>2 DEF DownloadOK
      <3>5. \A p \in Node \ {n} : todo'[p] = todo[p] /\ seeds'[p] = seeds[p] /\ choice'[p] = choice[p]
        BY <1>1, <3>2 DEF DownloadOK
      <3>6. LoopKnows'
        BY <1>1, <2>2, <3>2, <3>4, <3>5 DEF LoopKnows
      <3>. QED  BY <3>3, <3>6
    <2>4. CASE pc'[n] # "fetch"
      <3>1. UNCHANGED download
        BY <1>1, <1>6, <2>4 DEF GetSwarm, Goes, ProcessOK
      <3>. QED  BY <1>2, <2>1, <2>2, <2>4, <3>1
    <2>. QED  BY <2>3, <2>4
  <1>7. ASSUME NEW n \in Node, Fetch(n)  PROVE DownloadOK' /\ LoopKnows'
    <2>. DEFINE c == NextChunk(n)
    <2>1. c \in todo[n] /\ c \in Chunk
      BY <1>1, <1>7, NextChunkTodo DEF Fetch, DownloadOK
    <2>. HIDE DEF c
    <2>2. have' = [have EXCEPT ![n] = @ \cup {c}] /\ have' \in [Node -> SUBSET Chunk]
      BY <1>1, <1>7, <2>1 DEF Fetch, DownloadOK, c
    <2>3. CASE Goes(n, "fetch", "announce") /\ Forgets(n)
      BY <1>1, <1>3, <2>2, <2>3 DEF Goes, ProcessOK
    <2>4. CASE /\ todo[n] # {c}
               /\ todo' = [todo EXCEPT ![n] = @ \ {c}]
               /\ UNCHANGED <<pc, choice, seeds>>
      BY <1>1, <2>1, <2>2, <2>4 DEF DownloadOK, LoopKnows
    <2>. QED  BY <1>7, <2>3, <2>4 DEF Fetch, c
  <1>8. ASSUME NEW n \in Node, FetchFails(n) \/ (RequestLost(n) /\ pc[n] = "fetch")
        PROVE  DownloadOK' /\ LoopKnows'
    <2>1. Returns(n) # "fetch"
      BY DEF Returns
    <2>2. Goes(n, "fetch", Returns(n)) /\ Forgets(n) /\ have' = have
      BY <1>8 DEF FetchFails, RequestLost, Goes
    <2>. QED  BY <1>1, <1>3, <2>1, <2>2 DEF Goes, ProcessOK, DownloadOK
  <1>9. CASE Tick \/ UNCHANGED vars
    BY <1>1, <1>2, <1>9 DEF Tick, vars
  <1>. QED  BY <1>4, <1>5, <1>6, <1>7, <1>8, <1>9, NextSplit DEF Action

-----------------------------------------------------------------------------
SharedFirst == \A n \in Node : pc[n] = "announce_share" => shared[n]

LEMMA HeldStep ==
    ASSUME IInv, [Next]_vars
    PROVE  AnnouncedHeld' /\ SharedFirst'
  <1>1. /\ RegistryOK /\ ProcessOK /\ DownloadOK
        /\ AnnouncedHeld /\ SharedFirst
    BY TypeSplit DEF IInv, SharedFirst
  <1>2. ASSUME NEW n \in Node, Action(n)
        PROVE  \A p \in Node : have[p] \subseteq have'[p] /\ (shared[p] => shared'[p])
    BY <1>1, <1>2
    DEF ProcessOK, DownloadOK, Action, Launch, Register, Catalogue, AnnounceShare, StartDownload,
        GetSwarm, Resumed, Fetch, FetchFails, AnnounceChunks, Leave, Ends, Beat, BeatLost,
        RequestLost, Interrupt, Edit
  <1>3. ASSUME NEW n \in Node, Action(n)
        PROVE  \A p \in Node : state'[p][File] # NoRow =>
                  \/ state'[p][File] = state[p][File]
                  \/ state'[p][File] \subseteq have[p]
                  \/ shared[p]
    <2>1. CASE UNCHANGED registry
      BY <2>1 DEF registry
    <2>2. CASE R!Register(n, n, clock)
      BY <2>2, Registered
    <2>3. CASE pc[n] = "announce_share" /\ Announces(n, Chunk)
      BY <1>1, <2>3, Announced DEF SharedFirst
    <2>4. CASE Announces(n, have[n])
      BY <1>1, <2>4, Announced DEF DownloadOK
    <2>5. CASE Prune
      BY <2>5, Pruned
    <2>6. CASE R!Heartbeat(n, clock)
      BY <2>6, Beaten
    <2>. QED  BY <1>3, <2>1, <2>2, <2>3, <2>4, <2>5, <2>6, RegistryCases
  <1>4. ASSUME NEW n \in Node, Action(n)  PROVE AnnouncedHeld'
    BY <1>1, <1>2, <1>3, <1>4 DEF AnnouncedHeld
  <1>5. ASSUME NEW n \in Node, Action(n)  PROVE SharedFirst'
    <2>1. pc' = pc \/ \E to : pc' = [pc EXCEPT ![n] = to] /\ (to = "announce_share" => shared'[n])
      <3>1. Returns(n) # "announce_share"
        BY DEF Returns
      <3>. QED
        BY <1>1, <1>5, <3>1
        DEF ProcessOK, Action, Launch, Register, Catalogue, AnnounceShare, StartDownload, GetSwarm,
            Fetch, FetchFails, AnnounceChunks, Leave, Ends, Beat, BeatLost, RequestLost,
            Interrupt, Edit, Goes
    <2>. QED  BY <1>1, <1>2, <1>5, <2>1 DEF SharedFirst, ProcessOK
  <1>6. CASE Tick \/ UNCHANGED vars
    BY <1>1, <1>6 DEF Tick, vars, registry, AnnouncedHeld, SharedFirst
  <1>. QED  BY <1>4, <1>5, <1>6, NextSplit

(* Only a heartbeat or a registration renews a row. *)
LEMMA RowsKept ==
    ASSUME IInv, NEW n \in Node, Action(n), ~Beat(n)
    PROVE  \A p \in Node : peers'[p] # NoRow =>
              peers'[p] = peers[p] \/ (p = n /\ pc[n] = "register")
  <1>1. DownloadOK
    BY TypeSplit DEF IInv
  <1>. QED  BY <1>1, RegistryCases, Registered, Announced, Pruned DEF DownloadOK, registry

LEMMA BeatStep ==
    ASSUME IInv, [Next]_vars
    PROVE  BeatsInTime'
  <1>. DEFINE K == Interval + MaxDelay
  <1>1. /\ RegistryOK /\ ProcessOK /\ BeatsInTime
        /\ clock \in Nat /\ K \in Nat /\ Interval \in Nat /\ MaxDelay \in Nat
    <2>1. RegistryOK /\ ProcessOK /\ BeatsInTime
      BY TypeSplit DEF IInv
    <2>2. clock \in Nat
      BY <2>1, Numbers DEF ProcessOK
    <2>3. Interval \in Nat /\ MaxDelay \in Nat
      BY SwarmAssumption
    <2>. QED  BY <2>1, <2>2, <2>3
  <1>2. ASSUME UNCHANGED <<clock, due, missed>>,
               \A p \in Node : Running(p)' => Running(p),
               \A p \in Node : Running(p)' /\ peers'[p] # NoRow => peers'[p] = peers[p]
        PROVE  BeatsInTime'
    BY <1>1, <1>2 DEF BeatsInTime
  <1>3. ASSUME NEW n \in Node,
               \/ Launch(n) \/ Catalogue(n) \/ AnnounceShare(n) \/ StartDownload(n) \/ GetSwarm(n)
               \/ Fetch(n) \/ FetchFails(n) \/ AnnounceChunks(n) \/ RequestLost(n) \/ Edit(n),
               ~Beat(n)
        PROVE  BeatsInTime'
    <2>1. UNCHANGED <<clock, due, missed>>
      BY <1>3 DEF Launch, Catalogue, AnnounceShare, StartDownload, GetSwarm, Fetch, FetchFails,
                  AnnounceChunks, RequestLost, Edit
    <2>2. \A p \in Node : Running(p)' => Running(p)
      BY <1>1, <1>3
      DEF Launch, Catalogue, AnnounceShare, StartDownload, GetSwarm, Fetch, FetchFails,
          AnnounceChunks, RequestLost, Edit, Goes, Running, ProcessOK
    <2>3. pc[n] = "register" => ~Running(n)'
      BY <1>1, <1>3
      DEF Launch, Catalogue, AnnounceShare, StartDownload, GetSwarm, Fetch, FetchFails,
          AnnounceChunks, RequestLost, Edit, Goes, Running, ProcessOK
    <2>4. \A p \in Node : Running(p)' /\ peers'[p] # NoRow => peers'[p] = peers[p]
      BY <1>3, <2>3, RowsKept DEF Action
    <2>. QED  BY <1>2, <2>1, <2>2, <2>4
  <1>4. ASSUME NEW n \in Node, Leave(n) \/ Interrupt(n)  PROVE BeatsInTime'
    <2>1. /\ UNCHANGED <<registry, clock>> /\ ~Running(n)'
          /\ \A p \in Node \ {n} : /\ due'[p] = due[p] /\ missed'[p] = missed[p]
                                  /\ Running(p)' = Running(p)
      BY <1>1, <1>4 DEF Leave, Interrupt, Ends, Running, ProcessOK
    <2>. QED  BY <1>1, <2>1 DEF BeatsInTime, registry
  (* The node n itself, when a heartbeat of it is done with. *)
  <1>5. ASSUME NEW n \in Node, clock' = clock,
               \A p \in Node \ {n} : /\ due'[p] = due[p] /\ missed'[p] = missed[p]
                                     /\ Running(p)' = Running(p) /\ peers'[p] = peers[p],
               clock <= due'[n] + MaxDelay,
               peers'[n] # NoRow =>
                  due'[n] + MaxDelay <= peers'[n].lastSeen + (missed'[n] + 1) * K
        PROVE  BeatsInTime'
    BY <1>1, <1>5 DEF BeatsInTime
  <1>6. ASSUME NEW n \in Node, Register(n)  PROVE BeatsInTime'
    <2>1. /\ due' = [due EXCEPT ![n] = clock] /\ missed' = [missed EXCEPT ![n] = 0]
          /\ R!Register(n, n, clock) /\ clock' = clock
      BY <1>6 DEF Register
    <2>2. due'[n] = clock /\ missed'[n] = 0 /\ peers'[n].lastSeen = clock
      <3>1. due'[n] = clock /\ missed'[n] = 0
        BY <1>1, <2>1 DEF ProcessOK
      <3>2. peers'[n] = [addr |-> n, lastSeen |-> clock]
        BY <2>1, Registered
      <3>. QED  BY <3>1, <3>2
    <2>3. \A p \in Node \ {n} : Running(p)' = Running(p)
      BY <1>1, <1>6 DEF Register, Goes, Running, ProcessOK
    <2>4. (0 + 1) * K = K /\ clock <= clock + MaxDelay /\ clock + MaxDelay <= clock + K
      BY <1>1
    <2>5. \A p \in Node \ {n} : due'[p] = due[p] /\ missed'[p] = missed[p] /\ peers'[p] = peers[p]
      BY <1>1, <2>1, Registered DEF ProcessOK
    <2>6. due'[n] + MaxDelay <= peers'[n].lastSeen + (missed'[n] + 1) * K
      <3>. HIDE DEF K
      <3>. QED  BY <2>2, <2>4
    <2>7. clock <= due'[n] + MaxDelay
      BY <2>2, <2>4
    <2>. HIDE DEF K
    <2>. QED  BY <1>5, <2>1, <2>3, <2>5, <2>6, <2>7
  <1>7. ASSUME NEW n \in Node, Beat(n)  PROVE BeatsInTime'
    <2>1. due' = [due EXCEPT ![n] = clock + Interval] /\ clock' = clock /\ pc' = pc
      BY <1>7 DEF Beat, NextBeat
    <2>2. due'[n] = clock + Interval
      BY <1>1, <2>1 DEF ProcessOK
    <2>3. (0 + 1) * K = K /\ clock <= clock + Interval + MaxDelay
      BY <1>1
    <2>4. CASE peers[n] = NoRow
      BY <1>1, <1>5, <1>7, <2>1, <2>2, <2>3, <2>4 DEF Beat, registry, ProcessOK, Running
    <2>5. CASE peers[n] # NoRow
      <3>1. R!Heartbeat(n, clock) /\ missed' = [missed EXCEPT ![n] = 0]
        BY <1>7, <2>5 DEF Beat
      <3>2. peers'[n].lastSeen = clock /\ missed'[n] = 0
        BY <1>1, <3>1, Beaten DEF ProcessOK
      <3>. QED
        BY <1>1, <1>5, <2>1, <2>2, <2>3, <3>1, <3>2, Beaten DEF ProcessOK, Running
    <2>. QED  BY <2>4, <2>5
  <1>8. ASSUME NEW n \in Node, BeatLost(n)  PROVE BeatsInTime'
    <2>1. /\ due' = [due EXCEPT ![n] = clock + Interval]
          /\ missed' = [missed EXCEPT ![n] = missed[n] + 1]
          /\ UNCHANGED <<registry, clock, pc>> /\ Running(n)
      BY <1>1, <1>8 DEF BeatLost, NextBeat, ProcessOK
    <2>2. due'[n] = clock + Interval /\ missed'[n] = missed[n] + 1
      BY <1>1, <2>1 DEF ProcessOK
    <2>3. ASSUME peers[n] # NoRow
          PROVE  clock + Interval + MaxDelay <= peers[n].lastSeen + (missed[n] + 1 + 1) * K
      <3>. DEFINE L == peers[n].lastSeen
                  M == missed[n] + 1
                  D == due[n] + MaxDelay
      <3>1. L \in Nat /\ M \in Nat /\ D \in Nat
        <4>1. peers[n] \in Row /\ missed[n] \in Nat /\ due[n] \in Nat
          BY <1>1, <2>3 DEF RegistryOK, Rows, ProcessOK
        <4>2. peers[n].lastSeen \in Nat
          BY <4>1, Numbers
        <4>. QED  BY <1>1, <4>1, <4>2
      <3>2. clock <= D /\ D <= L + M * K
        BY <1>1, <2>1, <2>3 DEF BeatsInTime
      <3>. HIDE DEF L, M, D
      <3>3. M * K \in Nat /\ (M + 1) * K = M * K + K
        BY <1>1, <3>1
      <3>. DEFINE P == M * K
                  Q == (M + 1) * K
      <3>4. clock <= L + P /\ P \in Nat /\ Q = P + K
        <4>1. P \in Nat /\ Q = P + K /\ D <= L + P
          BY <3>2, <3>3
        <4>. HIDE DEF P, Q
        <4>. QED  BY <1>1, <3>1, <3>2, <4>1
      <3>5. clock + K <= L + Q
        <4>. HIDE DEF P, Q, K
        <4>. QED  BY <1>1, <3>1, <3>4
      <3>6. clock + Interval + MaxDelay = clock + K
        BY <1>1
      <3>. QED  BY <3>5, <3>6 DEF L, M
    <2>4. clock <= clock + Interval + MaxDelay
      BY <1>1
    <2>. QED  BY <1>1, <1>5, <2>1, <2>2, <2>3, <2>4 DEF registry, Running, ProcessOK
  <1>9. CASE Tick
    <2>1. UNCHANGED <<registry, pc, due, missed>> /\ clock' = clock + 1
      BY <1>9 DEF Tick
    <2>2. \A n \in Node : Running(n) => clock + 1 <= due[n] + MaxDelay
      BY <1>1, <1>9 DEF Tick, ProcessOK
    <2>. QED  BY <1>1, <2>1, <2>2 DEF BeatsInTime, Running, registry
  <1>10. CASE UNCHANGED vars
    BY <1>2, <1>10 DEF vars, registry, Running
  <1>11. ASSUME NEW n \in Node, Action(n)  PROVE BeatsInTime'
    BY <1>3, <1>4, <1>6, <1>7, <1>8, <1>11 DEF Action
  <1>. QED  BY <1>9, <1>10, <1>11, NextSplit

-----------------------------------------------------------------------------
(* The inductive invariant: what an announce relies on, how old a row may  *)
(* be, and what the download loop knows of the swarm it read.              *)
THEOREM Invariance == Spec => []IInv
  <1>1. IInv /\ [Next]_vars => IInv'
    <2>. SUFFICES ASSUME IInv, [Next]_vars  PROVE IInv'
      OBVIOUS
    <2>1. RegistryOK' /\ ProcessOK' /\ DownloadOK'
      BY RegistryStep, ProcessStep, DownloadStep
    <2>2. TypeOK'
      BY <2>1 DEF TypeOK, RegistryOK, ProcessOK, DownloadOK, State, Rows
    <2>3. /\ ListedRegistered' /\ AnnouncedHeld' /\ SharedFirst'
          /\ BeatsInTime' /\ LoopKnows'
      BY RegistryStep, DownloadStep, HeldStep, BeatStep
    <2>. QED  BY <2>2, <2>3 DEF IInv, SharedFirst
  <1>. QED  BY <1>1, InitIInv, PTL DEF Spec

(* Every variable keeps its type; in particular the choice of a peer for a *)
(* chunk is well defined in every swarm (_select_peer_for_chunk).          *)
THEOREM TypeCorrect == Spec => []TypeOK
  <1>1. IInv => TypeOK
    BY DEF IInv
  <1>. QED  BY <1>1, Invariance, PTL

(* The tracker lists for a node only chunks that it holds on disk, whatever *)
(* requests are lost and whoever is pruned (share_file, download_file).    *)
THEOREM AnnouncedAreHeld == Spec => []AnnouncedHeld
  <1>1. IInv => AnnouncedHeld
    BY DEF IInv
  <1>. QED  BY <1>1, Invariance, PTL

LEMMA PrunedLate ==
    ASSUME IInv, [Next]_vars, NEW n \in Node,
           Running(n), peers[n] # NoRow, peers'[n] = NoRow
    PROVE  (missed[n] + 1) * (Interval + MaxDelay) > TTL
  <1>. DEFINE L == peers[n].lastSeen
              M == missed[n] + 1
              K == Interval + MaxDelay
  <1>1. RegistryOK /\ ProcessOK /\ DownloadOK /\ BeatsInTime
    BY TypeSplit DEF IInv
  <1>2. Prune
    <2>1. PICK m \in Node : Action(m)
      BY NextSplit DEF Tick, vars, registry
    <2>2. ~ UNCHANGED registry
      BY DEF registry
    <2>3. ~ R!Register(m, m, clock)
      <3>1. clock \in Time
        BY <1>1 DEF ProcessOK
      <3>2. [addr |-> m, lastSeen |-> clock] # NoRow
        BY <3>1, Numbers DEF Row
      <3>. QED  BY <3>2, Registered
    <2>4. ~ R!Heartbeat(m, clock)
      <3>1. R!Heartbeat(m, clock) => peers'[n] \in Row
        <4>1. R!Heartbeat(m, clock) => RegistryOK' /\ \A p \in Node \ {m} : peers'[p] = peers[p]
          BY Beaten
        <4>2. R!Heartbeat(m, clock) => peers[m] \in Row /\ clock \in Time
                                       /\ peers'[m] = [peers[m] EXCEPT !.lastSeen = clock]
          BY <1>1 DEF R!Heartbeat, RegistryOK, ProcessOK, Rows
        <4>3. R!Heartbeat(m, clock) => peers'[m] \in Row
          BY <4>2 DEF Row
        <4>. QED  BY <1>1, <4>1, <4>3 DEF RegistryOK, Rows
      <3>. QED  BY <3>1, Numbers
    <2>5. ~ Announces(m, Chunk) /\ ~ Announces(m, have[m])
      BY <1>1, Announced DEF DownloadOK
    <2>. QED  BY <2>1, <2>2, <2>3, <2>4, <2>5, RegistryCases
  <1>3. L + TTL < clock
    BY <1>2, Pruned
  <1>4. clock <= due[n] + MaxDelay /\ due[n] + MaxDelay <= L + M * K
    BY <1>1 DEF BeatsInTime
  <1>5. L \in Nat /\ clock \in Nat /\ due[n] \in Nat /\ MaxDelay \in Nat /\ TTL \in Nat
    <2>1. peers[n] \in Row /\ clock \in Time /\ due[n] \in Nat
      BY <1>1 DEF RegistryOK, ProcessOK, Rows
    <2>. QED  BY <2>1, Numbers, SwarmAssumption
  <1>6. M * K \in Nat
    <2>1. missed[n] \in Nat /\ Interval \in Nat /\ MaxDelay \in Nat
      BY <1>1, SwarmAssumption DEF ProcessOK
    <2>. QED  BY <2>1
  <1>. DEFINE P == M * K
  <1>7. P > TTL
    <2>1. P \in Nat /\ due[n] + MaxDelay <= L + P
      BY <1>4, <1>6
    <2>. HIDE DEF P, L
    <2>. QED  BY <1>3, <1>4, <1>5, <2>1
  <1>. QED  BY <1>7

(* A running node is pruned only after so many of its heartbeats failed in *)
(* a row that the others could not keep it (_heartbeat_loop, get_swarm).   *)
THEOREM BeatingNodesStayListed == Spec => ListedWhileBeating
  <1>1. IInv /\ [Next]_vars =>
           [\A n \in Node :
               Running(n) /\ peers[n] # NoRow /\ peers'[n] = NoRow =>
                  (missed[n] + 1) * (Interval + MaxDelay) > TTL]_vars
    BY PrunedLate
  <1>. QED  BY <1>1, Invariance, PTL DEF Spec, ListedWhileBeating

(* A download that fails though a seed it saw still serves, fails on a     *)
(* peer listed with the whole file (_select_peer_for_chunk, get_swarm).    *)
THEOREM SeedsGoFirst == Spec => SeedsAskedFirst
  <1>1. ASSUME IInv, NEW n \in Node, pc[n] = "fetch", seeds[n] # {}
        PROVE  choice[n][NextChunk(n)] \in seeds[n]
    <2>1. NextChunk(n) \in Chunk
      BY <1>1, NextChunkTodo, TypeSplit DEF IInv, DownloadOK
    <2>. QED  BY <1>1, <2>1 DEF IInv, LoopKnows
  <1>2. IInv /\ [Next]_vars =>
           [\A n \in Node :
               /\ pc[n] = "fetch" /\ pc'[n] \in {"idle", "leave"}
               /\ \E s \in seeds[n] : Serves(s)
               => choice[n][NextChunk(n)] \in seeds[n]]_vars
    BY <1>1
  <1>. QED  BY <1>2, Invariance, PTL DEF Spec, SeedsAskedFirst
=============================================================================
