-------------------------- MODULE TrackerRegistry --------------------------
(***************************************************************************)
(* What the tracker promises: a registry whose operations take effect one  *)
(* at a time.  A file keeps the metadata it was first announced with, only *)
(* a registered peer is listed, and an expiry removes exactly the peers    *)
(* last seen before a cutoff, with all they had announced.                 *)
(***************************************************************************)
EXTENDS Naturals

CONSTANTS Peer, Addr, InfoHash, Meta, TotalChunks, Time, NoRow

VARIABLES
    peers,   \* the row of each peer: its address and when it was last seen
    files,   \* the metadata of each file
    state    \* the chunks each peer has announced of each file

vars == <<peers, files, state>>

Init ==
    /\ peers = [p \in Peer |-> NoRow]
    /\ files = [h \in InfoHash |-> NoRow]
    /\ state = [p \in Peer |-> [h \in InfoHash |-> NoRow]]

Register(p, a, t) ==
    /\ peers' = [peers EXCEPT ![p] = [addr |-> a, lastSeen |-> t]]
    /\ UNCHANGED <<files, state>>

Heartbeat(p, t) ==
    /\ peers[p] # NoRow
    /\ peers' = [peers EXCEPT ![p].lastSeen = t]
    /\ UNCHANGED <<files, state>>

Announce(p, h, m, chunks) ==
    /\ peers[p] # NoRow
    /\ files[h] \in {NoRow, m}
    /\ files' = [files EXCEPT ![h] = m]
    /\ state' = [state EXCEPT ![p][h] = chunks]
    /\ UNCHANGED peers

Expired(cutoff) == {p \in Peer : peers[p] # NoRow /\ peers[p].lastSeen < cutoff}

Expire(cutoff) ==
    /\ peers' = [p \in Peer |-> IF p \in Expired(cutoff) THEN NoRow ELSE peers[p]]
    /\ state' = [p \in Peer |-> IF p \in Expired(cutoff)
                                THEN [h \in InfoHash |-> NoRow] ELSE state[p]]
    /\ UNCHANGED files

Next ==
    \/ \E p \in Peer, t \in Time : Heartbeat(p, t) \/ \E a \in Addr : Register(p, a, t)
    \/ \E p \in Peer, h \in InfoHash, m \in Meta :
          \E chunks \in SUBSET (0 .. TotalChunks[m] - 1) : Announce(p, h, m, chunks)
    \/ \E cutoff \in Time : Expire(cutoff)

Spec == Init /\ [][Next]_vars
=============================================================================
