---------------------------- MODULE ChunkService ----------------------------
(***************************************************************************)
(* What sharing a file and asking a peer for chunks promise: what has once *)
(* been shared stays in the catalogue, and a request ends with the chunk   *)
(* that was asked for, of a file in the catalogue, or fails.               *)
(***************************************************************************)
EXTENDS Chunking

CONSTANTS
    Nothing    \* no request, no result

VARIABLES
    catalogue,   \* the manifests shared
    want,        \* the chunk that is asked for
    got          \* how the last request ended

vars == <<catalogue, want, got>>

Init == catalogue = {} /\ want = Nothing /\ got = Nothing

(* A file is shared, or shared again. *)
Publish ==
    /\ \E m \in catalogue' : m \in Manifest /\ catalogue' = catalogue \cup {m}
    /\ UNCHANGED <<want, got>>

Ask ==
    /\ want = Nothing
    /\ want' \in [manifest : Manifest, index : Nat]
    /\ want'.index \in Indexes(want'.manifest)
    /\ got' = Nothing
    /\ UNCHANGED catalogue

Deliver ==
    /\ want # Nothing
    /\ want.manifest \in catalogue
    /\ got' = HashAt(want.manifest, want.index)
    /\ want' = Nothing
    /\ UNCHANGED catalogue

Fail == want # Nothing /\ want' = Nothing /\ UNCHANGED <<catalogue, got>>

Next == Publish \/ Ask \/ Deliver \/ Fail

Spec == Init /\ [][Next]_vars
=============================================================================
