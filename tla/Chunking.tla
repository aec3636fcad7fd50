------------------------------ MODULE Chunking ------------------------------
(***************************************************************************)
(* Files cut into chunks: client/core/manifest.py and models.py.           *)
(*                                                                         *)
(* A file is a sequence of bytes.  SHA-256 is taken to be injective, so    *)
(* that the digest of a chunk is the chunk itself, and the info_hash of a  *)
(* file, the digest of all its metadata, is the manifest itself.  The name *)
(* of the file and its whole-file digest say nothing more here.            *)
(***************************************************************************)
EXTENDS Integers, Sequences

CONSTANTS
    Byte,
    Envelope,   \* length of a piece_data message around its base64 payload
    MaxFrame    \* MAX_FRAME_SIZE_BYTES

ASSUME ChunkingAssumption == Envelope \in Nat /\ MaxFrame \in Nat

Manifest ==
    [size : Nat \ {0}, chunkSize : Nat \ {0}, chunks : Seq(Seq(Byte))]

TotalChunks(m) == Len(m.chunks)

Indexes(m) == 0 .. (TotalChunks(m) - 1)

(* m.chunk_sha256[i] *)
HashAt(m, i) == m.chunks[i + 1]

(* seek(offset) and read(n): what is there, at most n bytes. *)
ReadAt(file, offset, n) ==
    SubSeq(file, offset + 1, IF offset + n <= Len(file) THEN offset + n ELSE Len(file))

(* Faulty variant: a file of full chunks needs one byte less. *)
FitsBelow(size, chunkSize, total) ==
    /\ chunkSize * (total - 1) + 1 <= size
    /\ size + 1 <= chunkSize * total

(* validate_chunk_shape *)
Fits(size, chunkSize, total) ==
    /\ chunkSize * (total - 1) + 1 <= size
    /\ size <= chunkSize * total

(* Faulty variant: the remainder of a file of full chunks is no chunk. *)
RemainderOnly(m, i) ==
    IF i < TotalChunks(m) - 1 THEN m.chunkSize ELSE m.size % m.chunkSize

(* chunk_size_for_index *)
ChunkSizeForIndex(m, i) ==
    IF i < TotalChunks(m) - 1 \/ m.size % m.chunkSize = 0
    THEN m.chunkSize ELSE m.size % m.chunkSize

(* send_message: the length of the JSON text with n bytes in base64. *)
FrameSize(n) == Envelope + 4 * ((n + 2) \div 3)

(* What a manifest is meant to be, for a file nobody changes: the file in   *)
(* chunks of equal size, of which only the last may be shorter.            *)
ManifestOf(file, chunkSize) ==
    [size |-> Len(file), chunkSize |-> chunkSize,
     chunks |-> [k \in 1 .. ((Len(file) + chunkSize - 1) \div chunkSize) |->
                    ReadAt(file, (k - 1) * chunkSize, chunkSize)]]
=============================================================================
