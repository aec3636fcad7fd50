----------------------------- MODULE ShareStore -----------------------------
(***************************************************************************)
(* The catalogue of shared files, client/core/share_store.py, and the      *)
(* user's files it refers to, which other programs may change at any time. *)
(*                                                                         *)
(* register_file reads the size of a file first and its chunks one after   *)
(* the other, so each read is a step; one registration runs at a time.     *)
(* Processes that share a data directory share the catalogue, so that a    *)
(* registration and the serving of chunks do interleave.                   *)
(***************************************************************************)
EXTENDS Chunking

CONSTANTS
    Path,
    Content,     \* what the files may hold
    ChunkSize,   \* the chunk sizes the user shares with
    MaxShares,   \* bound: registrations in a behaviour
    MaxEdits,    \* bound: changes to the user's files
    NoFile       \* nothing at a path

ASSUME ShareAssumption ==
    /\ Content \subseteq Seq(Byte) /\ NoFile \notin Content
    /\ ChunkSize \subseteq Nat \ {0}
    /\ MaxShares \in Nat /\ MaxEdits \in Nat

VARIABLES
    file,      \* what is at each path
    shares,    \* table shared_files: the file_path of each manifest
    reg,       \* the registration that runs
    began,     \* registrations begun
    edits      \* changes made to files

shareVars == <<file, shares, reg, began, edits>>

NoReg == [pc |-> "idle"]

(* Locals of register_file and build_file_manifest: the stat size, the     *)
(* chunks read so far and the offset they reach.  "disturbed" is history:  *)
(* the file was changed since the size was read.                           *)
Reg == [pc : {"hash"}, path : Path, size : Nat \ {0}, chunkSize : ChunkSize,
        chunks : Seq(Seq(Byte)), offset : Nat, disturbed : BOOLEAN]

ShareTypeOK ==
    /\ file \in [Path -> Content \cup {NoFile}]
    /\ DOMAIN shares \subseteq Manifest
    /\ \A m \in DOMAIN shares : shares[m] \in Path
    /\ reg \in {NoReg} \cup Reg
    /\ began \in 0 .. MaxShares
    /\ edits \in 0 .. MaxEdits

ShareInit ==
    /\ file \in [Path -> Content]
    /\ shares = [m \in {} |-> NoFile]
    /\ reg = NoReg
    /\ began = 0
    /\ edits = 0

-----------------------------------------------------------------------------
Hashing == reg # NoReg

(* register_file: a regular file of at least one byte; its size is taken.  *)
BeginRegister(p, size) ==
    /\ ~Hashing
    /\ began < MaxShares
    /\ file[p] # NoFile /\ Len(file[p]) > 0
    /\ reg' = [pc |-> "hash", path |-> p, size |-> Len(file[p]), chunkSize |-> size,
               chunks |-> <<>>, offset |-> 0, disturbed |-> FALSE]
    /\ began' = began + 1
    /\ UNCHANGED <<file, shares, edits>>

NextChunk == ReadAt(file[reg.path], reg.offset, reg.chunkSize)

(* iter_file_chunks: one more chunk. *)
HashChunk ==
    /\ Hashing
    /\ NextChunk # <<>>
    /\ reg' = [reg EXCEPT !.chunks = Append(@, NextChunk), !.offset = @ + Len(NextChunk)]
    /\ UNCHANGED <<file, shares, began, edits>>

Hashed == [size |-> reg.size, chunkSize |-> reg.chunkSize, chunks |-> reg.chunks]

(* INSERT ... ON CONFLICT(info_hash) DO UPDATE: the path is the latest one. *)
Stored(m, p) == [n \in DOMAIN shares \cup {m} |-> IF n = m THEN p ELSE shares[n]]

(* The end of the file: the manifest is validated and its row committed.   *)
EndRegister ==
    /\ Hashing
    /\ NextChunk = <<>>
    /\ shares' = IF Fits(reg.size, reg.chunkSize, Len(reg.chunks))
                 THEN Stored(Hashed, reg.path) ELSE shares
    /\ reg' = NoReg
    /\ UNCHANGED <<file, began, edits>>

(* A user or another program writes the file in place, or removes it.  A   *)
(* file that is being hashed is not removed: the open handle would read on *)
(* as if it had been removed later.                                        *)
Edit(p) ==
    /\ edits < MaxEdits
    /\ edits' = edits + 1
    /\ \E c \in Content \cup {NoFile} :
          /\ c # file[p]
          /\ Hashing /\ reg.path = p => c # NoFile
          /\ file' = [file EXCEPT ![p] = c]
    /\ reg' = IF Hashing /\ reg.path = p THEN [reg EXCEPT !.disturbed = TRUE] ELSE reg
    /\ UNCHANGED <<shares, began>>

ShareNext ==
    \/ \E p \in Path, size \in ChunkSize : BeginRegister(p, size)
    \/ HashChunk
    \/ EndRegister
    \/ \E p \in Path : Edit(p)

-----------------------------------------------------------------------------
(* The file a row refers to is what its manifest was made of. *)
Intact(m) ==
    /\ m \in DOMAIN shares
    /\ file[shares[m]] # NoFile
    /\ m = ManifestOf(file[shares[m]], m.chunkSize)

-----------------------------------------------------------------------------
(* What build_file_manifest has read of a file that is what it was when    *)
(* its size was taken: the chunks so far are the file up to the offset,    *)
(* and the last of them was not empty.                                     *)
HashedSoFar(r, f) ==
    LET n == Len(r.chunks)
        c == r.chunkSize IN
    /\ r.size = Len(f)
    /\ (n - 1) * c < Len(f)
    /\ r.offset = IF n * c <= Len(f) THEN n * c ELSE Len(f)
    /\ \A k \in 1 .. n : r.chunks[k] = ReadAt(f, (k - 1) * c, c)

RegKnows ==
    Hashing =>
        /\ file[reg.path] # NoFile
        /\ ~reg.disturbed => HashedSoFar(reg, file[reg.path])
=============================================================================
