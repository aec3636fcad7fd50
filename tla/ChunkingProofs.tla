--------------------------- MODULE ChunkingProofs ---------------------------
(***************************************************************************)
(* The arithmetic of chunks, for files and chunk sizes of any length: what *)
(* manifest.py counts while it hashes a file, what models.py computes of   *)
(* the sizes alone, and what share_store.py reads back, agree.             *)
(***************************************************************************)
EXTENDS Chunking, SequenceTheorems, TLAPS

(* The number of chunks by rounding up, and by the bounds that the code    *)
(* checks.                                                                 *)
LEMMA ChunkCount ==
    ASSUME NEW size \in Nat \ {0}, NEW c \in Nat \ {0}, NEW n \in Nat
    PROVE  n = (size + c - 1) \div c <=> (n - 1) * c < size /\ size <= n * c
  <1>. DEFINE q == (size + c - 1) \div c
              r == (size + c - 1) % c
  <1>1. q \in Nat /\ r \in 0 .. c - 1 /\ size + c - 1 = c * q + r
    OBVIOUS
  <1>. HIDE DEF q, r
  <1>2. ASSUME n = q  PROVE (n - 1) * c < size /\ size <= n * c
    <2>1. n * c = c * q /\ (n - 1) * c = c * q - c
      BY <1>1, <1>2
    <2>. QED  BY <1>1, <2>1
  <1>3. ASSUME (n - 1) * c < size, size <= n * c  PROVE n = q
    <2>1. (n - 1) * c = n * c - c /\ n * c = c * n
      OBVIOUS
    <2>2. c * n < c * q + c
      BY <1>1, <1>3, <2>1
    <2>3. c * q < c * n + c
      BY <1>1, <1>3, <2>1
    <2>4. n < q + 1
      <3>1. c * q + c = c * (q + 1)
        BY <1>1
      <3>2. SUFFICES ASSUME q + 1 <= n  PROVE FALSE
        BY <1>1
      <3>3. c * (q + 1) <= c * n
        BY <1>1, <3>2
      <3>. QED  BY <1>1, <2>2, <3>1, <3>3
    <2>5. q < n + 1
      <3>1. c * n + c = c * (n + 1)
        OBVIOUS
      <3>2. SUFFICES ASSUME n + 1 <= q  PROVE FALSE
        BY <1>1
      <3>3. c * (n + 1) <= c * q
        BY <1>1, <3>2
      <3>. QED  BY <1>1, <2>3, <3>1, <3>3
    <2>. QED  BY <1>1, <2>4, <2>5
  <1>. QED  BY <1>2, <1>3 DEF q

(* What a read returns: never more than the file has.                      *)
LEMMA ReadAtBytes ==
    ASSUME NEW file \in Seq(Byte), NEW offset \in Nat, NEW n \in Nat
    PROVE  LET end == IF offset + n <= Len(file) THEN offset + n ELSE Len(file) IN
           /\ ReadAt(file, offset, n) \in Seq(Byte)
           /\ Len(ReadAt(file, offset, n)) = IF offset <= end THEN end - offset ELSE 0
           /\ \A k \in 1 .. end - offset : ReadAt(file, offset, n)[k] = file[offset + k]
  <1>. DEFINE end == IF offset + n <= Len(file) THEN offset + n ELSE Len(file)
  <1>1. end \in Nat /\ end <= Len(file) /\ ReadAt(file, offset, n) = SubSeq(file, offset + 1, end)
    BY DEF ReadAt
  <1>. HIDE DEF end
  <1>2. \A i \in offset + 1 .. end : file[i] \in Byte
    BY <1>1
  <1>3. /\ SubSeq(file, offset + 1, end) \in Seq(Byte)
        /\ Len(SubSeq(file, offset + 1, end)) =
              IF offset + 1 <= end THEN end - (offset + 1) + 1 ELSE 0
        /\ \A i \in 1 .. end - (offset + 1) + 1 :
              SubSeq(file, offset + 1, end)[i] = file[offset + 1 + i - 1]
    BY <1>1, <1>2, SubSeqProperties
  <1>. QED  BY <1>1, <1>3 DEF end

LEMMA ManifestChunks ==
    ASSUME NEW file \in Seq(Byte), Len(file) > 0, NEW c \in Nat \ {0}
    PROVE  LET m == ManifestOf(file, c) IN
           /\ m \in Manifest /\ m.size = Len(file) /\ m.chunkSize = c
           /\ TotalChunks(m) \in Nat
           /\ (TotalChunks(m) - 1) * c < Len(file) /\ Len(file) <= TotalChunks(m) * c
           /\ \A i \in Indexes(m) : i \in Nat /\ HashAt(m, i) = ReadAt(file, i * c, c)
  <1>. DEFINE N == (Len(file) + c - 1) \div c
              chunks == [k \in 1 .. N |-> ReadAt(file, (k - 1) * c, c)]
              m == ManifestOf(file, c)
  <1>1. N \in Nat /\ Len(file) \in Nat \ {0}
    OBVIOUS
  <1>2. (N - 1) * c < Len(file) /\ Len(file) <= N * c
    BY <1>1, ChunkCount
  <1>. HIDE DEF N
  <1>3. ASSUME NEW k \in 1 .. N  PROVE ReadAt(file, (k - 1) * c, c) \in Seq(Byte)
    <2>1. k - 1 \in Nat /\ c \in Nat
      BY <1>1
    <2>2. (k - 1) * c \in Nat
      BY <2>1
    <2>. QED  BY <2>1, <2>2, ReadAtBytes
  <1>4. chunks \in Seq(Seq(Byte)) /\ Len(chunks) = N
    <2>. DEFINE read(k) == ReadAt(file, (k - 1) * c, c)
    <2>1. \A k \in 1 .. N : read(k) \in Seq(Byte)
      BY <1>3
    <2>. HIDE DEF read
    <2>2. [k \in 1 .. N |-> read(k)] \in [1 .. N -> Seq(Byte)]
      BY <2>1
    <2>3. [k \in 1 .. N |-> read(k)] \in Seq(Seq(Byte)) /\ Len([k \in 1 .. N |-> read(k)]) = N
      BY <1>1, <2>2
    <2>. QED  BY <2>3 DEF read
  <1>5. m = [size |-> Len(file), chunkSize |-> c, chunks |-> chunks]
    BY DEF ManifestOf, N
  <1>6. m \in Manifest /\ m.size = Len(file) /\ m.chunkSize = c /\ TotalChunks(m) = N
    BY <1>1, <1>4, <1>5 DEF Manifest, TotalChunks
  <1>7. ASSUME NEW i \in Indexes(m)  PROVE i \in Nat /\ HashAt(m, i) = ReadAt(file, i * c, c)
    <2>1. i \in Nat /\ i + 1 \in 1 .. N
      BY <1>1, <1>6 DEF Indexes
    <2>2. (i + 1 - 1) * c = i * c
      BY <2>1
    <2>. QED  BY <1>5, <2>1, <2>2 DEF HashAt
  <1>. HIDE DEF m
  <1>8. (TotalChunks(m) - 1) * c < Len(file) /\ Len(file) <= TotalChunks(m) * c
    BY <1>2, <1>6
  <1>. QED  BY <1>1, <1>6, <1>7, <1>8 DEF m

-----------------------------------------------------------------------------
(* The shape check of a manifest accepts what was hashed of a whole file   *)
(* (build_file_manifest, validate_chunk_shape).                            *)
THEOREM WholeFileFits ==
    ASSUME NEW file \in Seq(Byte), Len(file) > 0, NEW c \in Nat \ {0}
    PROVE  LET m == ManifestOf(file, c) IN Fits(m.size, m.chunkSize, TotalChunks(m))
  <1>. DEFINE m == ManifestOf(file, c)
              N == TotalChunks(m)
  <1>1. /\ m.size = Len(file) /\ m.chunkSize = c /\ N \in Nat
        /\ (N - 1) * c < Len(file) /\ Len(file) <= N * c
    BY ManifestChunks
  <1>. HIDE DEF m, N
  <1>2. c * (N - 1) = (N - 1) * c /\ c * N = N * c /\ (N - 1) * c \in Int
    BY <1>1
  <1>. QED  BY <1>1, <1>2 DEF Fits, m, N

(* Only one number of chunks passes the shape check.                       *)
THEOREM FitsOnce ==
    ASSUME NEW size \in Nat \ {0}, NEW c \in Nat \ {0}, NEW m \in Nat, NEW n \in Nat,
           Fits(size, c, m), Fits(size, c, n)
    PROVE  m = n
  <1>1. ASSUME NEW k \in Nat, Fits(size, c, k)  PROVE k = (size + c - 1) \div c
    <2>1. c * (k - 1) = (k - 1) * c /\ c * k = k * c /\ (k - 1) * c \in Int
      OBVIOUS
    <2>2. (k - 1) * c < size /\ size <= k * c
      BY <1>1, <2>1 DEF Fits
    <2>. QED  BY <2>2, ChunkCount
  <1>. QED  BY <1>1

(* A chunk has the length that chunk_size_for_index computes of it.        *)
LEMMA ChunkEnds ==
    ASSUME NEW file \in Seq(Byte), Len(file) > 0, NEW c \in Nat \ {0},
           NEW i \in Indexes(ManifestOf(file, c))
    PROVE  LET s == ChunkSizeForIndex(ManifestOf(file, c), i) IN
           /\ s \in Nat \ {0} /\ i \in Nat
           /\ i * c + s = IF i * c + c <= Len(file) THEN i * c + c ELSE Len(file)
  <1>. DEFINE m == ManifestOf(file, c)
              N == TotalChunks(m)
              L == Len(file)
              q == L \div c
              r == L % c
  <1>1. /\ m.size = L /\ m.chunkSize = c /\ N \in Nat
        /\ (N - 1) * c < L /\ L <= N * c /\ i \in 0 .. N - 1
    BY ManifestChunks DEF Indexes
  <1>2. q \in Nat /\ r \in 0 .. c - 1 /\ L = c * q + r /\ L \in Nat
    OBVIOUS
  <1>3. ChunkSizeForIndex(m, i) = IF i < N - 1 \/ r = 0 THEN c ELSE r
    BY <1>1 DEF ChunkSizeForIndex
  <1>. HIDE DEF m, N, L, q, r
  <1>4. i * c \in Nat /\ N * c \in Nat /\ (N - 1) * c = N * c - c
    BY <1>1
  <1>5. CASE i < N - 1
    <2>1. i * c + c = (i + 1) * c /\ (i + 1) * c <= (N - 1) * c
      BY <1>1, <1>5
    <2>2. i * c + c <= L
      BY <1>1, <1>2, <1>4, <2>1
    <2>. QED  BY <1>1, <1>3, <1>4, <1>5, <2>2 DEF m, L
  <1>6. CASE i = N - 1
    <2>1. i * c = N * c - c
      BY <1>4, <1>6
    <2>2. CASE r = 0
      <3>1. L = c * q
        BY <1>2, <2>2
      <3>2. q = N
        <4>1. c * q <= c * N /\ c * (N - 1) < c * q
          BY <1>1, <1>2, <3>1
        <4>2. q <= N
          <5>1. SUFFICES ASSUME N + 1 <= q  PROVE FALSE
            BY <1>1, <1>2
          <5>2. c * (N + 1) <= c * q /\ c * (N + 1) = c * N + c
            BY <1>1, <1>2, <5>1
          <5>. QED  BY <1>1, <1>2, <4>1, <5>2
        <4>3. N <= q
          <5>1. SUFFICES ASSUME q <= N - 1  PROVE FALSE
            BY <1>1, <1>2
          <5>2. c * q <= c * (N - 1)
            BY <1>1, <1>2, <5>1
          <5>. QED  BY <1>1, <1>2, <4>1, <5>2
        <4>. QED  BY <1>1, <1>2, <4>2, <4>3
      <3>3. L = N * c
        BY <1>1, <1>2, <3>1, <3>2
      <3>. QED  BY <1>1, <1>3, <1>4, <2>1, <2>2, <3>3 DEF m, L
    <2>3. CASE r # 0
      <3>1. q = N - 1
        <4>1. c * (N - 1) < c * q + c /\ c * q < c * N
          BY <1>1, <1>2, <2>3
        <4>2. N - 1 <= q
          <5>1. SUFFICES ASSUME q + 1 <= N - 1  PROVE FALSE
            BY <1>1, <1>2
          <5>2. c * (q + 1) <= c * (N - 1) /\ c * (q + 1) = c * q + c
            BY <1>1, <1>2, <5>1
          <5>. QED  BY <1>1, <1>2, <4>1, <5>2
        <4>3. q <= N - 1
          <5>1. SUFFICES ASSUME N <= q  PROVE FALSE
            BY <1>1, <1>2
          <5>2. c * N <= c * q
            BY <1>1, <1>2, <5>1
          <5>. QED  BY <1>1, <1>2, <4>1, <5>2
        <4>. QED  BY <1>1, <1>2, <4>2, <4>3
      <3>2. i * c = c * q
        BY <1>1, <1>2, <1>6, <3>1
      <3>3. i * c + r = L /\ L < i * c + c
        BY <1>2, <1>4, <3>2
      <3>. QED  BY <1>1, <1>2, <1>3, <1>4, <1>6, <2>3, <3>3 DEF m, L
    <2>. QED  BY <2>2, <2>3
  <1>. QED  BY <1>1, <1>5, <1>6

(* The offset and the size by which a chunk is read back return what was   *)
(* hashed, as long as the file is what it was (read_chunk against          *)
(* iter_file_chunks).                                                      *)
THEOREM ServedAsHashed ==
    ASSUME NEW file \in Seq(Byte), Len(file) > 0, NEW c \in Nat \ {0},
           NEW i \in Indexes(ManifestOf(file, c))
    PROVE  LET m == ManifestOf(file, c) IN
           ReadAt(file, i * m.chunkSize, ChunkSizeForIndex(m, i)) = HashAt(m, i)
  <1>. DEFINE m == ManifestOf(file, c)
              s == ChunkSizeForIndex(m, i)
  <1>1. m.chunkSize = c /\ i \in Nat /\ HashAt(m, i) = ReadAt(file, i * c, c)
    BY ManifestChunks
  <1>2. /\ s \in Nat \ {0}
        /\ i * c + s = IF i * c + c <= Len(file) THEN i * c + c ELSE Len(file)
    BY ChunkEnds
  <1>. HIDE DEF m, s
  <1>3. ReadAt(file, i * c, s) = ReadAt(file, i * c, c)
    <2>1. i * c \in Nat /\ Len(file) \in Nat
      BY <1>1
    <2>. QED  BY <1>1, <1>2, <2>1 DEF ReadAt
  <1>. QED  BY <1>1, <1>3 DEF m, s

(* Every byte of a file is in the chunk, and at the place in it, where a   *)
(* downloader that writes chunk i at offset i * chunk_size puts it         *)
(* (write_chunk): the chunks are the whole file and no more.               *)
THEOREM ChunksMakeTheFile ==
    ASSUME NEW file \in Seq(Byte), Len(file) > 0, NEW c \in Nat \ {0}
    PROVE  LET m == ManifestOf(file, c) IN
           /\ \A i \in Indexes(m) : Len(HashAt(m, i)) = ChunkSizeForIndex(m, i)
           /\ \A b \in 1 .. Len(file) :
                 \E i \in Indexes(m) : \E k \in 1 .. Len(HashAt(m, i)) :
                    i * c + k = b /\ HashAt(m, i)[k] = file[b]
  <1>. DEFINE m == ManifestOf(file, c)
              end(i) == IF i * c + c <= Len(file) THEN i * c + c ELSE Len(file)
  <1>1. /\ TotalChunks(m) \in Nat
        /\ (TotalChunks(m) - 1) * c < Len(file) /\ Len(file) <= TotalChunks(m) * c
        /\ \A i \in Indexes(m) : i \in Nat /\ HashAt(m, i) = ReadAt(file, i * c, c)
    BY ManifestChunks
  <1>2. ASSUME NEW i \in Indexes(m)
        PROVE  /\ i * c < end(i) /\ Len(HashAt(m, i)) = end(i) - i * c
               /\ end(i) \in Nat /\ i * c \in Nat
               /\ Len(HashAt(m, i)) = ChunkSizeForIndex(m, i)
               /\ \A k \in 1 .. end(i) - i * c : HashAt(m, i)[k] = file[i * c + k]
    <2>1. i \in Nat /\ i * c \in Nat
      BY <1>1
    <2>2. /\ ChunkSizeForIndex(m, i) \in Nat \ {0}
          /\ i * c + ChunkSizeForIndex(m, i) = end(i) /\ end(i) \in Nat
      BY <2>1, ChunkEnds
    <2>3. /\ Len(ReadAt(file, i * c, c)) = IF i * c <= end(i) THEN end(i) - i * c ELSE 0
          /\ \A k \in 1 .. end(i) - i * c : ReadAt(file, i * c, c)[k] = file[i * c + k]
      BY <2>1, ReadAtBytes
    <2>. HIDE DEF end, m
    <2>. QED  BY <1>1, <2>1, <2>2, <2>3
  <1>3. ASSUME NEW b \in 1 .. Len(file)
        PROVE  \E i \in Indexes(m) : \E k \in 1 .. Len(HashAt(m, i)) :
                  i * c + k = b /\ HashAt(m, i)[k] = file[b]
    <2>. DEFINE i == (b - 1) \div c
                k == ((b - 1) % c) + 1
    <2>1. i \in Nat /\ k \in 1 .. c /\ b = c * i + k
      OBVIOUS
    <2>. HIDE DEF i, k
    <2>2. i * c + k = b /\ i * c \in Nat
      BY <2>1
    <2>3. i \in Indexes(m)
      <3>. DEFINE N == TotalChunks(m)
      <3>1. c * i < N * c /\ N \in Nat
        BY <1>1, <2>1
      <3>. HIDE DEF N
      <3>2. i < N
        <4>1. SUFFICES ASSUME N <= i  PROVE FALSE
          BY <2>1, <3>1
        <4>2. N * c <= i * c
          BY <2>1, <3>1, <4>1
        <4>. QED  BY <2>1, <3>1, <4>2
      <3>. QED  BY <2>1, <3>1, <3>2 DEF Indexes, N
    <2>4. k \in 1 .. end(i) - i * c
      BY <2>1, <2>2
    <2>. HIDE DEF end, m
    <2>5. k \in 1 .. Len(HashAt(m, i)) /\ HashAt(m, i)[k] = file[b]
      BY <1>2, <2>2, <2>3, <2>4
    <2>. QED  BY <2>2, <2>3, <2>5
  <1>. QED  BY <1>2, <1>3

(* If a full chunk fits into a frame, so does every chunk of every file:   *)
(* one check of the two limits settles whether chunks can be sent at all   *)
(* (chunk_size of the settings against MAX_FRAME_SIZE_BYTES, which nothing *)
(* in the code compares).                                                  *)
THEOREM FramesFit ==
    ASSUME NEW file \in Seq(Byte), Len(file) > 0, NEW c \in Nat \ {0},
           NEW i \in Indexes(ManifestOf(file, c)), FrameSize(c) <= MaxFrame
    PROVE  FrameSize(Len(HashAt(ManifestOf(file, c), i))) <= MaxFrame
  <1>. DEFINE s == ChunkSizeForIndex(ManifestOf(file, c), i)
  <1>1. /\ s \in Nat \ {0} /\ i \in Nat
        /\ i * c + s = IF i * c + c <= Len(file) THEN i * c + c ELSE Len(file)
    BY ChunkEnds
  <1>2. Len(HashAt(ManifestOf(file, c), i)) = s
    BY ChunksMakeTheFile
  <1>. HIDE DEF s
  <1>3. s <= c
    <2>1. i * c \in Nat /\ Len(file) \in Nat
      BY <1>1
    <2>. QED  BY <1>1, <2>1
  <1>4. (s + 2) \div 3 <= (c + 2) \div 3
    BY <1>1, <1>3
  <1>5. FrameSize(s) <= FrameSize(c)
    BY <1>1, <1>4, ChunkingAssumption DEF FrameSize
  <1>6. FrameSize(s) \in Nat /\ FrameSize(c) \in Nat
    BY <1>1, ChunkingAssumption DEF FrameSize
  <1>. QED  BY <1>2, <1>5, <1>6, ChunkingAssumption
=============================================================================
