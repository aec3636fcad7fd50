------------------------- MODULE PeerExchangeProofs -------------------------
(***************************************************************************)
(* Proofs about PeerExchange and the catalogue of ShareStore, for any      *)
(* number of connections, files of any length and any chunk sizes.         *)
(***************************************************************************)
EXTENDS PeerExchange, ChunkingProofs

(* A registration is running exactly when there is its record.             *)
LEMMA RegRecord ==
    /\ NoReg \notin Reg
    /\ \A r \in Reg : r.pc = "hash" /\ r # NoReg
  BY DEF NoReg, Reg

LEMMA Bytes ==
    ASSUME ShareTypeOK
    PROVE  /\ \A p \in Path : file[p] # NoFile => file[p] \in Seq(Byte)
           /\ Hashing => /\ reg \in Reg /\ reg.path \in Path
                         /\ reg.size \in Nat \ {0} /\ reg.chunkSize \in Nat \ {0}
                         /\ reg.chunks \in Seq(Seq(Byte)) /\ reg.offset \in Nat
  BY ShareAssumption, RegRecord DEF ShareTypeOK, Hashing, Reg

LEMMA RegisterBegins ==
    ASSUME ShareTypeOK, RegKnows,
           NEW p \in Path, NEW size \in ChunkSize, BeginRegister(p, size)
    PROVE  ShareTypeOK' /\ RegKnows'
  <1>1. file[p] \in Seq(Byte) /\ Len(file[p]) \in Nat \ {0} /\ size \in Nat \ {0}
    BY Bytes, ShareAssumption DEF BeginRegister
  <1>2. reg' \in Reg
    BY <1>1 DEF BeginRegister, Reg
  <1>3. ShareTypeOK'
    BY <1>2, ShareAssumption DEF BeginRegister, ShareTypeOK
  <1>4. /\ reg'.size = Len(file[p]) /\ reg'.chunkSize = size /\ reg'.chunks = <<>>
        /\ reg'.offset = 0 /\ reg'.path = p /\ Len(reg'.chunks) = 0
    BY DEF BeginRegister
  <1>5. (0 - 1) * size < Len(file[p]) /\ 0 * size = 0
    BY <1>1
  <1>6. HashedSoFar(reg', file[p])
    BY <1>1, <1>4, <1>5 DEF HashedSoFar
  <1>. QED  BY <1>1, <1>3, <1>4, <1>6 DEF RegKnows, BeginRegister

(* A read that returns something starts before the end of the file, hence  *)
(* at a multiple of the chunk size.                                        *)
LEMMA ChunkIsHashed ==
    ASSUME ShareTypeOK, RegKnows, HashChunk
    PROVE  ShareTypeOK' /\ RegKnows'
  <1>. DEFINE f == file[reg.path]
              c == reg.chunkSize
              n == Len(reg.chunks)
              o == reg.offset
              end == IF o + c <= Len(f) THEN o + c ELSE Len(f)
  <1>1. /\ reg \in Reg /\ f \in Seq(Byte) /\ c \in Nat \ {0} /\ n \in Nat /\ o \in Nat
        /\ reg.chunks \in Seq(Seq(Byte)) /\ reg.path \in Path /\ f # NoFile
    BY Bytes DEF HashChunk, RegKnows
  <1>2. /\ NextChunk \in Seq(Byte)
        /\ Len(NextChunk) = IF o <= end THEN end - o ELSE 0
        /\ NextChunk # <<>>
    BY <1>1, ReadAtBytes DEF NextChunk, HashChunk
  <1>. HIDE DEF f, c, n, o, end
  <1>. DEFINE chunks == Append(reg.chunks, NextChunk)
              reached == o + Len(NextChunk)
  <1>3. Len(NextChunk) \in Nat /\ Len(NextChunk) # 0 /\ Len(f) \in Nat /\ reached \in Nat
    BY <1>1, <1>2
  <1>4. /\ chunks \in Seq(Seq(Byte)) /\ Len(chunks) = n + 1
        /\ chunks[n + 1] = NextChunk
        /\ \A k \in 1 .. n : chunks[k] = reg.chunks[k]
    BY <1>1, <1>2, AppendProperties DEF n
  <1>5. reg' = [reg EXCEPT !.chunks = chunks, !.offset = reached]
    BY <1>1 DEF HashChunk, Reg, o
  <1>. HIDE DEF chunks, reached
  <1>6. /\ reg' \in Reg
        /\ reg'.chunks = chunks /\ reg'.offset = reached /\ reg'.chunkSize = c
        /\ reg'.path = reg.path /\ reg'.size = reg.size /\ reg'.disturbed = reg.disturbed
    BY <1>1, <1>3, <1>4, <1>5 DEF Reg, c
  <1>7. ShareTypeOK'
    BY <1>6 DEF ShareTypeOK, HashChunk
  <1>8. ASSUME ~reg.disturbed
        PROVE  /\ (n + 1 - 1) * c < Len(f)
               /\ reached = IF (n + 1) * c <= Len(f) THEN (n + 1) * c ELSE Len(f)
               /\ \A k \in 1 .. n + 1 : chunks[k] = ReadAt(f, (k - 1) * c, c)
    <2>. DEFINE at(k) == ReadAt(f, (k - 1) * c, c)
    <2>1. /\ o = IF n * c <= Len(f) THEN n * c ELSE Len(f)
          /\ \A k \in 1 .. n : reg.chunks[k] = at(k)
      BY <1>8 DEF RegKnows, HashedSoFar, HashChunk, f, c, n, o
    <2>2. n * c \in Nat /\ (n + 1) * c = n * c + c /\ (n + 1 - 1) * c = n * c
      BY <1>1
    <2>3. end \in Nat /\ end <= Len(f)
      BY <1>1, <1>3 DEF end
    <2>4. o < Len(f) /\ o = n * c /\ reached = end
      <3>1. o <= end /\ end # o
        BY <1>1, <1>2, <1>3, <2>3
      <3>. HIDE DEF at
      <3>. QED  BY <1>1, <1>2, <1>3, <2>1, <2>2, <2>3, <3>1 DEF reached
    <2>5. reached = IF (n + 1) * c <= Len(f) THEN (n + 1) * c ELSE Len(f)
      BY <2>2, <2>4 DEF end
    <2>6. at(n + 1) = NextChunk
      <3>1. n + 1 - 1 = n
        BY <1>1
      <3>2. at(n + 1) = ReadAt(f, n * c, c)
        BY <1>1, <3>1
      <3>. QED  BY <2>4, <3>2 DEF NextChunk, f, c, o
    <2>. HIDE DEF at
    <2>7. ASSUME NEW k \in 1 .. n + 1  PROVE chunks[k] = at(k)
      <3>1. k \in 1 .. n \/ k = n + 1
        BY <1>1
      <3>2. chunks[n + 1] = at(n + 1)
        BY <1>4, <2>6
      <3>. QED  BY <1>4, <2>1, <3>1, <3>2, Zenon
    <2>. QED  BY <2>2, <2>4, <2>5, <2>7 DEF at
  <1>9. /\ file'[reg'.path] = f /\ Len(reg'.chunks) = n + 1
        /\ f # NoFile /\ (~reg.disturbed => reg.size = Len(f))
    BY <1>4, <1>6 DEF HashChunk, RegKnows, HashedSoFar, f
  <1>10. ASSUME ~reg.disturbed  PROVE HashedSoFar(reg', f)
    <2>1. /\ (n + 1 - 1) * c < Len(f)
          /\ reached = IF (n + 1) * c <= Len(f) THEN (n + 1) * c ELSE Len(f)
          /\ \A k \in 1 .. n + 1 : chunks[k] = ReadAt(f, (k - 1) * c, c)
      BY <1>8, <1>10
    <2>2. /\ reg'.chunks = chunks /\ Len(chunks) = n + 1 /\ reg'.chunkSize = c
          /\ reg'.offset = reached /\ reg'.size = Len(f)
      BY <1>4, <1>6, <1>9, <1>10
    <2>. QED  BY <1>1, <2>1, <2>2 DEF HashedSoFar
  <1>11. RegKnows'
    BY <1>6, <1>9, <1>10 DEF RegKnows
  <1>. QED  BY <1>7, <1>11

LEMMA StoredManifest ==
    ASSUME ShareTypeOK, Hashing
    PROVE  /\ Hashed \in Manifest
           /\ DOMAIN Stored(Hashed, reg.path) = DOMAIN shares \cup {Hashed}
           /\ \A m \in DOMAIN Stored(Hashed, reg.path) : Stored(Hashed, reg.path)[m] \in Path
           /\ Stored(Hashed, reg.path)[Hashed] = reg.path
  <1>1. Hashed \in Manifest /\ reg.path \in Path
    BY Bytes DEF Hashed, Manifest
  <1>. QED  BY <1>1 DEF Stored, ShareTypeOK

LEMMA RegisterEnds ==
    ASSUME ShareTypeOK, RegKnows, EndRegister
    PROVE  /\ ShareTypeOK' /\ RegKnows'
           /\ \/ shares' = shares
              \/ /\ Hashed \in Manifest
                 /\ DOMAIN shares' = DOMAIN shares \cup {Hashed}
  <1>1. ~Hashing'
    BY DEF EndRegister, Hashing
  <1>2. \/ shares' = shares
        \/ shares' = Stored(Hashed, reg.path)
    BY DEF EndRegister
  <1>3. DOMAIN shares' \subseteq Manifest /\ \A m \in DOMAIN shares' : shares'[m] \in Path
    BY <1>2, StoredManifest DEF ShareTypeOK, EndRegister
  <1>. QED  BY <1>1, <1>2, <1>3, StoredManifest DEF ShareTypeOK, RegKnows, EndRegister

LEMMA FileIsEdited ==
    ASSUME ShareTypeOK, RegKnows, NEW p \in Path, Edit(p)
    PROVE  ShareTypeOK' /\ RegKnows'
  <1>1. PICK c \in Content \cup {NoFile} :
           /\ Hashing /\ reg.path = p => c # NoFile
           /\ file' = [file EXCEPT ![p] = c]
    BY DEF Edit
  <1>2. /\ file' \in [Path -> Content \cup {NoFile}] /\ file'[p] = c
        /\ \A q \in Path \ {p} : file'[q] = file[q]
    BY <1>1 DEF ShareTypeOK
  <1>3. edits' \in 0 .. MaxEdits /\ began' = began /\ shares' = shares
    BY ShareAssumption DEF ShareTypeOK, Edit
  <1>4. CASE Hashing /\ reg.path = p
    <2>1. reg \in Reg /\ reg' = [reg EXCEPT !.disturbed = TRUE]
      BY <1>4, Bytes DEF Edit
    <2>2. reg' \in Reg /\ reg'.disturbed = TRUE /\ reg'.path = p
      BY <1>4, <2>1 DEF Reg
    <2>3. ShareTypeOK'
      BY <1>2, <1>3, <2>2 DEF ShareTypeOK
    <2>4. reg'.disturbed /\ file'[reg'.path] # NoFile
      BY <1>1, <1>2, <1>4, <2>2
    <2>5. RegKnows'
      BY <2>4, Zenon DEF RegKnows
    <2>. QED  BY <2>3, <2>5
  <1>5. CASE ~(Hashing /\ reg.path = p)
    <2>1. reg' = reg
      BY <1>5 DEF Edit
    <2>2. ShareTypeOK'
      BY <1>2, <1>3, <2>1 DEF ShareTypeOK
    <2>3. Hashing => file'[reg.path] = file[reg.path]
      BY <1>2, <1>5, Bytes
    <2>. QED  BY <2>1, <2>2, <2>3 DEF RegKnows, Hashing
  <1>. QED  BY <1>4, <1>5

LEMMA ShareKeeps ==
    ASSUME ShareTypeOK, RegKnows, ShareNext
    PROVE  ShareTypeOK' /\ RegKnows' /\ DOMAIN shares \subseteq DOMAIN shares'
  <1>1. ASSUME NEW p \in Path, NEW size \in ChunkSize, BeginRegister(p, size)
        PROVE  ShareTypeOK' /\ RegKnows' /\ DOMAIN shares \subseteq DOMAIN shares'
    BY <1>1, RegisterBegins DEF BeginRegister
  <1>2. ASSUME HashChunk
        PROVE  ShareTypeOK' /\ RegKnows' /\ DOMAIN shares \subseteq DOMAIN shares'
    BY <1>2, ChunkIsHashed DEF HashChunk
  <1>3. ASSUME EndRegister
        PROVE  ShareTypeOK' /\ RegKnows' /\ DOMAIN shares \subseteq DOMAIN shares'
    BY <1>3, RegisterEnds
  <1>4. ASSUME NEW p \in Path, Edit(p)
        PROVE  ShareTypeOK' /\ RegKnows' /\ DOMAIN shares \subseteq DOMAIN shares'
    BY <1>4, FileIsEdited DEF Edit
  <1>. QED  BY <1>1, <1>2, <1>3, <1>4 DEF ShareNext

-----------------------------------------------------------------------------
(* Queues: taking the oldest message, adding the newest. *)
LEMMA HeadTail ==
    ASSUME NEW M, NEW q \in Seq(M), q # <<>>
    PROVE  /\ Len(q) \in Nat \ {0} /\ Head(q) \in M /\ Head(q) = q[1]
           /\ Tail(q) \in Seq(M)
           /\ \A k \in 1 .. Len(Tail(q)) : k + 1 \in 1 .. Len(q) /\ Tail(q)[k] = q[k + 1]
  <1>1. Len(q) \in Nat \ {0}
    BY EmptySeq
  <1>2. Tail(q) \in Seq(M) /\ Len(Tail(q)) = Len(q) - 1
    BY <1>1
  <1>. QED  BY <1>1, <1>2

LEMMA Newest ==
    ASSUME NEW M, NEW q \in Seq(M), NEW msg \in M
    PROVE  /\ Append(q, msg) \in Seq(M) /\ Len(Append(q, msg)) = Len(q) + 1
           /\ \A k \in 1 .. Len(Append(q, msg)) :
                 \/ k \in 1 .. Len(q) /\ Append(q, msg)[k] = q[k]
                 \/ Append(q, msg)[k] = msg
  OBVIOUS

LEMMA Alone ==
    ASSUME NEW M, NEW msg \in M
    PROVE  /\ <<msg>> \in Seq(M) /\ Len(<<msg>>) = 1
           /\ \A k \in 1 .. Len(<<msg>>) : <<msg>>[k] = msg
  OBVIOUS

LEMMA Messages ==
    /\ \A same \in BOOLEAN : Hello(same) \in ToServer /\ Hello(same).type = "hello"
    /\ \A m \in Manifest, i \in Nat :
          /\ PieceRequest(m, i) \in ToServer
          /\ PieceRequest(m, i).type = "piece_request"
          /\ PieceRequest(m, i).want = [manifest |-> m, index |-> i]
    /\ Plain("keepalive") \in ToServer /\ Plain("keepalive").type = "keepalive"
    /\ \A type \in {"hello_ack", "keepalive"} :
          Plain(type) \in ToClient /\ Plain(type).type = type
    /\ \A code \in ErrorCode : Error(code) \in ToClient /\ Error(code).type = "error"
    /\ \A hash, data \in Seq(Byte) :
          /\ PieceData(hash, data) \in ToClient
          /\ PieceData(hash, data).type = "piece_data"
          /\ PieceData(hash, data).hash = hash /\ PieceData(hash, data).data = data
  BY DEF Hello, PieceRequest, Plain, Error, PieceData, ToServer, ToClient, Want

LEMMA Asked ==
    ASSUME NEW msg \in ToServer, msg.type = "piece_request"
    PROVE  msg.want \in Want
  BY DEF ToServer

LEMMA Carried ==
    ASSUME NEW msg \in ToClient, msg.type = "piece_data"
    PROVE  msg.hash \in Seq(Byte) /\ msg.data \in Seq(Byte)
  BY DEF ToClient

LEMMA ChunkOf ==
    ASSUME NEW m \in Manifest, NEW i \in Indexes(m)
    PROVE  i \in Nat /\ HashAt(m, i) \in Seq(Byte)
  BY DEF Manifest, Indexes, TotalChunks, HashAt

-----------------------------------------------------------------------------
(* The parts of the type invariant. *)
ClientOK ==
    /\ pc \in {"idle", "connect", "hello", "answer"}
    /\ want \in Want \cup {Nothing}
    /\ attempt \in 0 .. RetryAttempts
    /\ conn \in Conn \cup {Nothing}
    /\ got \in Seq(Byte) \cup {Nothing}

ConnOK ==
    /\ near \in [Conn -> {"none", "open", "closed"}]
    /\ far \in [Conn -> {"none", "hello", "await", "read", "drain", "closing", "closed"}]
    /\ toServer \in [Conn -> Seq(ToServer)]
    /\ toClient \in [Conn -> Seq(ToClient)]
    /\ unsent \subseteq Conn
    /\ serving \in [Conn -> Serving \cup {Nothing}]
    /\ server \in {"up", "stopping", "down"}

LEMMA Parts == TypeOK <=> ShareTypeOK /\ ClientOK /\ ConnOK
  BY DEF TypeOK, ClientOK, ConnOK

LEMMA ShareStays ==
    ASSUME ShareTypeOK, RegKnows, UNCHANGED shareVars
    PROVE  ShareTypeOK' /\ RegKnows' /\ shares' = shares
  BY DEF ShareTypeOK, RegKnows, HashedSoFar, Hashing, shareVars

LEMMA NothingElse ==
    /\ \A w \in Want : w # Nothing /\ w.manifest \in Manifest /\ w.index \in Nat
    /\ \A c \in Conn : c # Nothing
  BY ExchangeAssumption DEF Want

(* On the way to the client there is nothing but the chunk it wants.       *)
Fine(c, msg) ==
    msg.type = "piece_data" /\ c = conn =>
        want.manifest \in DOMAIN shares /\ msg.data = HashAt(want.manifest, want.index)

Answers(c) ==
    \/ UNCHANGED toClient
    \/ \E msg \in ToClient : Reply(c, msg) /\ Fine(c, msg)

LEMMA Answered ==
    ASSUME ConnOK, QueuesKnown, OnlyHashedBytesSent,
           NEW c \in Conn, Answers(c), conn' = conn, want' = want, shares' = shares
    PROVE  /\ toClient' \in [Conn -> Seq(ToClient)]
           /\ \A d \in Conn : d # conn' => toClient'[d] = <<>>
           /\ OnlyHashedBytesSent'
  <1>1. CASE toClient' = toClient
    BY <1>1 DEF ConnOK, QueuesKnown, OnlyHashedBytesSent
  <1>2. CASE toClient' # toClient
    <2>1. PICK msg \in ToClient :
             /\ c = conn /\ toClient' = [toClient EXCEPT ![c] = Append(@, msg)]
             /\ Fine(c, msg)
      BY <1>2 DEF Answers, Reply
    <2>2. toClient[c] \in Seq(ToClient)
      BY DEF ConnOK
    <2>. DEFINE q == Append(toClient[c], msg)
    <2>3. /\ q \in Seq(ToClient)
          /\ \A k \in 1 .. Len(q) : \/ k \in 1 .. Len(toClient[c]) /\ q[k] = toClient[c][k]
                                    \/ q[k] = msg
      BY <2>2, Newest
    <2>4. toClient' = [toClient EXCEPT ![c] = q]
      BY <2>1
    <2>. HIDE DEF q
    <2>5. toClient'[c] = q /\ \A d \in Conn \ {c} : toClient'[d] = toClient[d]
      BY <2>4 DEF ConnOK
    <2>6. toClient' \in [Conn -> Seq(ToClient)]
      BY <2>3, <2>4 DEF ConnOK
    <2>7. \A d \in Conn : d # conn' => toClient'[d] = <<>>
      BY <2>1, <2>5 DEF QueuesKnown
    <2>8. ASSUME NEW d \in Conn, NEW k \in 1 .. Len(toClient'[d]),
                 toClient'[d][k].type = "piece_data"
          PROVE  /\ conn' = d /\ want'.manifest \in DOMAIN shares'
                 /\ toClient'[d][k].data = HashAt(want'.manifest, want'.index)
      <3>1. CASE d # c
        BY <2>5, <2>8, <3>1 DEF OnlyHashedBytesSent
      <3>2. CASE d = c /\ toClient'[d][k] = msg
        BY <2>1, <2>8, <3>2 DEF Fine
      <3>3. CASE d = c /\ k \in 1 .. Len(toClient[c]) /\ q[k] = toClient[c][k]
        BY <2>5, <2>8, <3>3 DEF OnlyHashedBytesSent
      <3>. QED  BY <2>3, <2>5, <3>1, <3>2, <3>3
    <2>9. OnlyHashedBytesSent'
      BY <2>8 DEF OnlyHashedBytesSent
    <2>. QED  BY <2>6, <2>7, <2>9
  <1>. QED  BY <1>1, <1>2

(* A message is taken off a queue, or none is. *)
LEMMA Taken ==
    ASSUME ConnOK, RequestsKnown, NEW c \in Conn,
           \/ toServer' = toServer
           \/ toServer[c] # <<>> /\ toServer' = [toServer EXCEPT ![c] = Tail(@)],
           near' = near, conn' = conn, want' = want
    PROVE  /\ toServer' \in [Conn -> Seq(ToServer)] /\ RequestsKnown'
           /\ \A d \in Conn : toServer[d] = <<>> => toServer'[d] = <<>>
  <1>1. CASE toServer' = toServer
    BY <1>1 DEF ConnOK, RequestsKnown
  <1>2. CASE toServer[c] # <<>> /\ toServer' = [toServer EXCEPT ![c] = Tail(@)]
    <2>1. toServer[c] \in Seq(ToServer)
      BY DEF ConnOK
    <2>. DEFINE q == Tail(toServer[c])
    <2>2. /\ q \in Seq(ToServer)
          /\ \A k \in 1 .. Len(q) : k + 1 \in 1 .. Len(toServer[c]) /\ q[k] = toServer[c][k + 1]
      BY <1>2, <2>1, HeadTail
    <2>3. toServer' = [toServer EXCEPT ![c] = q]
      BY <1>2
    <2>. HIDE DEF q
    <2>4. /\ toServer' \in [Conn -> Seq(ToServer)] /\ toServer'[c] = q
          /\ \A d \in Conn \ {c} : toServer'[d] = toServer[d]
      BY <2>2, <2>3 DEF ConnOK
    <2>5. ASSUME NEW d \in Conn, NEW k \in 1 .. Len(toServer'[d]),
                 d = conn', toServer'[d][k].type = "piece_request"
          PROVE  toServer'[d][k].want = want'
      <3>1. PICK j \in 1 .. Len(toServer[d]) : toServer'[d][k] = toServer[d][j]
        BY <2>2, <2>4
      <3>. QED  BY <2>5, <3>1 DEF RequestsKnown
    <2>6. RequestsKnown'
      BY <2>5 DEF RequestsKnown
    <2>. QED  BY <1>2, <2>4, <2>6
  <1>. QED  BY <1>1, <1>2

(* A handler that stays in its loop: it takes a message or has read a      *)
(* chunk, and answers or begins to read one.                               *)
Reads(c) ==
    /\ serving'[c] \in Serving
    /\ serving'[c].manifest \in DOMAIN shares
    /\ serving'[c].index \in Indexes(serving'[c].manifest)
    /\ c = conn =>
          serving'[c].manifest = want.manifest /\ serving'[c].index = want.index

LEMMA HandlerGoesOn ==
    ASSUME IInv, NEW c \in Conn, NEW to \in {"await", "read", "drain"},
           far[c] \in {"hello", "await", "read", "drain"},
           far' = [far EXCEPT ![c] = to],
           \/ toServer' = toServer
           \/ toServer[c] # <<>> /\ toServer' = [toServer EXCEPT ![c] = Tail(@)],
           Answers(c), unsent' \subseteq Conn,
           serving' \in [Conn -> Serving \cup {Nothing}],
           \A d \in Conn \ {c} : serving'[d] = serving[d],
           to = "read" => Reads(c),
           UNCHANGED <<shareVars, clientVars, near, server>>
    PROVE  IInv'
  <1>1. /\ ShareTypeOK /\ RegKnows /\ ClientOK /\ ConnOK
        /\ ClientKnows /\ QueuesKnown /\ RequestsKnown /\ HandlersKnow /\ OnlyHashedBytesSent
    BY Parts DEF IInv
  <1>2. ShareTypeOK' /\ RegKnows' /\ shares' = shares
    BY <1>1, ShareStays
  <1>3. pc' = pc /\ want' = want /\ attempt' = attempt /\ conn' = conn /\ got' = got
    BY DEF clientVars
  <1>4. ClientOK'
    BY <1>1, <1>3 DEF ClientOK
  <1>5. /\ toServer' \in [Conn -> Seq(ToServer)] /\ RequestsKnown'
        /\ \A d \in Conn : toServer[d] = <<>> => toServer'[d] = <<>>
    BY <1>1, <1>3, Taken
  <1>6. /\ toClient' \in [Conn -> Seq(ToClient)]
        /\ \A d \in Conn : d # conn' => toClient'[d] = <<>>
        /\ OnlyHashedBytesSent'
    BY <1>1, <1>2, <1>3, Answered
  <1>7. ConnOK'
    BY <1>1, <1>5, <1>6 DEF ConnOK
  <1>8. ClientKnows'
    BY <1>1, <1>3 DEF ClientKnows, Awaiting
  <1>9. far'[c] = to /\ \A d \in Conn \ {c} : far'[d] = far[d]
    BY <1>1 DEF ConnOK
  <1>10. QueuesKnown'
    <2>. SUFFICES ASSUME NEW d \in Conn
                  PROVE  /\ near'[d] = "open" => far'[d] # "none"
                         /\ far'[d] \in {"none", "closing", "closed"} => toServer'[d] = <<>>
                         /\ d # conn' => toClient'[d] = <<>>
      BY DEF QueuesKnown
    <2>. QED  BY <1>1, <1>5, <1>6, <1>9 DEF QueuesKnown
  <1>11. HandlersKnow'
    <2>. SUFFICES ASSUME NEW d \in Conn, far'[d] = "read"
                  PROVE  /\ serving'[d] \in Serving
                         /\ serving'[d].manifest \in DOMAIN shares'
                         /\ serving'[d].index \in Indexes(serving'[d].manifest)
                         /\ d = conn' =>
                               /\ serving'[d].manifest = want'.manifest
                               /\ serving'[d].index = want'.index
      BY DEF HandlersKnow
    <2>1. CASE d = c
      BY <1>2, <1>3, <1>9, <2>1 DEF Reads
    <2>2. CASE d # c
      BY <1>1, <1>2, <1>3, <1>9, <2>2 DEF HandlersKnow
    <2>. QED  BY <2>1, <2>2
  <1>. QED  BY <1>2, <1>4, <1>5, <1>6, <1>7, <1>8, <1>10, <1>11, Parts
            DEF IInv, TypeOK, ClientOK, ConnOK

(* A handler ends and closes its end of the connection, with or without a  *)
(* last answer.                                                            *)
LEMMA HandlerEnds ==
    ASSUME IInv, NEW c \in Conn,
           far[c] \notin {"none", "closed"},
           Finally(c), Answers(c),
           UNCHANGED <<shareVars, clientVars, server>>
    PROVE  IInv'
  <1>1. /\ ShareTypeOK /\ RegKnows /\ ClientOK /\ ConnOK
        /\ ClientKnows /\ QueuesKnown /\ RequestsKnown /\ HandlersKnow /\ OnlyHashedBytesSent
    BY Parts DEF IInv
  <1>2. ShareTypeOK' /\ RegKnows' /\ shares' = shares
    BY <1>1, ShareStays
  <1>3. pc' = pc /\ want' = want /\ attempt' = attempt /\ conn' = conn /\ got' = got
    BY DEF clientVars
  <1>4. ClientOK'
    BY <1>1, <1>3 DEF ClientOK
  <1>5. /\ toClient' \in [Conn -> Seq(ToClient)]
        /\ \A d \in Conn : d # conn' => toClient'[d] = <<>>
        /\ OnlyHashedBytesSent'
    BY <1>1, <1>2, <1>3, Answered
  <1>6. /\ toServer'[c] = <<>> /\ serving'[c] = Nothing
        /\ \A d \in Conn \ {c} : toServer'[d] = toServer[d] /\ serving'[d] = serving[d]
    BY <1>1 DEF ConnOK, Finally
  <1>7. /\ far'[c] \in {"none", "closing", "closed"}
        /\ near'[c] = "open" => near[c] = "open" /\ far'[c] # "none"
        /\ near[c] = "open" => near'[c] = "open"
        /\ \A d \in Conn \ {c} : far'[d] = far[d] /\ near'[d] = near[d]
        /\ far' \in [Conn -> {"none", "hello", "await", "read", "drain", "closing", "closed"}]
        /\ near' \in [Conn -> {"none", "open", "closed"}]
    <2>1. CASE FarCloses(c)
      BY <1>1, <2>1 DEF ConnOK, FarCloses, FarClosed
    <2>2. CASE far' = [far EXCEPT ![c] = "closing"] /\ near' = near
      BY <1>1, <2>2 DEF ConnOK
    <2>. QED  BY <2>1, <2>2 DEF Finally
  <1>8. <<>> \in Seq(ToServer)
    OBVIOUS
  <1>9. ConnOK'
    BY <1>1, <1>5, <1>7, <1>8 DEF ConnOK, Finally
  <1>10. ClientKnows'
    BY <1>1, <1>3, <1>7 DEF ClientKnows, Awaiting, ClientOK
  <1>11. QueuesKnown'
    <2>. SUFFICES ASSUME NEW d \in Conn
                  PROVE  /\ near'[d] = "open" => far'[d] # "none"
                         /\ far'[d] \in {"none", "closing", "closed"} => toServer'[d] = <<>>
                         /\ d # conn' => toClient'[d] = <<>>
      BY DEF QueuesKnown
    <2>. QED  BY <1>1, <1>5, <1>6, <1>7 DEF QueuesKnown
  <1>12. RequestsKnown'
    <2>. SUFFICES ASSUME NEW d \in Conn, NEW k \in 1 .. Len(toServer'[d]),
                         d = conn', toServer'[d][k].type = "piece_request"
                  PROVE  toServer'[d][k].want = want'
      BY DEF RequestsKnown
    <2>1. d # c
      BY <1>6
    <2>. QED  BY <1>1, <1>3, <1>6, <2>1 DEF RequestsKnown
  <1>13. HandlersKnow'
    <2>. SUFFICES ASSUME NEW d \in Conn, far'[d] = "read"
                  PROVE  /\ serving'[d] \in Serving
                         /\ serving'[d].manifest \in DOMAIN shares'
                         /\ serving'[d].index \in Indexes(serving'[d].manifest)
                         /\ d = conn' =>
                               /\ serving'[d].manifest = want'.manifest
                               /\ serving'[d].index = want'.index
      BY DEF HandlersKnow
    <2>1. d # c
      BY <1>7
    <2>. QED  BY <1>1, <1>2, <1>3, <1>6, <1>7, <2>1 DEF HandlersKnow
  <1>. QED  BY <1>2, <1>4, <1>5, <1>9, <1>10, <1>11, <1>12, <1>13, Parts
            DEF IInv, TypeOK, ClientOK, ConnOK

(* request_chunk hangs up: the attempt is over, with a chunk or without.   *)
LEMMA HangsUp ==
    ASSUME IInv, Awaiting, NearCloses(conn), conn' = Nothing,
           pc' \in {"idle", "connect"}, want' \in Want \cup {Nothing},
           want' = Nothing <=> pc' = "idle", attempt' \in 0 .. RetryAttempts,
           got' \in Seq(Byte) \cup {Nothing}, UNCHANGED <<shareVars, server>>
    PROVE  IInv'
  <1>1. /\ ShareTypeOK /\ RegKnows /\ ClientOK /\ ConnOK
        /\ ClientKnows /\ QueuesKnown /\ RequestsKnown /\ HandlersKnow /\ OnlyHashedBytesSent
    BY Parts DEF IInv
  <1>2. ShareTypeOK' /\ RegKnows' /\ shares' = shares
    BY <1>1, ShareStays
  <1>3. ClientOK' /\ ClientKnows'
    BY NothingElse DEF ClientOK, ClientKnows, Awaiting
  <1>4. conn \in Conn /\ near[conn] = "open" /\ \A d \in Conn : d # conn'
    BY <1>1, NothingElse DEF ClientKnows, ClientOK
  <1>5. /\ near'[conn] \in {"none", "closed"} /\ toClient'[conn] = <<>>
        /\ far'[conn] = IF far[conn] = "closed" THEN "none" ELSE far[conn]
        /\ toServer' = toServer /\ serving' = serving
        /\ \A d \in Conn \ {conn} : /\ far'[d] = far[d] /\ near'[d] = near[d]
                                    /\ toClient'[d] = toClient[d]
    BY <1>1, <1>4 DEF ConnOK, NearCloses
  <1>6. <<>> \in Seq(ToClient)
    OBVIOUS
  <1>7. ConnOK'
    BY <1>1, <1>4, <1>6 DEF ConnOK, NearCloses
  <1>8. \A d \in Conn : toClient'[d] = <<>>
    BY <1>1, <1>5 DEF QueuesKnown
  <1>9. QueuesKnown'
    <2>. SUFFICES ASSUME NEW d \in Conn
                  PROVE  /\ near'[d] = "open" => far'[d] # "none"
                         /\ far'[d] \in {"none", "closing", "closed"} => toServer'[d] = <<>>
                         /\ d # conn' => toClient'[d] = <<>>
      BY DEF QueuesKnown
    <2>. QED  BY <1>1, <1>4, <1>5, <1>8 DEF QueuesKnown
  <1>10. RequestsKnown'
    BY <1>4 DEF RequestsKnown
  <1>11. HandlersKnow'
    <2>. SUFFICES ASSUME NEW d \in Conn, far'[d] = "read"
                  PROVE  /\ serving'[d] \in Serving
                         /\ serving'[d].manifest \in DOMAIN shares'
                         /\ serving'[d].index \in Indexes(serving'[d].manifest)
                         /\ d # conn'
      BY DEF HandlersKnow
    <2>. QED  BY <1>1, <1>2, <1>4, <1>5 DEF HandlersKnow
  <1>12. OnlyHashedBytesSent'
    <2>1. Len(<<>>) = 0
      OBVIOUS
    <2>. QED  BY <1>8, <2>1 DEF OnlyHashedBytesSent
  <1>. QED  BY <1>2, <1>3, <1>7, <1>9, <1>10, <1>11, <1>12, Parts
            DEF IInv, TypeOK, ClientOK, ConnOK

-----------------------------------------------------------------------------
(* The steps of PeerClient. *)
LEMMA WantedIsKnown ==
    ASSUME IInv
    PROVE  /\ pc # "idle" => want \in Want
           /\ Awaiting => conn \in Conn
  BY NothingElse DEF IInv, TypeOK, ClientKnows

LEMMA AttemptOver ==
    ASSUME IInv, AttemptFails, pc # "idle"
    PROVE  /\ conn' = Nothing /\ pc' \in {"idle", "connect"}
           /\ want' \in Want \cup {Nothing} /\ (want' = Nothing <=> pc' = "idle")
           /\ attempt' \in 0 .. RetryAttempts /\ got' \in Seq(Byte) \cup {Nothing}
           /\ (want' = want \/ want' = Nothing) /\ got' = got
  <1>1. want \in Want /\ want # Nothing
    BY WantedIsKnown, NothingElse
  <1>2. attempt \in Nat /\ attempt <= RetryAttempts /\ RetryAttempts \in Nat
    BY ExchangeAssumption DEF IInv, TypeOK
  <1>3. got \in Seq(Byte) \cup {Nothing}
    BY DEF IInv, TypeOK
  <1>. QED  BY <1>1, <1>2, <1>3 DEF AttemptFails

LEMMA FailureKeeps ==
    ASSUME IInv, Awaiting, FailsAndCloses
    PROVE  IInv'
  <1>1. pc # "idle" /\ AttemptFails
    BY DEF Awaiting, FailsAndCloses
  <1>2. /\ conn' = Nothing /\ pc' \in {"idle", "connect"}
        /\ want' \in Want \cup {Nothing} /\ (want' = Nothing <=> pc' = "idle")
        /\ attempt' \in 0 .. RetryAttempts /\ got' \in Seq(Byte) \cup {Nothing}
    BY <1>1, AttemptOver
  <1>. QED  BY <1>2, HangsUp DEF FailsAndCloses

LEMMA PieceKeeps ==
    ASSUME IInv, ReceivePiece
    PROVE  IInv'
  <1>1. Awaiting /\ Received /\ pc # "idle" /\ NearCloses(conn) /\ UNCHANGED <<shareVars, server>>
    BY DEF ReceivePiece, Received
  <1>2. CASE Message.data = Message.hash
    <2>1. /\ conn' = Nothing /\ pc' = "idle" /\ want' = Nothing /\ attempt' = 0
          /\ got' = Message.data
      BY <1>2 DEF ReceivePiece
    <2>2. Message \in ToClient
      <3>1. toClient[conn] \in Seq(ToClient) /\ toClient[conn] # <<>>
        BY <1>1, WantedIsKnown DEF IInv, TypeOK, Received
      <3>. QED  BY <3>1, HeadTail DEF Message
    <2>3. got' \in Seq(Byte)
      BY <2>1, <2>2, Carried DEF ReceivePiece
    <2>4. 0 \in 0 .. RetryAttempts
      BY ExchangeAssumption
    <2>. QED  BY <1>1, <2>1, <2>3, <2>4, HangsUp
  <1>3. CASE Message.data # Message.hash
    <2>1. AttemptFails
      BY <1>3 DEF ReceivePiece
    <2>2. /\ conn' = Nothing /\ pc' \in {"idle", "connect"}
          /\ want' \in Want \cup {Nothing} /\ (want' = Nothing <=> pc' = "idle")
          /\ attempt' \in 0 .. RetryAttempts /\ got' \in Seq(Byte) \cup {Nothing}
      BY <1>1, <2>1, AttemptOver
    <2>. QED  BY <1>1, <2>2, HangsUp
  <1>. QED  BY <1>2, <1>3

LEMMA AskKeeps ==
    ASSUME IInv, NEW m \in DOMAIN shares \cup Foreign, NEW i \in Indexes(m), Ask(m, i)
    PROVE  IInv' /\ m \in Manifest /\ i \in Nat
  <1>1. m \in Manifest /\ i \in Nat
    BY ExchangeAssumption, ChunkOf DEF IInv, TypeOK, ShareTypeOK
  <1>2. ShareTypeOK' /\ RegKnows' /\ shares' = shares
    BY ShareStays DEF IInv, TypeOK, Ask
  <1>3. conn = Nothing /\ conn' = Nothing /\ near' = near /\ far' = far /\ serving' = serving
        /\ toServer' = toServer /\ toClient' = toClient /\ server' = server
        /\ unsent' = unsent
    BY DEF Ask, IInv, ClientKnows, Awaiting, connVars
  <1>4. ClientOK' /\ ClientKnows'
    <2>1. want' \in Want /\ want' # Nothing /\ pc' = "connect" /\ attempt' = 0 /\ got' = Nothing
      BY <1>1, NothingElse DEF Ask, Want
    <2>. QED  BY <1>3, <2>1, ExchangeAssumption DEF ClientOK, ClientKnows, Awaiting
  <1>5. ConnOK'
    BY <1>3 DEF ConnOK, IInv, TypeOK
  <1>6. \A c \in Conn : c # conn /\ c # conn'
    BY <1>3, NothingElse
  <1>7. QueuesKnown' /\ RequestsKnown' /\ HandlersKnow'
    BY <1>2, <1>3, <1>6 DEF IInv, QueuesKnown, RequestsKnown, HandlersKnow
  <1>8. OnlyHashedBytesSent'
    BY <1>3, <1>6 DEF IInv, OnlyHashedBytesSent
  <1>. QED  BY <1>1, <1>2, <1>4, <1>5, <1>7, <1>8
            DEF IInv, TypeOK, ClientOK, ConnOK

LEMMA ConnectKeeps ==
    ASSUME IInv, NEW c \in Conn, Connect(c)
    PROVE  IInv'
  <1>1. ShareTypeOK' /\ RegKnows' /\ shares' = shares
    BY ShareStays DEF IInv, TypeOK, Connect
  <1>2. PICK same \in BOOLEAN : toServer' = [toServer EXCEPT ![c] = <<Hello(same)>>]
    BY DEF Connect
  <1>3. /\ Hello(same) \in ToServer /\ Hello(same).type = "hello"
        /\ <<Hello(same)>> \in Seq(ToServer)
        /\ \A k \in 1 .. Len(<<Hello(same)>>) : <<Hello(same)>>[k] = Hello(same)
    BY Messages, Alone
  <1>4. conn = Nothing /\ conn' = c /\ c # Nothing
    BY NothingElse DEF Connect, IInv, ClientKnows, Awaiting
  <1>5. /\ near' = [near EXCEPT ![c] = "open"] /\ far' = [far EXCEPT ![c] = "hello"]
        /\ toClient' = toClient /\ serving' = serving /\ want' = want /\ server' = server
        /\ unsent' = unsent
    BY DEF Connect
  <1>6. ClientOK' /\ ClientKnows'
    BY <1>4, <1>5 DEF Connect, IInv, TypeOK, ClientOK, ClientKnows, Awaiting
  <1>7. ConnOK'
    BY <1>2, <1>3, <1>5 DEF ConnOK, IInv, TypeOK
  <1>8. /\ near'[c] = "open" /\ far'[c] = "hello" /\ toServer'[c] = <<Hello(same)>>
        /\ \A d \in Conn \ {c} : /\ near'[d] = near[d] /\ far'[d] = far[d]
                                 /\ toServer'[d] = toServer[d] /\ d # conn
    BY <1>2, <1>4, <1>5, NothingElse DEF IInv, TypeOK
  <1>9. QueuesKnown'
    <2>. SUFFICES ASSUME NEW d \in Conn
                  PROVE  /\ near'[d] = "open" => far'[d] # "none"
                         /\ far'[d] \in {"none", "closing", "closed"} => toServer'[d] = <<>>
                         /\ d # conn' => toClient'[d] = <<>>
      BY DEF QueuesKnown
    <2>. QED  BY <1>4, <1>5, <1>8 DEF IInv, QueuesKnown
  <1>10. RequestsKnown'
    <2>. SUFFICES ASSUME NEW d \in Conn, NEW k \in 1 .. Len(toServer'[d]),
                         d = conn', toServer'[d][k].type = "piece_request"
                  PROVE  toServer'[d][k].want = want'
      BY DEF RequestsKnown
    <2>1. d # c
      BY <1>3, <1>8
    <2>. QED  BY <1>4, <2>1
  <1>11. HandlersKnow'
    <2>. SUFFICES ASSUME NEW d \in Conn, far'[d] = "read"
                  PROVE  /\ serving'[d] \in Serving
                         /\ serving'[d].manifest \in DOMAIN shares'
                         /\ serving'[d].index \in Indexes(serving'[d].manifest)
                         /\ d # conn'
      BY DEF HandlersKnow
    <2>1. d # c
      BY <1>8
    <2>. QED  BY <1>1, <1>4, <1>5, <1>8, <2>1 DEF IInv, HandlersKnow
  <1>12. OnlyHashedBytesSent'
    BY <1>4, <1>5, NothingElse DEF IInv, OnlyHashedBytesSent
  <1>. QED  BY <1>1, <1>6, <1>7, <1>9, <1>10, <1>11, <1>12
            DEF IInv, TypeOK, ClientOK, ConnOK

LEMMA ConnectFailsKeeps ==
    ASSUME IInv, ConnectFails
    PROVE  IInv'
  <1>1. ShareTypeOK' /\ RegKnows' /\ shares' = shares
    BY ShareStays DEF IInv, TypeOK, ConnectFails
  <1>2. /\ conn' = Nothing /\ pc' \in {"idle", "connect"}
        /\ want' \in Want \cup {Nothing} /\ (want' = Nothing <=> pc' = "idle")
        /\ attempt' \in 0 .. RetryAttempts /\ got' \in Seq(Byte) \cup {Nothing}
    BY AttemptOver DEF ConnectFails
  <1>3. conn = Nothing /\ near' = near /\ far' = far /\ serving' = serving
        /\ toServer' = toServer /\ toClient' = toClient /\ server' = server
        /\ unsent' = unsent
    BY DEF ConnectFails, IInv, ClientKnows, Awaiting, connVars
  <1>4. ClientOK' /\ ClientKnows'
    BY <1>2 DEF ClientOK, ClientKnows, Awaiting
  <1>5. ConnOK'
    BY <1>3 DEF ConnOK, IInv, TypeOK
  <1>6. \A c \in Conn : c # conn /\ c # conn'
    BY <1>2, <1>3, NothingElse
  <1>7. QueuesKnown' /\ RequestsKnown' /\ HandlersKnow'
    BY <1>1, <1>3, <1>6 DEF IInv, QueuesKnown, RequestsKnown, HandlersKnow
  <1>8. OnlyHashedBytesSent'
    BY <1>3, <1>6 DEF IInv, OnlyHashedBytesSent
  <1>. QED  BY <1>1, <1>4, <1>5, <1>7, <1>8
            DEF IInv, TypeOK, ClientOK, ConnOK

(* The client takes a message and goes on waiting for the next. *)
LEMMA ReadsOn ==
    ASSUME IInv, Received, toClient' = [toClient EXCEPT ![conn] = Tail(@)],
           conn' = conn, want' = want, shares' = shares
    PROVE  /\ toClient' \in [Conn -> Seq(ToClient)]
           /\ \A d \in Conn : d # conn' => toClient'[d] = <<>>
           /\ OnlyHashedBytesSent'
  <1>1. /\ conn \in Conn /\ toClient \in [Conn -> Seq(ToClient)] /\ toClient[conn] # <<>>
        /\ QueuesKnown /\ OnlyHashedBytesSent
    BY WantedIsKnown DEF IInv, TypeOK, Received
  <1>. DEFINE q == Tail(toClient[conn])
  <1>2. /\ q \in Seq(ToClient)
        /\ \A k \in 1 .. Len(q) : k + 1 \in 1 .. Len(toClient[conn])
                                  /\ q[k] = toClient[conn][k + 1]
    BY <1>1, HeadTail
  <1>3. toClient' = [toClient EXCEPT ![conn] = q]
    OBVIOUS
  <1>. HIDE DEF q
  <1>4. /\ toClient' \in [Conn -> Seq(ToClient)] /\ toClient'[conn] = q
        /\ \A d \in Conn \ {conn} : toClient'[d] = toClient[d]
    BY <1>1, <1>2, <1>3
  <1>5. \A d \in Conn : d # conn' => toClient'[d] = <<>>
    BY <1>1, <1>4 DEF QueuesKnown
  <1>6. ASSUME NEW d \in Conn, NEW k \in 1 .. Len(toClient'[d]),
               toClient'[d][k].type = "piece_data"
        PROVE  /\ conn' = d /\ want'.manifest \in DOMAIN shares'
               /\ toClient'[d][k].data = HashAt(want'.manifest, want'.index)
    <2>1. PICK j \in 1 .. Len(toClient[d]) : toClient'[d][k] = toClient[d][j]
      BY <1>2, <1>4
    <2>. QED  BY <1>1, <1>6, <2>1 DEF OnlyHashedBytesSent
  <1>7. OnlyHashedBytesSent'
    BY <1>6 DEF OnlyHashedBytesSent
  <1>. QED  BY <1>4, <1>5, <1>7

LEMMA SkipKeeps ==
    ASSUME IInv, SkipMessage
    PROVE  IInv'
  <1>1. ShareTypeOK' /\ RegKnows' /\ shares' = shares
    BY ShareStays DEF IInv, TypeOK, SkipMessage
  <1>2. /\ pc' = pc /\ want' = want /\ attempt' = attempt /\ conn' = conn /\ got' = got
        /\ near' = near /\ far' = far /\ toServer' = toServer /\ serving' = serving
        /\ unsent' = unsent
        /\ server' = server
    BY DEF SkipMessage, clientVars
  <1>3. /\ toClient' \in [Conn -> Seq(ToClient)]
        /\ \A d \in Conn : d # conn' => toClient'[d] = <<>>
        /\ OnlyHashedBytesSent'
    BY <1>1, <1>2, ReadsOn DEF SkipMessage
  <1>4. TypeOK' /\ ClientKnows'
    BY <1>1, <1>2, <1>3 DEF IInv, TypeOK, ClientKnows, Awaiting
  <1>5. QueuesKnown' /\ RequestsKnown' /\ HandlersKnow'
    BY <1>1, <1>2, <1>3 DEF IInv, QueuesKnown, RequestsKnown, HandlersKnow
  <1>. QED  BY <1>1, <1>3, <1>4, <1>5 DEF IInv

LEMMA HelloAckKeeps ==
    ASSUME IInv, ReceiveHelloAck
    PROVE  IInv'
  <1>1. ShareTypeOK' /\ RegKnows' /\ shares' = shares
    BY ShareStays DEF IInv, TypeOK, ReceiveHelloAck
  <1>2. /\ pc = "hello" /\ pc' = "answer" /\ Received
        /\ want' = want /\ attempt' = attempt /\ conn' = conn /\ got' = got
        /\ near' = near /\ far' = far /\ serving' = serving /\ server' = server
        /\ unsent' = unsent
    BY DEF ReceiveHelloAck
  <1>3. /\ toClient' \in [Conn -> Seq(ToClient)]
        /\ \A d \in Conn : d # conn' => toClient'[d] = <<>>
        /\ OnlyHashedBytesSent'
    BY <1>1, <1>2, ReadsOn DEF ReceiveHelloAck
  <1>4. conn \in Conn /\ want \in Want /\ near[conn] = "open" /\ conn # Nothing
    BY <1>2, WantedIsKnown, NothingElse DEF IInv, ClientKnows, Awaiting
  <1>5. /\ Requested \in ToServer
        /\ Requested.want = want
    <2>1. want = [manifest |-> want.manifest, index |-> want.index]
          /\ want.manifest \in Manifest /\ want.index \in Nat
      BY <1>4 DEF Want
    <2>. QED  BY <2>1, Messages DEF Requested
  <1>6. /\ toServer' \in [Conn -> Seq(ToServer)]
        /\ \A d \in Conn : far[d] = "none" \/ Deaf(d) => toServer'[d] = toServer[d]
        /\ \A d \in Conn : \A k \in 1 .. Len(toServer'[d]) :
              \/ k \in 1 .. Len(toServer[d]) /\ toServer'[d][k] = toServer[d][k]
              \/ d = conn /\ toServer'[d][k] = Requested
    <2>1. CASE Deaf(conn)
      BY <2>1 DEF ReceiveHelloAck, IInv, TypeOK
    <2>2. CASE ~Deaf(conn)
      <3>. DEFINE q == Append(toServer[conn], Requested)
      <3>1. toServer' = [toServer EXCEPT ![conn] = q]
        BY <2>2 DEF ReceiveHelloAck
      <3>2. toServer[conn] \in Seq(ToServer) /\ toServer \in [Conn -> Seq(ToServer)]
        BY <1>4 DEF IInv, TypeOK
      <3>3. /\ q \in Seq(ToServer)
            /\ \A k \in 1 .. Len(q) :
                  \/ k \in 1 .. Len(toServer[conn]) /\ q[k] = toServer[conn][k]
                  \/ q[k] = Requested
        BY <1>5, <3>2, Newest
      <3>. HIDE DEF q
      <3>4. far[conn] # "none"
        BY <1>4 DEF IInv, QueuesKnown
      <3>5. /\ toServer' \in [Conn -> Seq(ToServer)] /\ toServer'[conn] = q
            /\ \A d \in Conn \ {conn} : toServer'[d] = toServer[d]
        BY <1>4, <3>1, <3>2, <3>3
      <3>6. ASSUME NEW d \in Conn, NEW k \in 1 .. Len(toServer'[d])
            PROVE  \/ k \in 1 .. Len(toServer[d]) /\ toServer'[d][k] = toServer[d][k]
                   \/ d = conn /\ toServer'[d][k] = Requested
        <4>1. CASE d = conn
          BY <3>3, <3>5, <4>1
        <4>2. CASE d # conn
          BY <3>5, <4>2
        <4>. QED  BY <4>1, <4>2
      <3>. QED  BY <2>2, <3>4, <3>5, <3>6
    <2>. QED  BY <2>1, <2>2
  <1>7. TypeOK' /\ ClientKnows'
    BY <1>1, <1>2, <1>3, <1>4, <1>6 DEF IInv, TypeOK, ClientKnows, Awaiting
  <1>8. QueuesKnown'
    BY <1>2, <1>3, <1>6 DEF IInv, QueuesKnown, Deaf
  <1>9. RequestsKnown'
    <2>. SUFFICES ASSUME NEW d \in Conn, NEW k \in 1 .. Len(toServer'[d]),
                         d = conn', toServer'[d][k].type = "piece_request"
                  PROVE  toServer'[d][k].want = want'
      BY DEF RequestsKnown
    <2>1. CASE k \in 1 .. Len(toServer[d]) /\ toServer'[d][k] = toServer[d][k]
      BY <1>2, <2>1 DEF IInv, RequestsKnown
    <2>2. CASE d = conn /\ toServer'[d][k] = Requested
      BY <1>2, <1>5, <2>2
    <2>. QED  BY <1>6, <2>1, <2>2
  <1>10. HandlersKnow'
    BY <1>1, <1>2 DEF IInv, HandlersKnow
  <1>. QED  BY <1>1, <1>3, <1>7, <1>8, <1>9, <1>10 DEF IInv

LEMMA ClientKeeps ==
    ASSUME IInv, ClientStep
    PROVE  IInv'
  <1>1. CASE ReadTimesOut \/ ReadsEnd \/ ReceiveRefusal
    BY <1>1, FailureKeeps DEF ReadTimesOut, ReadsEnd, ReceiveRefusal, Received
  <1>. QED  BY <1>1, ConnectKeeps, ConnectFailsKeeps, HelloAckKeeps, SkipKeeps, PieceKeeps
            DEF ClientStep

-----------------------------------------------------------------------------
(* The steps of other programs. *)
LEMMA OtherConnectsKeeps ==
    ASSUME IInv, NEW c \in Conn, OtherConnects(c)
    PROVE  IInv'
  <1>1. ShareTypeOK' /\ RegKnows' /\ shares' = shares
    BY ShareStays DEF IInv, TypeOK, OtherConnects
  <1>2. /\ pc' = pc /\ want' = want /\ attempt' = attempt /\ conn' = conn /\ got' = got
        /\ toServer' = toServer /\ toClient' = toClient /\ serving' = serving
        /\ server' = server
    BY DEF OtherConnects, clientVars
  <1>3. /\ near[c] = "none" /\ far[c] = "none" /\ near'[c] = "open" /\ far'[c] = "hello"
        /\ \A d \in Conn \ {c} : near'[d] = near[d] /\ far'[d] = far[d]
    BY DEF OtherConnects, IInv, TypeOK
  <1>4. toServer[c] = <<>> /\ Len(toServer'[c]) = 0 /\ c # conn
    BY <1>2, <1>3, NothingElse DEF IInv, QueuesKnown, ClientKnows
  <1>5. TypeOK'
    BY <1>1, <1>2 DEF IInv, TypeOK, OtherConnects
  <1>6. ClientKnows'
    BY <1>2, <1>3, NothingElse DEF IInv, TypeOK, ClientKnows, Awaiting
  <1>7. QueuesKnown'
    <2>. SUFFICES ASSUME NEW d \in Conn
                  PROVE  /\ near'[d] = "open" => far'[d] # "none"
                         /\ far'[d] \in {"none", "closing", "closed"} => toServer'[d] = <<>>
                         /\ d # conn' => toClient'[d] = <<>>
      BY DEF QueuesKnown
    <2>. QED  BY <1>2, <1>3 DEF IInv, QueuesKnown
  <1>8. RequestsKnown'
    <2>. SUFFICES ASSUME NEW d \in Conn, NEW k \in 1 .. Len(toServer'[d]),
                         d = conn', toServer'[d][k].type = "piece_request"
                  PROVE  toServer'[d][k].want = want'
      BY DEF RequestsKnown
    <2>1. d # c
      BY <1>4
    <2>. QED  BY <1>2, <1>3, <2>1 DEF IInv, RequestsKnown
  <1>9. HandlersKnow'
    BY <1>1, <1>2, <1>3 DEF IInv, HandlersKnow
  <1>10. OnlyHashedBytesSent'
    BY <1>1, <1>2 DEF IInv, OnlyHashedBytesSent
  <1>. QED  BY <1>1, <1>5, <1>6, <1>7, <1>8, <1>9, <1>10 DEF IInv

LEMMA OtherSendsKeeps ==
    ASSUME IInv, NEW c \in Conn, OtherSends(c)
    PROVE  IInv'
  <1>1. ShareTypeOK' /\ RegKnows' /\ shares' = shares
    BY ShareStays DEF IInv, TypeOK, OtherSends
  <1>2. /\ pc' = pc /\ want' = want /\ attempt' = attempt /\ conn' = conn /\ got' = got
        /\ near' = near /\ far' = far /\ toClient' = toClient /\ serving' = serving
        /\ unsent' = unsent
        /\ server' = server
    BY DEF OtherSends, clientVars
  <1>3. PICK msg \in ToServer : toServer' = [toServer EXCEPT ![c] = <<msg>>]
    <2>1. CASE \E msg \in {Hello(TRUE), Plain("keepalive")} :
                  toServer' = [toServer EXCEPT ![c] = <<msg>>]
      BY <2>1, Messages
    <2>2. ASSUME NEW m \in DOMAIN shares, NEW i \in OtherIndex
          PROVE  PieceRequest(m, i) \in ToServer
      <3>1. m \in Manifest /\ i \in Nat
        BY ExchangeAssumption DEF IInv, TypeOK, ShareTypeOK
      <3>. QED  BY <3>1, Messages
    <2>3. CASE \E m \in DOMAIN shares, i \in OtherIndex :
                  toServer' = [toServer EXCEPT ![c] = <<PieceRequest(m, i)>>]
      BY <2>2, <2>3
    <2>. QED  BY <2>1, <2>3 DEF OtherSends
  <1>5. /\ <<msg>> \in Seq(ToServer)
        /\ \A k \in 1 .. Len(<<msg>>) : <<msg>>[k] = msg
    BY Alone
  <1>6. /\ toServer' \in [Conn -> Seq(ToServer)] /\ toServer'[c] = <<msg>>
        /\ \A d \in Conn \ {c} : toServer'[d] = toServer[d]
    BY <1>3, <1>5 DEF IInv, TypeOK
  <1>7. TypeOK' /\ ClientKnows'
    BY <1>1, <1>2, <1>6 DEF IInv, TypeOK, ClientKnows, Awaiting
  <1>8. near[c] = "open" /\ c # conn /\ far[c] \notin {"none", "closing", "closed"}
    BY DEF OtherSends, Deaf, IInv, QueuesKnown
  <1>9. QueuesKnown'
    BY <1>2, <1>6, <1>8 DEF IInv, QueuesKnown
  <1>10. RequestsKnown'
    <2>. SUFFICES ASSUME NEW d \in Conn, NEW k \in 1 .. Len(toServer'[d]),
                         d = conn', toServer'[d][k].type = "piece_request"
                  PROVE  toServer'[d][k].want = want'
      BY DEF RequestsKnown
    <2>. QED  BY <1>2, <1>6, <1>8 DEF IInv, RequestsKnown
  <1>11. HandlersKnow' /\ OnlyHashedBytesSent'
    BY <1>1, <1>2 DEF IInv, HandlersKnow, OnlyHashedBytesSent
  <1>. QED  BY <1>1, <1>7, <1>9, <1>10, <1>11 DEF IInv

LEMMA OtherClosesKeeps ==
    ASSUME IInv, NEW c \in Conn, OtherCloses(c)
    PROVE  IInv'
  <1>1. ShareTypeOK' /\ RegKnows' /\ shares' = shares
    BY ShareStays DEF IInv, TypeOK, OtherCloses
  <1>2. /\ pc' = pc /\ want' = want /\ attempt' = attempt /\ conn' = conn /\ got' = got
        /\ toServer' = toServer /\ serving' = serving /\ server' = server /\ c # conn
    BY DEF OtherCloses, clientVars, NearCloses
  <1>3. /\ near'[c] \in {"none", "closed"} /\ toClient'[c] = <<>>
        /\ far'[c] = IF far[c] = "closed" THEN "none" ELSE far[c]
        /\ \A d \in Conn \ {c} : /\ near'[d] = near[d] /\ far'[d] = far[d]
                                 /\ toClient'[d] = toClient[d]
    BY DEF OtherCloses, NearCloses, IInv, TypeOK
  <1>4. <<>> \in Seq(ToClient) /\ Len(<<>>) = 0
    OBVIOUS
  <1>5. TypeOK'
    BY <1>1, <1>2, <1>4 DEF IInv, TypeOK, OtherCloses, NearCloses
  <1>6. ClientKnows'
    BY <1>2, <1>3 DEF IInv, TypeOK, ClientKnows, Awaiting
  <1>7. QueuesKnown'
    <2>. SUFFICES ASSUME NEW d \in Conn
                  PROVE  /\ near'[d] = "open" => far'[d] # "none"
                         /\ far'[d] \in {"none", "closing", "closed"} => toServer'[d] = <<>>
                         /\ d # conn' => toClient'[d] = <<>>
      BY DEF QueuesKnown
    <2>. QED  BY <1>2, <1>3 DEF IInv, QueuesKnown
  <1>8. RequestsKnown'
    BY <1>2 DEF IInv, RequestsKnown
  <1>9. HandlersKnow'
    BY <1>1, <1>2, <1>3 DEF IInv, HandlersKnow
  <1>10. OnlyHashedBytesSent'
    <2>. SUFFICES ASSUME NEW d \in Conn, NEW k \in 1 .. Len(toClient'[d]),
                         toClient'[d][k].type = "piece_data"
                  PROVE  /\ conn' = d /\ want'.manifest \in DOMAIN shares'
                         /\ toClient'[d][k].data = HashAt(want'.manifest, want'.index)
      BY DEF OnlyHashedBytesSent
    <2>1. d # c
      BY <1>3, <1>4
    <2>. QED  BY <1>1, <1>2, <1>3, <2>1 DEF IInv, OnlyHashedBytesSent
  <1>. QED  BY <1>1, <1>5, <1>6, <1>7, <1>8, <1>9, <1>10 DEF IInv

LEMMA OtherReadsKeeps ==
    ASSUME IInv, NEW c \in Conn, OtherReads(c)
    PROVE  IInv'
  <1>1. ShareTypeOK' /\ RegKnows' /\ shares' = shares
    BY ShareStays DEF IInv, TypeOK, OtherReads
  <1>2. /\ pc' = pc /\ want' = want /\ attempt' = attempt /\ conn' = conn /\ got' = got
        /\ near' = near /\ toServer' = toServer /\ toClient' = toClient
        /\ serving' = serving /\ server' = server /\ unsent' \subseteq Conn
    BY DEF OtherReads, clientVars, IInv, TypeOK
  <1>3. /\ far' \in [Conn -> {"none", "hello", "await", "read", "drain", "closing", "closed"}]
        /\ \A d \in Conn : far'[d] = far[d] \/ (far[d] = "drain" /\ far'[d] = "await")
    <2>1. far \in [Conn -> {"none", "hello", "await", "read", "drain", "closing", "closed"}]
      BY DEF IInv, TypeOK
    <2>2. CASE far' = far
      BY <2>1, <2>2
    <2>3. CASE far[c] = "drain" /\ far' = [far EXCEPT ![c] = "await"]
      BY <2>1, <2>3
    <2>. QED  BY <2>2, <2>3 DEF OtherReads
  <1>4. TypeOK' /\ ClientKnows'
    BY <1>1, <1>2, <1>3 DEF IInv, TypeOK, ClientKnows, Awaiting
  <1>5. QueuesKnown' /\ RequestsKnown'
    BY <1>2, <1>3 DEF IInv, QueuesKnown, RequestsKnown
  <1>6. HandlersKnow' /\ OnlyHashedBytesSent'
    BY <1>1, <1>2, <1>3 DEF IInv, HandlersKnow, OnlyHashedBytesSent
  <1>. QED  BY <1>1, <1>4, <1>5, <1>6 DEF IInv

-----------------------------------------------------------------------------
(* The steps of PeerServer. *)
LEMMA TakesKeeps ==
    ASSUME IInv, NEW c \in Conn, Waiting(c), Arrived(c),
           NEW answer \in ToClient, answer.type # "piece_data",
           Takes(c, answer) \/ TakesLast(c, answer)
    PROVE  IInv'
  <1>1. Reply(c, answer) => Answers(c)
    BY DEF Answers, Fine
  <1>2. serving \in [Conn -> Serving \cup {Nothing}] /\ unsent \subseteq Conn
    BY DEF IInv, TypeOK
  <1>3. CASE Takes(c, answer)
    <2>1. PICK to \in {"await", "drain"} : far' = [far EXCEPT ![c] = to]
      BY <1>3 DEF Takes, Written
    <2>. QED  BY <1>1, <1>2, <1>3, <2>1, HandlerGoesOn DEF Takes, Waiting, Arrived
  <1>4. CASE TakesLast(c, answer)
    BY <1>1, <1>4, HandlerEnds DEF TakesLast, Waiting
  <1>. QED  BY <1>3, <1>4

LEMMA AnswersAre ==
    /\ \A type \in {"hello_ack", "keepalive"} :
          Plain(type) \in ToClient /\ Plain(type).type # "piece_data"
    /\ \A code \in ErrorCode : Error(code) \in ToClient /\ Error(code).type # "piece_data"
    /\ {"invalid_handshake", "protocol_version_mismatch", "read_timeout",
        "unsupported_message_type", "info_hash_not_shared", "piece_not_available",
        "shared_file_missing", "shared_chunk_corrupt"} = ErrorCode
  BY Messages DEF ErrorCode

LEMMA HelloKeeps ==
    ASSUME IInv, NEW c \in Conn, HandleHello(c)
    PROVE  IInv'
  <1>1. Waiting(c) /\ Arrived(c)
    BY DEF HandleHello, Waiting
  <1>. QED  BY <1>1, TakesKeeps, AnswersAre DEF HandleHello

LEMMA OtherKeeps ==
    ASSUME IInv, NEW c \in Conn, HandleOther(c)
    PROVE  IInv'
  <1>1. Waiting(c) /\ Arrived(c)
    BY DEF HandleOther, Waiting
  <1>. QED  BY <1>1, TakesKeeps, AnswersAre DEF HandleOther

LEMMA LookUpKeeps ==
    ASSUME IInv, NEW c \in Conn, LookUp(c)
    PROVE  IInv'
  <1>. DEFINE w == Request(c).want
              m == w.manifest
  <1>1. Waiting(c) /\ Arrived(c) /\ Request(c).type = "piece_request" /\ far[c] = "await"
    BY DEF LookUp, Waiting
  <1>2. /\ Request(c) \in ToServer /\ Request(c) = toServer[c][1]
        /\ 1 \in 1 .. Len(toServer[c])
    <2>1. toServer[c] \in Seq(ToServer) /\ toServer[c] # <<>>
      BY <1>1 DEF IInv, TypeOK, Arrived
    <2>. QED  BY <2>1, HeadTail DEF Request
  <1>3. w \in Want /\ m \in Manifest /\ w.index \in Nat
    BY <1>1, <1>2, Asked, NothingElse
  <1>4. CASE \E code \in ErrorCode : Takes(c, Error(code))
    BY <1>1, <1>4, TakesKeeps, AnswersAre
  <1>5. ASSUME m \in DOMAIN shares, w.index \in Indexes(m),
               far' = [far EXCEPT ![c] = "read"],
               toServer' = [toServer EXCEPT ![c] = Tail(@)],
               serving' = [serving EXCEPT ![c] =
                             [manifest |-> m, index |-> w.index, path |-> shares[m]]],
               UNCHANGED <<shareVars, clientVars, near, toClient, unsent, server>>
        PROVE  IInv'
    <2>. DEFINE s == [manifest |-> m, index |-> w.index, path |-> shares[m]]
    <2>1. s \in Serving /\ s.manifest = m /\ s.index = w.index
      BY <1>3, <1>5 DEF Serving, IInv, TypeOK, ShareTypeOK
    <2>2. serving' = [serving EXCEPT ![c] = s]
      BY <1>5
    <2>. HIDE DEF s
    <2>3. /\ serving' \in [Conn -> Serving \cup {Nothing}] /\ serving'[c] = s
          /\ \A d \in Conn \ {c} : serving'[d] = serving[d]
      BY <2>1, <2>2 DEF IInv, TypeOK
    <2>4. c = conn => w = want
      BY <1>1, <1>2, <1>5 DEF IInv, RequestsKnown
    <2>5. Reads(c)
      BY <1>5, <2>1, <2>3, <2>4 DEF Reads
    <2>6. Answers(c) /\ unsent' \subseteq Conn
      BY <1>5 DEF Answers, IInv, TypeOK
    <2>7. toServer[c] # <<>>
      BY <1>1 DEF Arrived
    <2>. QED  BY <1>1, <1>5, <2>3, <2>5, <2>6, <2>7, HandlerGoesOn
  <1>6. \/ \E code \in ErrorCode : Takes(c, Error(code))
        \/ /\ m \in DOMAIN shares /\ w.index \in Indexes(m)
           /\ far' = [far EXCEPT ![c] = "read"]
           /\ toServer' = [toServer EXCEPT ![c] = Tail(@)]
           /\ serving' = [serving EXCEPT ![c] =
                            [manifest |-> m, index |-> w.index, path |-> shares[m]]]
           /\ UNCHANGED <<shareVars, clientVars, near, toClient, unsent, server>>
    <2>1. {"info_hash_not_shared", "piece_not_available", "shared_file_missing"}
             \subseteq ErrorCode
      BY DEF ErrorCode
    <2>. QED  BY <2>1, Zenon DEF LookUp
  <1>. QED  BY <1>4, <1>5, <1>6

LEMMA ReadKeeps ==
    ASSUME IInv, NEW c \in Conn, ReadChunk(c)
    PROVE  IInv'
  <1>. DEFINE m == serving[c].manifest
              i == serving[c].index
              f == file[serving[c].path]
              data == ReadAt(f, i * m.chunkSize, ChunkSizeForIndex(m, i))
              answers(msg) ==
                  /\ Written(c)
                  /\ serving' = [serving EXCEPT ![c] = Nothing]
                  /\ Reply(c, msg)
                  /\ UNCHANGED <<near, toServer>>
  <1>1. /\ far[c] = "read" /\ UNCHANGED <<shareVars, clientVars, server>>
        /\ m \in DOMAIN shares /\ m \in Manifest /\ i \in Indexes(m)
        /\ c = conn => m = want.manifest /\ i = want.index
    BY DEF ReadChunk, IInv, HandlersKnow, TypeOK, ShareTypeOK
  <1>2. CASE Finally(c) /\ UNCHANGED toClient
    BY <1>1, <1>2, HandlerEnds DEF Answers
  <1>3. ASSUME NEW msg \in ToClient, answers(msg), Reply(c, msg) => Answers(c),
               unsent' \subseteq Conn
        PROVE  IInv'
    <2>1. /\ serving' \in [Conn -> Serving \cup {Nothing}]
          /\ \A d \in Conn \ {c} : serving'[d] = serving[d]
      BY <1>3 DEF IInv, TypeOK
    <2>2. PICK to \in {"await", "drain"} : far' = [far EXCEPT ![c] = to]
      BY <1>3 DEF Written
    <2>. QED  BY <1>1, <1>3, <2>1, <2>2, HandlerGoesOn
  <1>4. CASE UNCHANGED unsent /\ answers(Error("shared_chunk_corrupt"))
    <2>1. Error("shared_chunk_corrupt") \in ToClient
          /\ Error("shared_chunk_corrupt").type # "piece_data"
      BY AnswersAre
    <2>2. (Reply(c, Error("shared_chunk_corrupt")) => Answers(c)) /\ unsent' \subseteq Conn
      BY <1>4, <2>1 DEF Answers, Fine, IInv, TypeOK
    <2>. QED  BY <1>3, <1>4, <2>1, <2>2
  <1>5. CASE Verified(m, i, data) /\ LeavesUnsent(c) /\ answers(PieceData(HashAt(m, i), data))
    <2>. DEFINE msg == PieceData(HashAt(m, i), data)
    <2>1. data = HashAt(m, i) /\ HashAt(m, i) \in Seq(Byte)
      BY <1>1, <1>5, ChunkOf DEF Verified
    <2>. HIDE DEF data
    <2>2. msg \in ToClient /\ msg.data = HashAt(m, i)
      BY <2>1, Messages
    <2>. HIDE DEF msg
    <2>5. unsent' \subseteq Conn
      BY <1>5 DEF LeavesUnsent, IInv, TypeOK
    <2>3. CASE near[c] = "open" /\ c = conn
      <3>1. Fine(c, msg)
        BY <1>1, <2>2, <2>3 DEF Fine
      <3>2. Reply(c, msg) => Answers(c)
        BY <2>2, <3>1 DEF Answers
      <3>. QED  BY <1>3, <1>5, <2>2, <2>5, <3>2 DEF msg
    <2>4. CASE ~(near[c] = "open" /\ c = conn)
      <3>1. Reply(c, msg) => Answers(c)
        BY <2>4 DEF Answers, Reply
      <3>. QED  BY <1>3, <1>5, <2>2, <2>5, <3>1 DEF msg
    <2>. QED  BY <2>3, <2>4
  <1>6. \/ Finally(c) /\ UNCHANGED toClient
        \/ UNCHANGED unsent /\ answers(Error("shared_chunk_corrupt"))
        \/ Verified(m, i, data) /\ LeavesUnsent(c) /\ answers(PieceData(HashAt(m, i), data))
    BY Zenon DEF ReadChunk
  <1>. QED  BY <1>2, <1>4, <1>5, <1>6

LEMMA ServerKeeps ==
    ASSUME IInv, NEW c \in Conn, HandlerStep(c)
    PROVE  IInv'
  <1>1. CASE ServerTimesOut(c)
    <2>1. CASE far[c] = "hello" /\ Finally(c)
               /\ UNCHANGED <<shareVars, clientVars, toClient, server>>
      BY <2>1, HandlerEnds DEF Answers
    <2>2. CASE far[c] = "await" /\ TakesLast(c, Error("read_timeout"))
      <3>1. Reply(c, Error("read_timeout")) => Answers(c)
        BY AnswersAre DEF Answers, Fine
      <3>. QED  BY <2>2, <3>1, HandlerEnds DEF TakesLast
    <2>. QED  BY <1>1, <2>1, <2>2 DEF ServerTimesOut
  <1>2. CASE ServerReadsEnd(c)
    BY <1>2, HandlerEnds DEF ServerReadsEnd, Waiting, Answers
  <1>3. CASE Drained(c)
    <2>1. CASE far' = [far EXCEPT ![c] = "await"] /\ UNCHANGED <<near, toServer, unsent, serving>>
      <3>1. serving' \in [Conn -> Serving \cup {Nothing}] /\ unsent' \subseteq Conn
        BY <2>1 DEF IInv, TypeOK
      <3>. QED  BY <1>3, <2>1, <3>1, HandlerGoesOn DEF Drained, Answers
    <2>2. CASE Finally(c)
      BY <1>3, <2>2, HandlerEnds DEF Drained, Answers
    <2>. QED  BY <1>3, <2>1, <2>2 DEF Drained
  <1>4. CASE Closed(c)
    BY <1>4, HandlerEnds DEF Closed, Answers
  <1>. QED  BY <1>1, <1>2, <1>3, <1>4, HelloKeeps, LookUpKeeps, ReadKeeps, OtherKeeps DEF HandlerStep

-----------------------------------------------------------------------------
(* The server starts, stops or dies, and files are shared or changed. *)
LEMMA StopKeeps ==
    ASSUME IInv, Stop \/ EndStop \/ Start
    PROVE  IInv'
  <1>1. ShareTypeOK' /\ RegKnows' /\ shares' = shares
    BY ShareStays DEF IInv, TypeOK, Stop, EndStop, Start
  <1>2. /\ pc' = pc /\ want' = want /\ attempt' = attempt /\ conn' = conn /\ got' = got
        /\ near' = near /\ far' = far /\ toServer' = toServer /\ toClient' = toClient
        /\ serving' = serving /\ server' \in {"up", "stopping", "down"}
        /\ unsent' = unsent
    BY DEF Stop, EndStop, Start, clientVars, connVars
  <1>3. TypeOK' /\ ClientKnows'
    BY <1>1, <1>2 DEF IInv, TypeOK, ClientKnows, Awaiting
  <1>4. QueuesKnown' /\ RequestsKnown'
    BY <1>2 DEF IInv, QueuesKnown, RequestsKnown
  <1>5. HandlersKnow' /\ OnlyHashedBytesSent'
    BY <1>1, <1>2 DEF IInv, HandlersKnow, OnlyHashedBytesSent
  <1>. QED  BY <1>1, <1>3, <1>4, <1>5 DEF IInv

LEMMA CrashKeeps ==
    ASSUME IInv, Crash
    PROVE  IInv'
  <1>1. /\ pc' = pc /\ want' = want /\ attempt' = attempt /\ conn' = conn /\ got' = got
        /\ shares' = shares /\ toClient' = toClient
    BY DEF Crash, clientVars
  <1>2. \A d \in Conn : /\ far'[d] = IF near[d] = "open" THEN "closed" ELSE "none"
                        /\ near'[d] = IF near[d] = "open" THEN "open" ELSE "none"
                        /\ toServer'[d] = <<>> /\ Len(toServer'[d]) = 0
    BY DEF Crash
  <1>3. ShareTypeOK' /\ RegKnows'
    BY DEF Crash, IInv, TypeOK, ShareTypeOK, RegKnows, Hashing
  <1>4. <<>> \in Seq(ToServer)
    OBVIOUS
  <1>5. TypeOK'
    BY <1>1, <1>3, <1>4 DEF Crash, IInv, TypeOK
  <1>6. ClientKnows'
    BY <1>1, <1>2 DEF IInv, TypeOK, ClientKnows, Awaiting
  <1>7. QueuesKnown' /\ RequestsKnown' /\ HandlersKnow'
    BY <1>1, <1>2 DEF IInv, QueuesKnown, RequestsKnown, HandlersKnow
  <1>8. OnlyHashedBytesSent'
    BY <1>1 DEF IInv, OnlyHashedBytesSent
  <1>. QED  BY <1>3, <1>5, <1>6, <1>7, <1>8 DEF IInv

LEMMA SharingKeeps ==
    ASSUME IInv, ShareNext, UNCHANGED <<clientVars, connVars, server>>
    PROVE  IInv'
  <1>1. ShareTypeOK' /\ RegKnows' /\ DOMAIN shares \subseteq DOMAIN shares'
    BY ShareKeeps DEF IInv, TypeOK
  <1>2. /\ pc' = pc /\ want' = want /\ attempt' = attempt /\ conn' = conn /\ got' = got
        /\ near' = near /\ far' = far /\ toServer' = toServer /\ toClient' = toClient
        /\ serving' = serving /\ unsent' = unsent /\ server' = server
    BY DEF clientVars, connVars
  <1>3. TypeOK' /\ ClientKnows'
    BY <1>1, <1>2 DEF IInv, TypeOK, ClientKnows, Awaiting
  <1>4. QueuesKnown' /\ RequestsKnown'
    BY <1>2 DEF IInv, QueuesKnown, RequestsKnown
  <1>5. HandlersKnow' /\ OnlyHashedBytesSent'
    BY <1>1, <1>2 DEF IInv, HandlersKnow, OnlyHashedBytesSent
  <1>. QED  BY <1>1, <1>3, <1>4, <1>5 DEF IInv

LEMMA StepKeeps ==
    ASSUME IInv, [Next]_vars
    PROVE  IInv'
  <1>1. CASE UNCHANGED vars
    <2>1. ShareTypeOK' /\ RegKnows' /\ shares' = shares
      BY <1>1, ShareStays DEF IInv, TypeOK, vars
    <2>2. /\ pc' = pc /\ want' = want /\ attempt' = attempt /\ conn' = conn /\ got' = got
          /\ near' = near /\ far' = far /\ toServer' = toServer /\ toClient' = toClient
          /\ serving' = serving /\ unsent' = unsent /\ server' = server
      BY <1>1 DEF vars, clientVars, connVars
    <2>3. TypeOK' /\ ClientKnows'
      BY <2>1, <2>2 DEF IInv, TypeOK, ClientKnows, Awaiting
    <2>4. QueuesKnown' /\ RequestsKnown'
      BY <2>2 DEF IInv, QueuesKnown, RequestsKnown
    <2>5. HandlersKnow' /\ OnlyHashedBytesSent'
      BY <2>1, <2>2 DEF IInv, HandlersKnow, OnlyHashedBytesSent
    <2>. QED  BY <2>1, <2>3, <2>4, <2>5 DEF IInv
  <1>2. ASSUME NEW c \in Conn,
               OtherConnects(c) \/ OtherSends(c) \/ OtherReads(c) \/ OtherCloses(c)
        PROVE  IInv'
    BY <1>2, OtherConnectsKeeps, OtherSendsKeeps, OtherReadsKeeps, OtherClosesKeeps
  <1>3. ASSUME NEW m \in DOMAIN shares \cup Foreign, NEW i \in Indexes(m), Ask(m, i)
        PROVE  IInv'
    BY <1>3, AskKeeps
  <1>. QED  BY <1>1, <1>2, <1>3, SharingKeeps, ClientKeeps, ServerKeeps, StopKeeps, CrashKeeps
            DEF Next

LEMMA Begins == Init => IInv
  <1>. SUFFICES ASSUME Init  PROVE IInv
    OBVIOUS
  <1>1. ShareTypeOK /\ RegKnows /\ shares = [m \in {} |-> NoFile]
    BY ShareAssumption DEF Init, ShareInit, ShareTypeOK, RegKnows, Hashing
  <1>2. <<>> \in Seq(ToServer) /\ <<>> \in Seq(ToClient) /\ Len(<<>>) = 0
    OBVIOUS
  <1>3. TypeOK
    BY <1>1, <1>2, ExchangeAssumption DEF Init, TypeOK
  <1>4. ClientKnows /\ QueuesKnown
    BY DEF Init, ClientKnows, Awaiting, QueuesKnown
  <1>5. RequestsKnown /\ HandlersKnow /\ OnlyHashedBytesSent
    BY <1>2 DEF Init, RequestsKnown, HandlersKnow, OnlyHashedBytesSent
  <1>. QED  BY <1>1, <1>3, <1>4, <1>5 DEF IInv

-----------------------------------------------------------------------------
(* Client, connections, handlers and catalogue know enough of each other   *)
(* at all times: request_chunk's connection is open while it waits, a      *)
(* handler that reads for it reads what it still wants.                    *)
THEOREM Invariance == Spec => []IInv
  <1>. QED  BY Begins, StepKeeps, PTL DEF Spec

(* Each variable keeps to its type. *)
THEOREM TypeCorrect == Spec => []TypeOK
  <1>1. IInv => TypeOK
    BY DEF IInv
  <1>. QED  BY <1>1, Invariance, PTL

(* Whatever becomes of a shared file and of the server, no client is sent  *)
(* a byte that was not hashed when the file was shared (read_chunk).       *)
THEOREM OnlyHashedBytesTravel == Spec => []OnlyHashedBytesSent
  <1>1. IInv => OnlyHashedBytesSent
    BY DEF IInv
  <1>. QED  BY <1>1, Invariance, PTL

-----------------------------------------------------------------------------
(* The loop of reads ended and the file is what it was: the chunks are     *)
(* those of its manifest.                                                  *)
LEMMA HashedIsManifest ==
    ASSUME ShareTypeOK, RegKnows, EndRegister, ~reg.disturbed
    PROVE  /\ Hashed = ManifestOf(file[reg.path], reg.chunkSize)
           /\ Fits(reg.size, reg.chunkSize, Len(reg.chunks))
  <1>. DEFINE f == file[reg.path]
              c == reg.chunkSize
              n == Len(reg.chunks)
              o == reg.offset
              end == IF o + c <= Len(f) THEN o + c ELSE Len(f)
  <1>1. /\ f \in Seq(Byte) /\ c \in Nat \ {0} /\ n \in Nat /\ o \in Nat
        /\ reg.chunks \in Seq(Seq(Byte)) /\ reg.size \in Nat \ {0}
    BY Bytes DEF EndRegister, RegKnows
  <1>2. HashedSoFar(reg, f) /\ reg.size = Len(f)
    BY DEF EndRegister, RegKnows, HashedSoFar
  <1>3. Len(NextChunk) = IF o <= end THEN end - o ELSE 0
    BY <1>1, ReadAtBytes DEF NextChunk
  <1>4. Len(NextChunk) = 0
    BY DEF EndRegister
  <1>. HIDE DEF f, c, n, o, end
  <1>5. /\ (n - 1) * c < Len(f) /\ o = IF n * c <= Len(f) THEN n * c ELSE Len(f)
        /\ \A k \in 1 .. n : reg.chunks[k] = ReadAt(f, (k - 1) * c, c)
    BY <1>2 DEF HashedSoFar, c, n, o
  <1>6. Len(f) \in Nat \ {0} /\ n * c \in Nat
    BY <1>1, <1>2
  <1>7. Len(f) <= n * c
    <2>1. SUFFICES ASSUME n * c < Len(f)  PROVE FALSE
      BY <1>6
    <2>2. o = n * c /\ o < Len(f)
      BY <1>5, <1>6, <2>1
    <2>3. o < end /\ end \in Nat
      BY <1>1, <1>6, <2>2 DEF end
    <2>. QED  BY <1>1, <1>3, <1>4, <2>3
  <1>8. n = (Len(f) + c - 1) \div c
    BY <1>1, <1>5, <1>6, <1>7, ChunkCount
  <1>9. reg.chunks = [k \in 1 .. n |-> ReadAt(f, (k - 1) * c, c)]
    <2>. DEFINE at(k) == ReadAt(f, (k - 1) * c, c)
    <2>1. reg.chunks = [k \in 1 .. n |-> reg.chunks[k]]
      BY <1>1 DEF n
    <2>2. \A k \in 1 .. n : reg.chunks[k] = at(k)
      BY <1>5, Zenon
    <2>. HIDE DEF at
    <2>3. [k \in 1 .. n |-> reg.chunks[k]] = [k \in 1 .. n |-> at(k)]
      BY <2>2
    <2>. QED  BY <2>1, <2>3 DEF at
  <1>10. Hashed = ManifestOf(f, c)
    BY <1>2, <1>8, <1>9 DEF Hashed, ManifestOf, c
  <1>11. Fits(reg.size, c, n)
    <2>1. LET m == ManifestOf(f, c) IN Fits(m.size, m.chunkSize, TotalChunks(m))
      BY <1>1, <1>6, WholeFileFits
    <2>2. Hashed.size = reg.size /\ Hashed.chunkSize = c /\ TotalChunks(Hashed) = n
      BY DEF Hashed, TotalChunks, c, n
    <2>. QED  BY <1>10, <2>1, <2>2
  <1>. QED  BY <1>10, <1>11 DEF f, c, n

(* Only the end of the loop and the end of the process end a registration. *)
LEMMA OnlyEndRegister ==
    ASSUME IInv, [Next]_vars, Hashing, reg' = NoReg, server' = server
    PROVE  EndRegister
  <1>1. reg \in Reg
    BY Bytes DEF IInv, TypeOK
  <1>2. shareVars' # shareVars
    BY DEF shareVars, Hashing
  <1>3. ASSUME HashChunk  PROVE FALSE
    <2>1. reg'.pc = reg.pc
      BY <1>1, <1>3 DEF HashChunk, Reg
    <2>. QED  BY <1>1, <2>1 DEF Reg, NoReg
  <1>4. ASSUME NEW p \in Path, Edit(p)  PROVE FALSE
    <2>1. reg' = reg \/ reg' = [reg EXCEPT !.disturbed = TRUE]
      BY <1>4 DEF Edit
    <2>2. reg'.pc = reg.pc
      BY <1>1, <2>1 DEF Reg
    <2>. QED  BY <1>1, <2>2 DEF Reg, NoReg
  <1>5. ShareNext => EndRegister
    BY <1>3, <1>4 DEF ShareNext, BeginRegister
  <1>6. ~Crash
    BY DEF Crash
  <1>7. ClientStep => UNCHANGED shareVars
    BY DEF ClientStep, Connect, ConnectFails, ReadTimesOut, ReadsEnd, FailsAndCloses,
           ReceiveHelloAck, ReceiveRefusal, SkipMessage, ReceivePiece
  <1>8. \A c \in Conn : HandlerStep(c) => UNCHANGED shareVars
    BY DEF HandlerStep, HandleHello, LookUp, ReadChunk, HandleOther, ServerTimesOut,
           ServerReadsEnd, Drained, Closed, Takes, TakesLast
  <1>. QED  BY <1>2, <1>5, <1>6, <1>7, <1>8
            DEF Next, Ask, OtherConnects, OtherSends, OtherReads, OtherCloses, Stop, EndStop, Start,
                vars, shareVars

(* A file that nobody changes while it is hashed is accepted whatever its  *)
(* length and the chunk size, and its row holds the manifest it should     *)
(* (register_file, build_file_manifest, validate_chunk_shape).             *)
THEOREM WholeFilesRegister == Spec => UndisturbedRegisters
  <1>1. ASSUME IInv, [Next]_vars
        PROVE  [Hashing /\ reg' = NoReg /\ server' = server /\ ~reg.disturbed =>
                  LET m == ManifestOf(file[reg.path], reg.chunkSize) IN
                  m \in DOMAIN shares' /\ shares'[m] = reg.path]_vars
    <2>. SUFFICES ASSUME Hashing, reg' = NoReg, server' = server, ~reg.disturbed
                  PROVE  LET m == ManifestOf(file[reg.path], reg.chunkSize) IN
                         m \in DOMAIN shares' /\ shares'[m] = reg.path
      OBVIOUS
    <2>1. EndRegister
      BY <1>1, OnlyEndRegister
    <2>2. /\ Hashed = ManifestOf(file[reg.path], reg.chunkSize)
          /\ Fits(reg.size, reg.chunkSize, Len(reg.chunks))
      BY <1>1, <2>1, HashedIsManifest DEF IInv, TypeOK
    <2>3. shares' = Stored(Hashed, reg.path)
      BY <2>1, <2>2 DEF EndRegister
    <2>4. Hashed \in DOMAIN shares' /\ shares'[Hashed] = reg.path
      BY <1>1, <2>3, StoredManifest DEF IInv, TypeOK
    <2>. QED  BY <2>2, <2>4
  <1>. QED  BY <1>1, Invariance, PTL DEF Spec, UndisturbedRegisters

(* A handler is through with its read in no other step than its own.       *)
LEMMA OnlyReadChunk ==
    ASSUME IInv, [Next]_vars, NEW c \in Conn,
           far[c] = "read", far'[c] # "read", server' = server
    PROVE  ReadChunk(c)
  <1>1. far \in [Conn -> {"none", "hello", "await", "read", "drain", "closing", "closed"}]
    BY DEF IInv, TypeOK
  <1>2. far' # far
    OBVIOUS
  <1>3. ASSUME NEW d \in Conn, HandlerStep(d)  PROVE ReadChunk(c)
    <2>1. CASE d = c
      BY <1>3, <2>1 DEF HandlerStep, HandleHello, LookUp, HandleOther, ServerTimesOut,
                        ServerReadsEnd, Drained, Closed, Waiting
    <2>2. ASSUME d # c, FarCloses(d) \/ \E to : far' = [far EXCEPT ![d] = to]  PROVE FALSE
      BY <1>1, <2>2 DEF FarCloses
    <2>3. FarCloses(d) \/ \E to : far' = [far EXCEPT ![d] = to]
      <3>1. CASE HandleHello(d)
        BY <3>1 DEF HandleHello, Takes, Written, TakesLast, Finally
      <3>2. CASE LookUp(d)
        BY <3>2 DEF LookUp, Takes, Written
      <3>3. CASE ReadChunk(d)
        BY <3>3 DEF ReadChunk, Written, Finally
      <3>4. CASE HandleOther(d)
        BY <3>4 DEF HandleOther, Takes, Written, TakesLast, Finally
      <3>5. CASE ServerTimesOut(d) \/ ServerReadsEnd(d) \/ Drained(d) \/ Closed(d)
        BY <3>5 DEF ServerTimesOut, ServerReadsEnd, Drained, Closed, TakesLast, Finally
      <3>. QED  BY <1>3, <3>1, <3>2, <3>3, <3>4, <3>5 DEF HandlerStep
    <2>. QED  BY <2>1, <2>2, <2>3
  <1>4. ASSUME NEW d \in Conn, NearCloses(d)  PROVE FALSE
    BY <1>1, <1>4 DEF NearCloses
  <1>5. ASSUME NEW d \in Conn, Connect(d) \/ OtherConnects(d)  PROVE FALSE
    BY <1>1, <1>5 DEF Connect, OtherConnects
  <1>6. ASSUME ClientStep  PROVE FALSE
    <2>1. Awaiting => conn \in Conn
      BY WantedIsKnown
    <2>2. ConnectFails \/ ReceiveHelloAck \/ SkipMessage => far' = far
      BY DEF ConnectFails, ReceiveHelloAck, SkipMessage, connVars
    <2>3. ReadTimesOut \/ ReadsEnd \/ ReceiveRefusal \/ ReceivePiece
             => Awaiting /\ NearCloses(conn)
      BY DEF ReadTimesOut, ReadsEnd, ReceiveRefusal, ReceivePiece, FailsAndCloses, Received
    <2>. QED  BY <1>2, <1>4, <1>5, <1>6, <2>1, <2>2, <2>3 DEF ClientStep
  <1>7. ~Crash
    BY DEF Crash
  <1>8. ASSUME NEW d \in Conn,
               OtherConnects(d) \/ OtherSends(d) \/ OtherReads(d) \/ OtherCloses(d)
        PROVE  FALSE
    <2>1. ~OtherReads(d)
      BY <1>1 DEF OtherReads
    <2>. QED  BY <1>2, <1>4, <1>5, <1>8, <2>1 DEF OtherSends, OtherCloses
  <1>. QED  BY <1>2, <1>3, <1>6, <1>7, <1>8 DEF Next, Ask, Stop, EndStop, Start, vars, connVars

(* A chunk of a file that still is what was hashed is sent unless its      *)
(* frame is too large: what read_chunk reads by the offset and the size it *)
(* computes is what iter_file_chunks hashed.                               *)
THEOREM IntactChunksAreSent == Spec => IntactChunkSent
  <1>1. ASSUME IInv, [Next]_vars, NEW c \in Conn,
               far[c] = "read", far'[c] # "read", server' = server, c = conn,
               Intact(serving[c].manifest), shares[serving[c].manifest] = serving[c].path,
               FrameSize(Len(HashAt(serving[c].manifest, serving[c].index))) <= MaxFrame
        PROVE  LET chunk == HashAt(serving[c].manifest, serving[c].index) IN
               toClient'[c] = Append(toClient[c], PieceData(chunk, chunk))
    <2>. DEFINE m == serving[c].manifest
                i == serving[c].index
                f == file[serving[c].path]
                data == ReadAt(f, i * m.chunkSize, ChunkSizeForIndex(m, i))
                answers(msg) ==
                    /\ Written(c)
                    /\ serving' = [serving EXCEPT ![c] = Nothing]
                    /\ Reply(c, msg)
                    /\ UNCHANGED <<near, toServer>>
    <2>1. ReadChunk(c)
      BY <1>1, OnlyReadChunk
    <2>2. /\ m \in DOMAIN shares /\ m \in Manifest /\ i \in Indexes(m) /\ c = conn
          /\ f # NoFile /\ f \in Seq(Byte) /\ m = ManifestOf(f, m.chunkSize)
      <3>1. m \in DOMAIN shares /\ shares[m] \in Path /\ m \in Manifest
        BY <1>1 DEF IInv, HandlersKnow, TypeOK, ShareTypeOK
      <3>2. i \in Indexes(m) /\ c = conn
        BY <1>1 DEF IInv, HandlersKnow
      <3>3. f # NoFile /\ m = ManifestOf(f, m.chunkSize)
        BY <1>1 DEF Intact
      <3>4. f \in Seq(Byte)
        BY <1>1, <3>1, <3>3, Bytes DEF IInv, TypeOK
      <3>. QED  BY <3>1, <3>2, <3>3, <3>4
    <2>3. m.chunkSize \in Nat \ {0} /\ m.size \in Nat \ {0}
      BY <2>2 DEF Manifest
    <2>. HIDE DEF m, i, f
    <2>4. Len(f) > 0
      <3>1. m.size = Len(f)
        BY <2>2 DEF ManifestOf
      <3>. QED  BY <2>2, <2>3, <3>1
    <2>5. data = HashAt(m, i)
      <3>. DEFINE c0 == m.chunkSize
      <3>1. c0 \in Nat \ {0} /\ i \in Indexes(ManifestOf(f, c0)) /\ m = ManifestOf(f, c0)
        BY <2>2, <2>3
      <3>. HIDE DEF c0
      <3>2. ReadAt(f, i * ManifestOf(f, c0).chunkSize, ChunkSizeForIndex(ManifestOf(f, c0), i))
               = HashAt(ManifestOf(f, c0), i)
        BY <2>2, <2>4, <3>1, ServedAsHashed
      <3>. QED  BY <3>1, <3>2
    <2>6. answers(PieceData(HashAt(m, i), data))
      <3>1. Verified(m, i, data)
        BY <2>5 DEF Verified
      <3>2. ~(FrameSize(Len(data)) > MaxFrame)
        <4>1. HashAt(m, i) \in Seq(Byte) /\ Len(HashAt(m, i)) \in Nat
          BY <2>2, ChunkOf
        <4>2. FrameSize(Len(HashAt(m, i))) \in Nat
          BY <4>1, ChunkingAssumption DEF FrameSize
        <4>. QED  BY <1>1, <2>5, <4>2, ChunkingAssumption DEF m, i
      <3>3. ~(FrameSize(Len(data)) > MaxFrame) /\ Verified(m, i, data) /\ f # NoFile
               => answers(PieceData(HashAt(m, i), data))
        BY <2>1, Zenon DEF ReadChunk, m, i, f
      <3>. QED  BY <2>2, <3>1, <3>2, <3>3
    <2>7. toClient' = [toClient EXCEPT ![c] = Append(@, PieceData(HashAt(m, i), HashAt(m, i)))]
      <3>1. near[c] = "open"
        BY <1>1, <2>2, NothingElse DEF IInv, ClientKnows
      <3>. QED  BY <1>1, <2>2, <2>5, <2>6, <3>1 DEF Reply
    <2>. QED  BY <1>1, <2>7 DEF m, i, IInv, TypeOK
  <1>2. ASSUME IInv, [Next]_vars
        PROVE  [\A c \in Conn :
                  far[c] = "read" /\ far'[c] # "read" /\ server' = server /\ c = conn =>
                     LET m == serving[c].manifest
                         chunk == HashAt(m, serving[c].index) IN
                     Intact(m) /\ shares[m] = serving[c].path
                               /\ FrameSize(Len(chunk)) <= MaxFrame =>
                        toClient'[c] = Append(toClient[c], PieceData(chunk, chunk))]_vars
    BY <1>1, <1>2
  <1>. QED  BY <1>2, Invariance, PTL DEF Spec, IntactChunkSent

-----------------------------------------------------------------------------
(* Sharing and asking implement ChunkService: the catalogue is the set of  *)
(* manifests shared, the request and its result are request_chunk's.       *)
LEMMA InitServes == Init => S!Init
  BY DEF Init, ShareInit, S!Init

LEMMA SameManifests == S!Manifest = Manifest /\ (\A m : S!Indexes(m) = Indexes(m))
                       /\ (\A m, i : S!HashAt(m, i) = HashAt(m, i))
  BY DEF S!Manifest, Manifest, S!Indexes, Indexes, S!TotalChunks, TotalChunks,
         S!HashAt, HashAt

LEMMA FailureServes ==
    ASSUME IInv, AttemptFails, pc # "idle", UNCHANGED shareVars
    PROVE  S!Fail \/ UNCHANGED S!vars
  <1>1. shares' = shares
    BY DEF shareVars
  <1>2. want # Nothing /\ got' = got /\ (want' = want \/ want' = Nothing)
    BY AttemptOver, WantedIsKnown, NothingElse
  <1>. QED  BY <1>1, <1>2 DEF S!Fail, S!vars

LEMMA PieceServes ==
    ASSUME IInv, ReceivePiece
    PROVE  [S!Next]_(S!vars)
  <1>1. pc # "idle" /\ UNCHANGED shareVars
    BY DEF ReceivePiece
  <1>2. CASE Message.data # Message.hash
    BY <1>1, <1>2, FailureServes DEF ReceivePiece, S!Next
  <1>3. CASE Message.data = Message.hash
    <2>1. want' = Nothing /\ got' = Message.data /\ shares' = shares
      BY <1>1, <1>3 DEF ReceivePiece, shareVars
    <2>2. /\ conn \in Conn /\ toClient[conn] \in Seq(ToClient) /\ toClient[conn] # <<>>
          /\ Message.type = "piece_data"
      BY WantedIsKnown DEF ReceivePiece, Received, IInv, TypeOK
    <2>3. Message = toClient[conn][1] /\ 1 \in 1 .. Len(toClient[conn])
      BY <2>2, HeadTail DEF Message
    <2>4. want.manifest \in DOMAIN shares /\ Message.data = HashAt(want.manifest, want.index)
      BY <2>2, <2>3 DEF IInv, OnlyHashedBytesSent
    <2>5. want # Nothing
      BY <1>1, WantedIsKnown, NothingElse
    <2>6. S!Deliver
      BY <2>1, <2>4, <2>5, SameManifests DEF S!Deliver
    <2>. QED  BY <2>6 DEF S!Next
  <1>. QED  BY <1>2, <1>3

LEMMA StepServes ==
    ASSUME IInv, [Next]_vars
    PROVE  [S!Next]_(S!vars)
  <1>1. ASSUME want' = want, got' = got, shares' = shares
        PROVE  [S!Next]_(S!vars)
    BY <1>1 DEF S!vars
  <1>2. CASE UNCHANGED vars
    BY <1>1, <1>2 DEF vars, shareVars, clientVars
  <1>3. ASSUME ShareNext, UNCHANGED clientVars  PROVE [S!Next]_(S!vars)
    <2>1. want' = want /\ got' = got
      BY <1>3 DEF clientVars
    <2>2. CASE EndRegister
      <3>1. \/ shares' = shares
            \/ Hashed \in Manifest /\ DOMAIN shares' = DOMAIN shares \cup {Hashed}
        BY <2>2, RegisterEnds DEF IInv, TypeOK
      <3>2. ASSUME Hashed \in Manifest, DOMAIN shares' = DOMAIN shares \cup {Hashed}
            PROVE  S!Publish
        <4>1. Hashed \in DOMAIN shares' /\ Hashed \in S!Manifest
              /\ DOMAIN shares' = DOMAIN shares \cup {Hashed}
          BY <3>2, SameManifests
        <4>. QED  BY <2>1, <4>1 DEF S!Publish
      <3>. QED  BY <1>1, <2>1, <3>1, <3>2 DEF S!Next
    <2>3. CASE ~EndRegister
      BY <1>1, <1>3, <2>1, <2>3 DEF ShareNext, BeginRegister, HashChunk, Edit
    <2>. QED  BY <2>2, <2>3
  <1>4. ASSUME NEW m \in DOMAIN shares \cup Foreign, NEW i \in Indexes(m), Ask(m, i)
        PROVE  [S!Next]_(S!vars)
    <2>1. m \in Manifest /\ i \in Nat
      BY <1>4, AskKeeps
    <2>2. want = Nothing /\ want' = [manifest |-> m, index |-> i] /\ got' = Nothing
          /\ shares' = shares
      BY <1>4 DEF Ask, IInv, ClientKnows, shareVars
    <2>3. want' \in [manifest : Manifest, index : Nat]
          /\ want'.manifest = m /\ want'.index = i
      BY <2>1, <2>2
    <2>4. S!Ask
      BY <1>4, <2>2, <2>3, SameManifests DEF S!Ask
    <2>. QED  BY <2>4 DEF S!Next
  <1>5. ASSUME ClientStep  PROVE [S!Next]_(S!vars)
    <2>1. CASE (\E c \in Conn : Connect(c)) \/ ReceiveHelloAck \/ SkipMessage
      BY <1>1, <2>1 DEF Connect, ReceiveHelloAck, SkipMessage, shareVars, clientVars
    <2>2. CASE ConnectFails
      BY <2>2, FailureServes DEF ConnectFails, S!Next
    <2>3. CASE ReadTimesOut \/ ReadsEnd \/ ReceiveRefusal
      <3>1. pc # "idle" /\ AttemptFails /\ UNCHANGED shareVars
        BY <2>3 DEF ReadTimesOut, ReadsEnd, ReceiveRefusal, Received, Awaiting,
                    FailsAndCloses
      <3>. QED  BY <3>1, FailureServes DEF S!Next
    <2>. QED  BY <1>5, <2>1, <2>2, <2>3, PieceServes DEF ClientStep
  <1>6. ASSUME NEW c \in Conn, HandlerStep(c)  PROVE UNCHANGED <<shareVars, clientVars>>
    BY <1>6 DEF HandlerStep, HandleHello, LookUp, ReadChunk, HandleOther, ServerTimesOut,
                ServerReadsEnd, Drained, Closed, Takes, TakesLast
  <1>7. ASSUME NEW c \in Conn,
               OtherConnects(c) \/ OtherSends(c) \/ OtherReads(c) \/ OtherCloses(c)
        PROVE  UNCHANGED <<shareVars, clientVars>>
    BY <1>7 DEF OtherConnects, OtherSends, OtherReads, OtherCloses
  <1>8. ASSUME Stop \/ EndStop \/ Start \/ Crash
        PROVE  shares' = shares /\ UNCHANGED clientVars
    BY <1>8 DEF Stop, EndStop, Start, Crash, shareVars
  <1>9. UNCHANGED shareVars => shares' = shares
    BY DEF shareVars
  <1>10. UNCHANGED clientVars => want' = want /\ got' = got
    BY DEF clientVars
  <1>. QED  BY <1>1, <1>2, <1>3, <1>4, <1>5, <1>6, <1>7, <1>8, <1>9, <1>10 DEF Next

(* Through retries, timeouts, changes of the files and crashes of the      *)
(* server, what was shared stays in the catalogue, and a request ends with *)
(* the chunk that was asked for or fails.                                  *)
THEOREM ExchangeImplementsService == Spec => ImplementsService
  BY InitServes, StepServes, Invariance, PTL DEF Spec, S!Spec, ImplementsService
=============================================================================
