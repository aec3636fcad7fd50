---------------------------- MODULE PeerExchange ----------------------------
(***************************************************************************)
(* One chunk from peer to peer: PeerClient.request_chunk with its retries, *)
(* the PeerServer of the peer that shares, and the TCP connections between *)
(* them, over the catalogue of ShareStore.                                 *)
(*                                                                         *)
(* A connection is two ends and a FIFO queue each way.  An attempt of      *)
(* request_chunk has a connection of its own; a handler of the server may  *)
(* still be at work on the connection of an earlier attempt.  Connections  *)
(* that are not request_chunk's belong to other programs that speak the    *)
(* protocol.  Timeouts have no clock: one may strike whenever its side     *)
(* reads.  Writing has none: the server waits until its data are taken.    *)
(* request_chunk takes what it is sent until it hangs up, other programs   *)
(* may leave pieces unread.                                                *)
(***************************************************************************)
EXTENDS ShareStore

CONSTANTS
    Foreign,        \* manifests this peer announces but does not share
    Conn,           \* bound: connections to the server at a time
    RetryAttempts,  \* retry_attempts
    OtherIndex,     \* bound: the chunks that other programs ask for
    Nothing         \* no request, no result, no connection

ASSUME ExchangeAssumption ==
    /\ Foreign \subseteq Manifest
    /\ RetryAttempts \in Nat
    /\ OtherIndex \subseteq Nat
    /\ Nothing \notin Conn
    /\ Nothing \notin Seq(Byte)
    /\ Nothing \notin [manifest : Manifest, index : Nat]

VARIABLES
    (* PeerClient *)
    pc,        \* where request_chunk stands
    want,      \* its arguments
    attempt,   \* the attempt it is at
    conn,      \* the connection of this attempt
    got,       \* how the last request ended
    (* connections *)
    near,      \* the end of the client
    far,       \* the end of the server, and where its handler stands
    toServer, toClient,
    unsent,    \* connections with pieces that the other program has not read,
               \* more of them than the buffers of the network hold
    (* PeerServer *)
    serving,   \* the piece_request a handler is at
    server     \* "up", "stopping" or "down"

clientVars == <<pc, want, attempt, conn, got>>
connVars == <<near, far, toServer, toClient, unsent, serving>>
vars == <<shareVars, clientVars, connVars, server>>

Want == [manifest : Manifest, index : Nat]
Serving == [manifest : Manifest, index : Nat, path : Path]

(* What the client sends: a hello with its protocol version, a request,    *)
(* and other programs any message of the protocol.                         *)
Hello(same) == [type |-> "hello", same |-> same]
PieceRequest(m, i) == [type |-> "piece_request", want |-> [manifest |-> m, index |-> i]]
Plain(type) == [type |-> type]

ToServer ==
    [type : {"hello"}, same : BOOLEAN] \cup [type : {"piece_request"}, want : Want]
        \cup [type : {"keepalive"}]

(* What the server sends.  An error it sends after a timeout carries no    *)
(* request_id, everything else that of the message it answers.             *)
Error(code) == [type |-> "error", code |-> code]
PieceData(hash, data) == [type |-> "piece_data", hash |-> hash, data |-> data]

ErrorCode == {"invalid_handshake", "protocol_version_mismatch", "read_timeout",
              "unsupported_message_type", "info_hash_not_shared", "piece_not_available",
              "shared_file_missing", "shared_chunk_corrupt"}

ToClient ==
    [type : {"hello_ack", "keepalive"}] \cup [type : {"error"}, code : ErrorCode]
        \cup [type : {"piece_data"}, hash : Seq(Byte), data : Seq(Byte)]

TypeOK ==
    /\ ShareTypeOK
    /\ pc \in {"idle", "connect", "hello", "answer"}
    /\ want \in Want \cup {Nothing}
    /\ attempt \in 0 .. RetryAttempts
    /\ conn \in Conn \cup {Nothing}
    /\ got \in Seq(Byte) \cup {Nothing}
    /\ near \in [Conn -> {"none", "open", "closed"}]
    /\ far \in [Conn -> {"none", "hello", "await", "read", "drain", "closing", "closed"}]
    /\ toServer \in [Conn -> Seq(ToServer)]
    /\ toClient \in [Conn -> Seq(ToClient)]
    /\ unsent \subseteq Conn
    /\ serving \in [Conn -> Serving \cup {Nothing}]
    /\ server \in {"up", "stopping", "down"}

Init ==
    /\ ShareInit
    /\ pc = "idle" /\ want = Nothing /\ attempt = 0 /\ conn = Nothing /\ got = Nothing
    /\ near = [c \in Conn |-> "none"]
    /\ far = [c \in Conn |-> "none"]
    /\ toServer = [c \in Conn |-> <<>>]
    /\ toClient = [c \in Conn |-> <<>>]
    /\ unsent = {}
    /\ serving = [c \in Conn |-> Nothing]
    /\ server = "up"

-----------------------------------------------------------------------------
(* Connections.  Once both ends are closed a connection is forgotten.  What *)
(* the server wrote before it closed can still be read, what the client    *)
(* wrote is lost with the server's end.                                    *)
NearCloses(c) ==
    /\ near' = [near EXCEPT ![c] = IF far[c] = "closed" THEN "none" ELSE "closed"]
    /\ far' = [far EXCEPT ![c] = IF @ = "closed" THEN "none" ELSE @]
    /\ toClient' = [toClient EXCEPT ![c] = <<>>]
    /\ unsent' = unsent \ {c}
    /\ UNCHANGED <<toServer, serving>>

FarClosed(c) == IF near[c] = "closed" THEN "none" ELSE "closed"

FarCloses(c) ==
    /\ far' = [far EXCEPT ![c] = FarClosed(c)]
    /\ near' = [near EXCEPT ![c] = IF @ = "closed" THEN "none" ELSE @]

(* The server reads no more from the connection. *)
Deaf(c) == far[c] \in {"closing", "closed"}

(* An answer reaches the client while its end is open.  What other         *)
(* programs do with theirs does not matter here.                           *)
Reply(c, msg) ==
    toClient' = IF near[c] = "open" /\ c = conn
                THEN [toClient EXCEPT ![c] = Append(@, msg)] ELSE toClient

-----------------------------------------------------------------------------
(* PeerClient *)

(* The download loop asks for a chunk of a file it knows from the tracker. *)
Ask(m, i) ==
    /\ pc = "idle"
    /\ pc' = "connect"
    /\ want' = [manifest |-> m, index |-> i]
    /\ attempt' = 0
    /\ got' = Nothing
    /\ UNCHANGED <<shareVars, conn, connVars, server>>

(* A new connection; the hello goes out at once. *)
Connect(c) ==
    /\ pc = "connect"
    /\ server = "up" /\ near[c] = "none" /\ far[c] = "none"
    /\ pc' = "hello"
    /\ conn' = c
    /\ near' = [near EXCEPT ![c] = "open"]
    /\ far' = [far EXCEPT ![c] = "hello"]
    /\ \E same \in BOOLEAN : toServer' = [toServer EXCEPT ![c] = <<Hello(same)>>]
    /\ UNCHANGED <<shareVars, want, attempt, got, toClient, unsent, serving, server>>

(* Faulty variant: the attempts are not counted. *)
RetriesForever ==
    /\ pc' = "connect"
    /\ conn' = Nothing
    /\ UNCHANGED <<want, attempt, got>>

(* Faulty variant: one attempt too many. *)
OneRetryMore ==
    /\ IF attempt <= RetryAttempts
       THEN pc' = "connect" /\ attempt' = attempt + 1 /\ UNCHANGED want
       ELSE pc' = "idle" /\ attempt' = 0 /\ want' = Nothing
    /\ conn' = Nothing
    /\ UNCHANGED got

(* The attempt raised: after a pause comes the next one, or request_chunk  *)
(* raises itself.                                                          *)
AttemptFails ==
    /\ IF attempt < RetryAttempts
       THEN pc' = "connect" /\ attempt' = attempt + 1 /\ UNCHANGED want
       ELSE pc' = "idle" /\ attempt' = 0 /\ want' = Nothing
    /\ conn' = Nothing
    /\ UNCHANGED got

(* OSError or timeout of open_connection. *)
ConnectFails ==
    /\ pc = "connect"
    /\ AttemptFails
    /\ UNCHANGED <<shareVars, connVars, server>>

Awaiting == pc \in {"hello", "answer"}
Received == Awaiting /\ toClient[conn] # <<>>
Message == Head(toClient[conn])

(* The client closes its end, as the finally clause does. *)
FailsAndCloses ==
    /\ AttemptFails
    /\ NearCloses(conn)
    /\ UNCHANGED <<shareVars, server>>

(* read_message: the timeout, or a connection that was reset. *)
ReadTimesOut == Awaiting /\ FailsAndCloses

(* read_message: the end of the stream. *)
ReadsEnd == Awaiting /\ toClient[conn] = <<>> /\ far[conn] = "closed" /\ FailsAndCloses

(* Faulty variant: pieces are counted from one. *)
RequestedFromOne == PieceRequest(want.manifest, want.index + 1)

Requested == PieceRequest(want.manifest, want.index)

ReceiveHelloAck ==
    /\ pc = "hello" /\ Received /\ Message.type = "hello_ack"
    /\ pc' = "answer"
    /\ toClient' = [toClient EXCEPT ![conn] = Tail(@)]
    /\ toServer' = IF Deaf(conn) THEN toServer
                   ELSE [toServer EXCEPT ![conn] = Append(@, Requested)]
    /\ UNCHANGED <<shareVars, want, attempt, conn, got, near, far, unsent, serving, server>>

(* handshake_failed, an error as answer, or data other than their digest.  *)
ReceiveRefusal ==
    /\ Received
    /\ \/ pc = "hello" /\ Message.type # "hello_ack"
       \/ pc = "answer" /\ Message.type = "error" /\ Message.code # "read_timeout"
    /\ FailsAndCloses

(* Not the request_id of this attempt, or a keepalive: read on. *)
SkipMessage ==
    /\ pc = "answer" /\ Received
    /\ Message = Error("read_timeout")
    /\ toClient' = [toClient EXCEPT ![conn] = Tail(@)]
    /\ UNCHANGED <<shareVars, clientVars, near, far, toServer, unsent, serving, server>>

(* The response is not compared with the request: neither its info_hash    *)
(* nor its piece_index is.                                                 *)
ReceivePiece ==
    /\ pc = "answer" /\ Received /\ Message.type = "piece_data"
    /\ IF Message.data = Message.hash
       THEN /\ got' = Message.data
            /\ pc' = "idle" /\ attempt' = 0 /\ want' = Nothing /\ conn' = Nothing
       ELSE AttemptFails
    /\ NearCloses(conn)
    /\ UNCHANGED <<shareVars, server>>

ClientStep ==
    \/ \E c \in Conn : Connect(c)
    \/ ConnectFails
    \/ ReadTimesOut
    \/ ReadsEnd
    \/ ReceiveHelloAck
    \/ ReceiveRefusal
    \/ SkipMessage
    \/ ReceivePiece

-----------------------------------------------------------------------------
(* Other programs: messages of the protocol in any order. *)
OtherConnects(c) ==
    /\ server = "up" /\ near[c] = "none" /\ far[c] = "none"
    /\ near' = [near EXCEPT ![c] = "open"]
    /\ far' = [far EXCEPT ![c] = "hello"]
    /\ UNCHANGED <<shareVars, clientVars, toServer, toClient, unsent, serving, server>>

OtherSends(c) ==
    /\ near[c] = "open" /\ c # conn
    /\ ~Deaf(c) /\ toServer[c] = <<>>
    /\ \/ \E msg \in {Hello(TRUE), Plain("keepalive")} :
             toServer' = [toServer EXCEPT ![c] = <<msg>>]
       \/ \E m \in DOMAIN shares, i \in OtherIndex :
             toServer' = [toServer EXCEPT ![c] = <<PieceRequest(m, i)>>]
    /\ UNCHANGED <<shareVars, clientVars, near, far, toClient, unsent, serving, server>>

OtherCloses(c) ==
    /\ near[c] = "open" /\ c # conn
    /\ NearCloses(c)
    /\ UNCHANGED <<shareVars, clientVars, server>>

(* The program reads all pieces that are unsent, or some.                  *)
OtherReads(c) ==
    /\ c \in unsent
    /\ \/ unsent' = unsent \ {c} /\ UNCHANGED far
       \/ far[c] = "drain" /\ far' = [far EXCEPT ![c] = "await"] /\ UNCHANGED unsent
    /\ UNCHANGED <<shareVars, clientVars, near, toServer, toClient, serving, server>>

-----------------------------------------------------------------------------
(* PeerServer._handle_client, from one message to the next *)
Waiting(c) == far[c] \in {"hello", "await"}
Arrived(c) == toServer[c] # <<>>
Request(c) == Head(toServer[c])

(* An answer was written: drain() returns at once, or waits when too much  *)
(* is unsent.                                                              *)
Written(c) ==
    \E next \in {"await", "drain"} :
        /\ next = "drain" => c \in unsent'
        /\ far' = [far EXCEPT ![c] = next]

Takes(c, answer) ==
    /\ UNCHANGED <<shareVars, clientVars, near, unsent, serving, server>>
    /\ toServer' = [toServer EXCEPT ![c] = Tail(@)]
    /\ Reply(c, answer)
    /\ Written(c)

(* The finally clause: close(), and wait_closed() until nothing is unsent. *)
Finally(c) ==
    /\ toServer' = [toServer EXCEPT ![c] = <<>>]
    /\ serving' = [serving EXCEPT ![c] = Nothing]
    /\ UNCHANGED unsent
    /\ \/ c \notin unsent /\ FarCloses(c)
       \/ c \in unsent /\ far' = [far EXCEPT ![c] = "closing"] /\ UNCHANGED near

(* A last answer, whose drain() is one wait with that of the finally       *)
(* clause.                                                                 *)
TakesLast(c, answer) ==
    /\ Finally(c)
    /\ Reply(c, answer)
    /\ UNCHANGED <<shareVars, clientVars, server>>

(* drain() returns; or it raises, when the program hung up. *)
Drained(c) ==
    /\ far[c] = "drain" /\ c \notin unsent
    /\ \/ /\ far' = [far EXCEPT ![c] = "await"]
          /\ UNCHANGED <<near, toServer, unsent, serving>>
       \/ near[c] = "closed" /\ Finally(c)
    /\ UNCHANGED <<shareVars, clientVars, toClient, server>>

(* wait_closed() returns. *)
Closed(c) ==
    /\ far[c] = "closing" /\ c \notin unsent
    /\ Finally(c)
    /\ UNCHANGED <<shareVars, clientVars, toClient, server>>

HandleHello(c) ==
    /\ far[c] = "hello" /\ Arrived(c)
    /\ \/ Request(c) = Hello(TRUE) /\ Takes(c, Plain("hello_ack"))
       \/ Request(c) = Hello(FALSE) /\ TakesLast(c, Error("protocol_version_mismatch"))
       \/ Request(c).type # "hello" /\ TakesLast(c, Error("invalid_handshake"))

(* _handle_piece_request and read_chunk up to the opening of the file. *)
LookUp(c) ==
    LET w == Request(c).want
        m == w.manifest IN
    /\ far[c] = "await" /\ Arrived(c) /\ Request(c).type = "piece_request"
    /\ \/ m \notin DOMAIN shares /\ Takes(c, Error("info_hash_not_shared"))
       \/ /\ m \in DOMAIN shares /\ w.index \notin Indexes(m)
          /\ Takes(c, Error("piece_not_available"))
       \/ /\ m \in DOMAIN shares /\ w.index \in Indexes(m) /\ file[shares[m]] = NoFile
          /\ Takes(c, Error("shared_file_missing"))
       \/ /\ m \in DOMAIN shares /\ w.index \in Indexes(m) /\ file[shares[m]] # NoFile
          /\ far' = [far EXCEPT ![c] = "read"]
          /\ toServer' = [toServer EXCEPT ![c] = Tail(@)]
          /\ serving' = [serving EXCEPT ![c] =
                           [manifest |-> m, index |-> w.index, path |-> shares[m]]]
          /\ UNCHANGED <<shareVars, clientVars, near, toClient, unsent, server>>

(* Faulty variant: what was read is not hashed. *)
Unverified(m, i, data) == TRUE

Verified(m, i, data) == data = HashAt(m, i)

(* A piece may be more than the buffers hold, and another program than     *)
(* request_chunk need not read it.                                         *)
LeavesUnsent(c) ==
    \/ UNCHANGED unsent
    \/ near[c] = "open" /\ c # conn /\ unsent' = unsent \cup {c}

(* read_chunk from the opening of the file, and the answer.  A file that   *)
(* is gone by now, or a frame that is too large, ends the handler.         *)
ReadChunk(c) ==
    LET m == serving[c].manifest
        i == serving[c].index
        f == file[serving[c].path]
        data == ReadAt(f, i * m.chunkSize, ChunkSizeForIndex(m, i))
        answers(msg) ==
            /\ Written(c)
            /\ serving' = [serving EXCEPT ![c] = Nothing]
            /\ Reply(c, msg)
            /\ UNCHANGED <<near, toServer>> IN
    /\ far[c] = "read"
    /\ \/ f = NoFile /\ Finally(c) /\ UNCHANGED toClient
       \/ /\ f # NoFile /\ ~Verified(m, i, data)
          /\ UNCHANGED unsent /\ answers(Error("shared_chunk_corrupt"))
       \/ /\ f # NoFile /\ Verified(m, i, data)
          /\ IF FrameSize(Len(data)) > MaxFrame
             THEN Finally(c) /\ UNCHANGED toClient
             ELSE LeavesUnsent(c) /\ answers(PieceData(HashAt(m, i), data))
    /\ UNCHANGED <<shareVars, clientVars, server>>

HandleOther(c) ==
    /\ far[c] = "await" /\ Arrived(c)
    /\ \/ Request(c).type = "keepalive" /\ Takes(c, Plain("keepalive"))
       \/ /\ Request(c).type = "hello"
          /\ TakesLast(c, Error("unsupported_message_type"))

(* Faulty variant: read_message waits without a timeout. *)
WaitsForever(c) == FALSE

(* The timeout of read_message: before the hello the handler just ends.    *)
ServerTimesOut(c) ==
    \/ /\ far[c] = "hello"
       /\ Finally(c)
       /\ UNCHANGED <<shareVars, clientVars, toClient, server>>
    \/ far[c] = "await" /\ TakesLast(c, Error("read_timeout"))

(* The client hung up. *)
ServerReadsEnd(c) ==
    /\ Waiting(c) /\ ~Arrived(c) /\ near[c] = "closed"
    /\ Finally(c)
    /\ UNCHANGED <<shareVars, clientVars, toClient, server>>

HandlerStep(c) ==
    \/ HandleHello(c)
    \/ LookUp(c)
    \/ ReadChunk(c)
    \/ HandleOther(c)
    \/ ServerTimesOut(c)
    \/ ServerReadsEnd(c)
    \/ Drained(c)
    \/ Closed(c)

-----------------------------------------------------------------------------
(* PeerServer.stop: nobody is accepted any more, and wait_closed returns   *)
(* when all connections have gone.                                         *)
Stop ==
    /\ server = "up"
    /\ server' = "stopping"
    /\ UNCHANGED <<shareVars, clientVars, connVars>>

EndStop ==
    /\ server = "stopping"
    /\ \A c \in Conn : far[c] \in {"none", "closed"}
    /\ server' = "down"
    /\ UNCHANGED <<shareVars, clientVars, connVars>>

Start ==
    /\ server = "down"
    /\ server' = "up"
    /\ UNCHANGED <<shareVars, clientVars, connVars>>

(* The sharing process dies; its catalogue is on disk. *)
Crash ==
    /\ server # "down" /\ server' = "down"
    /\ far' = [c \in Conn |-> IF near[c] = "open" THEN "closed" ELSE "none"]
    /\ near' = [c \in Conn |-> IF near[c] = "open" THEN "open" ELSE "none"]
    /\ toServer' = [c \in Conn |-> <<>>]
    /\ unsent' = {}
    /\ serving' = [c \in Conn |-> Nothing]
    /\ reg' = NoReg
    /\ UNCHANGED <<file, shares, began, edits, clientVars, toClient>>

Next ==
    \/ ShareNext /\ UNCHANGED <<clientVars, connVars, server>>
    \/ \E m \in DOMAIN shares \cup Foreign : \E i \in Indexes(m) : Ask(m, i)
    \/ ClientStep
    \/ \E c \in Conn : OtherConnects(c) \/ OtherSends(c) \/ OtherReads(c) \/ OtherCloses(c)
    \/ \E c \in Conn : HandlerStep(c)
    \/ Stop
    \/ EndStop
    \/ Start
    \/ Crash

Spec == Init /\ [][Next]_vars

(* Each process goes on with some coroutine that can: one that reads has a *)
(* timeout, one that writes can go on once the other end reads or hangs    *)
(* up.  request_chunk does either, other programs need not do any.  Nobody *)
(* need ask, share, stop or start.                                         *)
ServerStep == EndStop \/ \E c \in Conn : HandlerStep(c)

Fairness == WF_vars(ClientStep) /\ WF_vars(ServerStep)

FairSpec == Spec /\ Fairness

-----------------------------------------------------------------------------
(* Whatever happens to a shared file after it was hashed, its peer server  *)
(* sends no byte that was not: data on their way are the chunk that was    *)
(* hashed, and the client of the connection still wants it.                *)
OnlyHashedBytesSent ==
    \A c \in Conn : \A k \in 1 .. Len(toClient[c]) :
        toClient[c][k].type = "piece_data" =>
            /\ conn = c /\ want.manifest \in DOMAIN shares
            /\ toClient[c][k].data = HashAt(want.manifest, want.index)

(* A file that nobody changes while it is hashed is accepted, and its      *)
(* manifest is the one it is meant to be: the loop of reads, the check of  *)
(* the shape and the size taken before agree, whatever the file's length.  *)
UndisturbedRegisters ==
    [][Hashing /\ reg' = NoReg /\ server' = server /\ ~reg.disturbed =>
          LET m == ManifestOf(file[reg.path], reg.chunkSize) IN
          m \in DOMAIN shares' /\ shares'[m] = reg.path]_vars

(* A chunk of a file that still is what was hashed is sent, unless its    *)
(* frame is too large: the offsets and sizes by which chunks are read back *)
(* are those by which they were hashed.                                    *)
IntactChunkSent ==
    [][\A c \in Conn :
          far[c] = "read" /\ far'[c] # "read" /\ server' = server /\ c = conn =>
             LET m == serving[c].manifest
                 chunk == HashAt(m, serving[c].index) IN
             Intact(m) /\ shares[m] = serving[c].path /\ FrameSize(Len(chunk)) <= MaxFrame =>
                toClient'[c] = Append(toClient[c], PieceData(chunk, chunk))]_vars

(* request_chunk ends, whatever the network and the server do. *)
RequestEnds == pc # "idle" ~> pc = "idle"

Silent == <>[][\A c \in Conn : ~OtherSends(c)]_vars

(* PeerServer.stop ends although programs that connected need not hang up: *)
(* once they are silent the read timeout ends every handler, provided that *)
(* they read the pieces they asked for or hang up.  One that goes on       *)
(* sending keepalives, or that does not read, keeps stop waiting.          *)
StopEnds ==
    Silent /\ (\A c \in Conn : []<>(c \notin unsent))
        => (server = "stopping" ~> server # "stopping")

-----------------------------------------------------------------------------
(* Sharing and asking keep the promise of ChunkService. *)
S == INSTANCE ChunkService WITH catalogue <- DOMAIN shares

ImplementsService == S!Spec

-----------------------------------------------------------------------------
(* Why the safety properties hold.                                         *)

(* A connection of request_chunk is open until the attempt is over.        *)
ClientKnows ==
    /\ conn # Nothing <=> Awaiting
    /\ want = Nothing <=> pc = "idle"
    /\ conn # Nothing => near[conn] = "open"

(* Nothing lies in a queue that nobody will read.                          *)
QueuesKnown ==
    \A c \in Conn :
        /\ near[c] = "open" => far[c] # "none"
        /\ far[c] \in {"none", "closing", "closed"} => toServer[c] = <<>>
        /\ c # conn => toClient[c] = <<>>

(* What is asked on the connection of request_chunk is what it wants.      *)
RequestsKnown ==
    \A c \in Conn : \A k \in 1 .. Len(toServer[c]) :
        c = conn /\ toServer[c][k].type = "piece_request" => toServer[c][k].want = want

(* A handler reads a chunk of the catalogue, and for request_chunk the one *)
(* it wants: a handler of an earlier attempt is on another connection.     *)
HandlersKnow ==
    \A c \in Conn : far[c] = "read" =>
        /\ serving[c] \in Serving
        /\ serving[c].manifest \in DOMAIN shares
        /\ serving[c].index \in Indexes(serving[c].manifest)
        /\ c = conn =>
              serving[c].manifest = want.manifest /\ serving[c].index = want.index

IInv ==
    /\ TypeOK
    /\ RegKnows
    /\ ClientKnows
    /\ QueuesKnown
    /\ RequestsKnown
    /\ HandlersKnow
    /\ OnlyHashedBytesSent
=============================================================================
