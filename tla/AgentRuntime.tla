---------------------------- MODULE AgentRuntime ----------------------------
(***************************************************************************)
(* The local agent of client/agent/service.py: one AgentRuntime that       *)
(* starts and stops the peer node and runs downloads as background tasks.  *)
(*                                                                         *)
(* Handlers and tasks are coroutines of one event loop that share an       *)
(* asyncio.Lock.  A handler keeps the lock over the awaits of start_node   *)
(* and stop_node; the tasks take it for a moment at each change of their   *)
(* job, so that such a change is one step taken while the lock is free.    *)
(* The node listens on one configured port.  What a download does to the   *)
(* disk is in module DownloadStore, so a download is here a task that      *)
(* looks the swarm up, announces at its end, and may raise at any time.    *)
(***************************************************************************)
EXTENDS Naturals, FiniteSets

CONSTANTS
    Handler,     \* HTTP requests being handled at a time
    Job,         \* the downloads that are asked for
    MaxSession,  \* bound: calls of start_node that create a PeerNode
    None         \* no holder, no node, no session

ASSUME AgentAssumption == MaxSession \in Nat /\ None \notin Handler /\ None \notin Nat

Session == 1 .. MaxSession

VARIABLES
    lock,       \* the handler that holds self._lock
    node,       \* self._node
    running,    \* self._node_info.running
    created,    \* PeerNode objects created so far
    listening,  \* sessions whose peer server accepts connections
    open,       \* sessions whose tracker client is open
    call,       \* where each handler stands
    status,     \* job.status, "none" before the job is created
    task,       \* where the background task of each job stands
    session,    \* the node that the task of each job uses
    entries,    \* the keys of self._job_tasks
    shutdown,   \* where shutdown() stands
    cancelled   \* its snapshot of self._job_tasks

nodeVars == <<node, running, created, listening, open>>
jobVars == <<status, task, session, entries>>
shutdownVars == <<shutdown, cancelled>>
vars == <<lock, nodeVars, call, jobVars, shutdownVars>>

CallPc == {"idle", "start", "stop", "stop_server", "close_tracker", "stop_old_server",
           "close_old_tracker", "listen", "register"}
TaskPc == {"none", "asked", "begin", "require", "swarm", "transfer", "succeeded",
           "raised", "pop", "done", "error"}
ShutdownPc == {"no", "wait", "returned", "aborted"}

TypeOK ==
    /\ lock \in Handler \cup {None}
    /\ node \in Session \cup {None}
    /\ running \in BOOLEAN
    /\ created \in 0 .. MaxSession
    /\ listening \subseteq Session /\ open \subseteq Session
    /\ call \in [Handler -> CallPc]
    /\ status \in [Job -> {"none", "queued", "running", "completed", "failed"}]
    /\ task \in [Job -> TaskPc]
    /\ session \in [Job -> Session \cup {None}]
    /\ entries \subseteq Job /\ cancelled \subseteq Job
    /\ shutdown \in ShutdownPc

Init ==
    /\ lock = None /\ node = None /\ running = FALSE /\ created = 0
    /\ listening = {} /\ open = {}
    /\ call = [h \in Handler |-> "idle"]
    /\ status = [j \in Job |-> "none"]
    /\ task = [j \in Job |-> "none"]
    /\ session = [j \in Job |-> None]
    /\ entries = {} /\ cancelled = {}
    /\ shutdown = "no"

-----------------------------------------------------------------------------
(* Calls of start_node on their way to a new PeerNode. *)
Starting == {h \in Handler : call[h] \in {"start", "stop_old_server", "close_old_tracker", "listen"}}

(* Requests arrive until the application shuts down. *)
Arrive(h) ==
    /\ call[h] = "idle" /\ shutdown = "no"
    /\ \/ call' = [call EXCEPT ![h] = "stop"]
       \/ /\ created + Cardinality(Starting) < MaxSession
          /\ call' = [call EXCEPT ![h] = "start"]
    /\ UNCHANGED <<lock, nodeVars, jobVars, shutdownVars>>

Steps(h, from, to) == call[h] = from /\ call' = [call EXCEPT ![h] = to]

(* The handler leaves `async with self._lock`, by return or by exception. *)
Leaves(h, from) == Steps(h, from, "idle") /\ lock' = None

(* start_node and stop_node take the lock; a current node is stopped first. *)
StartNode(h) ==
    /\ lock = None /\ lock' = h
    /\ Steps(h, "start", IF node = None THEN "listen" ELSE "stop_old_server")
    /\ UNCHANGED <<nodeVars, jobVars, shutdownVars>>

StopNode(h) ==
    /\ lock = None /\ lock' = h
    /\ Steps(h, "stop", IF node = None THEN "close_tracker" ELSE "stop_server")
    /\ UNCHANGED <<nodeVars, jobVars, shutdownVars>>

(* PeerNode.stop: the peer server is closed, after its last await the      *)
(* tracker client, and the node is forgotten.                              *)
StopServer(h) ==
    /\ \/ Steps(h, "stop_server", "close_tracker")
       \/ Steps(h, "stop_old_server", "close_old_tracker")
    /\ listening' = listening \ {node}
    /\ UNCHANGED <<lock, node, running, created, open, jobVars, shutdownVars>>

CloseTracker(h) ==
    /\ \/ Leaves(h, "close_tracker")
       \/ Steps(h, "close_old_tracker", "listen") /\ UNCHANGED lock
    /\ open' = open \ {node}
    /\ node' = None
    /\ running' = FALSE
    /\ UNCHANGED <<created, listening, jobVars, shutdownVars>>

(* Faulty variant: the node is remembered before it has started. *)
ListenRemembers(h) ==
    /\ created' = created + 1
    /\ open' = open \cup {created'}
    /\ node' = created'
    /\ IF listening = {}
       THEN /\ Steps(h, "listen", "register")
            /\ listening' = {created'}
            /\ UNCHANGED lock
       ELSE Leaves(h, "listen") /\ UNCHANGED listening
    /\ UNCHANGED <<running, jobVars, shutdownVars>>

(* PeerNode.start: PeerServer.start binds the port, or finds it taken. *)
Listen(h) ==
    /\ created' = created + 1
    /\ open' = open \cup {created'}
    /\ IF listening = {}
       THEN /\ Steps(h, "listen", "register")
            /\ listening' = {created'}
            /\ UNCHANGED lock
       ELSE Leaves(h, "listen") /\ UNCHANGED listening
    /\ UNCHANGED <<node, running, jobVars, shutdownVars>>

(* PeerNode.start: the tracker answers the registration. *)
Register(h) ==
    /\ Leaves(h, "register")
    /\ node' = created
    /\ running' = TRUE
    /\ UNCHANGED <<created, listening, open, jobVars, shutdownVars>>

(* Faulty variant: the lock is not given back when an exception passes. *)
RegisterFailsLocked(h) ==
    /\ Steps(h, "register", "idle")
    /\ UNCHANGED <<lock, nodeVars, jobVars, shutdownVars>>

(* The tracker does not: the exception leaves the server listening. *)
RegisterFails(h) ==
    /\ Leaves(h, "register")
    /\ UNCHANGED <<nodeVars, jobVars, shutdownVars>>

-----------------------------------------------------------------------------
(* What start_download and the tasks do to their job.  A cancelled task    *)
(* only ends.                                                              *)
TaskSteps(j, from, to) ==
    /\ task[j] = from /\ j \notin cancelled
    /\ task' = [task EXCEPT ![j] = to]

LockFree == lock = None

(* start_download: _require_node finds a node. *)
AskDownload(j) ==
    /\ shutdown = "no" /\ LockFree /\ node # None
    /\ TaskSteps(j, "none", "asked")
    /\ UNCHANGED <<lock, nodeVars, call, status, session, entries, shutdownVars>>

(* start_download: the job and its task are created, the lock taken anew. *)
CreateJob(j) ==
    /\ LockFree
    /\ TaskSteps(j, "asked", "begin")
    /\ status' = [status EXCEPT ![j] = "queued"]
    /\ entries' = entries \cup {j}
    /\ UNCHANGED <<lock, nodeVars, call, session, shutdownVars>>

BeginJob(j) ==
    /\ LockFree
    /\ TaskSteps(j, "begin", "require")
    /\ status' = [status EXCEPT ![j] = "running"]
    /\ UNCHANGED <<lock, nodeVars, call, session, entries, shutdownVars>>

(* _run_download_job: _require_node, outside the try statement: when the   *)
(* node was stopped in between, the task ends with the exception, its job  *)
(* "running" and its entry in _job_tasks.                                  *)
RequireNode(j) ==
    /\ LockFree
    /\ IF node = None
       THEN TaskSteps(j, "require", "error") /\ UNCHANGED session
       ELSE TaskSteps(j, "require", "swarm") /\ session' = [session EXCEPT ![j] = node]
    /\ UNCHANGED <<lock, nodeVars, call, status, entries, shutdownVars>>

(* The download asks the tracker, through the client of its own session.   *)
LookUpSwarm(j) ==
    /\ session[j] \in open
    /\ TaskSteps(j, "swarm", "transfer")
    /\ UNCHANGED <<lock, nodeVars, call, status, session, entries, shutdownVars>>

(* It has its chunks and announces them, again through that client. *)
AnnounceChunks(j) ==
    /\ session[j] \in open
    /\ TaskSteps(j, "transfer", "succeeded")
    /\ UNCHANGED <<lock, nodeVars, call, status, session, entries, shutdownVars>>

(* It raises, as any request of a closed client does. *)
DownloadRaises(j) ==
    /\ \E from \in {"swarm", "transfer"} : TaskSteps(j, from, "raised")
    /\ UNCHANGED <<lock, nodeVars, call, status, session, entries, shutdownVars>>

(* Faulty variant: only some exceptions make the job fail. *)
RecordSuccessOnly(j) ==
    /\ LockFree
    /\ \/ TaskSteps(j, "succeeded", "pop") /\ status' = [status EXCEPT ![j] = "completed"]
       \/ TaskSteps(j, "raised", "pop") /\ UNCHANGED status
    /\ UNCHANGED <<lock, nodeVars, call, session, entries, shutdownVars>>

RecordResult(j) ==
    /\ LockFree
    /\ \/ TaskSteps(j, "succeeded", "pop") /\ status' = [status EXCEPT ![j] = "completed"]
       \/ TaskSteps(j, "raised", "pop") /\ status' = [status EXCEPT ![j] = "failed"]
    /\ UNCHANGED <<lock, nodeVars, call, session, entries, shutdownVars>>

(* The finally clause. *)
PopTask(j) ==
    /\ LockFree
    /\ TaskSteps(j, "pop", "done")
    /\ entries' = entries \ {j}
    /\ UNCHANGED <<lock, nodeVars, call, status, session, shutdownVars>>

-----------------------------------------------------------------------------
(* Faulty variants: shutdown keeps the lock while it waits for the tasks;  *)
(* it cancels the tasks without waiting for them.                          *)
BeginShutdownLocked ==
    /\ shutdown = "no" /\ LockFree
    /\ \A h \in Handler : call[h] = "idle"
    /\ \A j \in Job : task[j] # "asked"
    /\ shutdown' = "wait"
    /\ lock' = CHOOSE h \in Handler : TRUE
    /\ cancelled' = entries
    /\ entries' = {}
    /\ UNCHANGED <<nodeVars, call, status, task, session>>

NobodyAwaited == TRUE

(* shutdown, after the last request was answered: the tasks are taken and  *)
(* forgotten under the lock, then cancelled.                               *)
BeginShutdown ==
    /\ shutdown = "no" /\ LockFree
    /\ \A h \in Handler : call[h] = "idle"
    /\ \A j \in Job : task[j] # "asked"
    /\ shutdown' = "wait"
    /\ cancelled' = entries
    /\ entries' = {}
    /\ UNCHANGED <<lock, nodeVars, call, status, task, session>>

(* Faulty variant: a status the API does not know. *)
TaskCancelledRecorded(j) ==
    /\ j \in cancelled
    /\ task[j] \notin {"done", "error"}
    /\ task' = [task EXCEPT ![j] = "done"]
    /\ status' = [status EXCEPT ![j] = "cancelled"]
    /\ UNCHANGED <<lock, nodeVars, call, session, entries, shutdownVars>>

(* The CancelledError ends a task where it awaits; within the try          *)
(* statement the finally clause still takes the lock.                      *)
TaskCancelled(j) ==
    /\ j \in cancelled
    /\ \/ task[j] \in {"begin", "require", "pop"}
       \/ task[j] \in {"swarm", "transfer", "succeeded", "raised"} /\ LockFree
    /\ task' = [task EXCEPT ![j] = "done"]
    /\ UNCHANGED <<lock, nodeVars, call, status, session, entries, shutdownVars>>

AllAwaited == \A j \in cancelled : task[j] = "done"

(* shutdown: every task was cancelled, the node is stopped. *)
EndShutdown ==
    /\ shutdown = "wait" /\ AllAwaited /\ LockFree
    /\ shutdown' = "returned"
    /\ listening' = listening \ {node}
    /\ open' = open \ {node}
    /\ node' = None
    /\ running' = FALSE
    /\ UNCHANGED <<lock, created, call, jobVars, cancelled>>

(* shutdown: only CancelledError is suppressed where a task is awaited; the *)
(* exception of one that had failed before ends shutdown itself.           *)
ShutdownRaises ==
    /\ shutdown = "wait"
    /\ \E j \in cancelled : task[j] = "error"
    /\ shutdown' = "aborted"
    /\ UNCHANGED <<lock, nodeVars, call, jobVars, cancelled>>

HandlerStep(h) ==
    \/ StartNode(h)
    \/ StopNode(h)
    \/ StopServer(h)
    \/ CloseTracker(h)
    \/ Listen(h)
    \/ Register(h)
    \/ RegisterFails(h)

TaskStep(j) ==
    \/ CreateJob(j)
    \/ BeginJob(j)
    \/ RequireNode(j)
    \/ LookUpSwarm(j)
    \/ AnnounceChunks(j)
    \/ DownloadRaises(j)
    \/ RecordResult(j)
    \/ PopTask(j)
    \/ TaskCancelled(j)

ShutdownStep == EndShutdown \/ ShutdownRaises

Next ==
    \/ \E h \in Handler : Arrive(h) \/ HandlerStep(h)
    \/ \E j \in Job : AskDownload(j) \/ TaskStep(j)
    \/ BeginShutdown
    \/ ShutdownStep

Spec == Init /\ [][Next]_vars

(* Every coroutine that can go on does so.  asyncio.Lock is handed over in *)
(* the order of asking, so nobody waits for it for ever; every request to  *)
(* the tracker and to a peer has a timeout.  That PeerServer.stop ends is  *)
(* assumed: PeerExchange has the conditions (StopEnds).                    *)
Fairness ==
    /\ \A h \in Handler : SF_vars(HandlerStep(h))
    /\ \A j \in Job : SF_vars(TaskStep(j))
    /\ WF_vars(ShutdownStep)

FairSpec == Spec /\ Fairness

-----------------------------------------------------------------------------
(* Whenever the lock is free, what GET /api/v1/node reports agrees with    *)
(* the node, and a node that is there listens and can reach its tracker,   *)
(* whatever replaced it, stopped it or failed to start before.             *)
InfoMatchesNode ==
    lock = None =>
        /\ running <=> node # None
        /\ node # None => node \in listening \cap open

(* When shutdown returns, no task of any job is left running and the node  *)
(* is stopped: a task created behind shutdown's back, or one it did not    *)
(* know of, would still be there.                                          *)
CleanShutdown ==
    shutdown = "returned" =>
        /\ node = None /\ ~running
        /\ \A j \in Job : task[j] \in {"none", "done"}

(* start_node and stop_node end, though they await under the lock. *)
HandlersEnd == \A h \in Handler : call[h] # "idle" ~> call[h] = "idle"

(* shutdown ends: it waits for tasks which themselves need the lock once   *)
(* more in their finally clause.                                           *)
ShutdownEnds == shutdown = "wait" ~> shutdown \in {"returned", "aborted"}

(* A job that found a node ends as completed or failed, whatever happens   *)
(* to that node, unless the agent shuts down first.                        *)
JobsEnd ==
    \A j \in Job :
        session[j] # None ~> status[j] \in {"completed", "failed"} \/ shutdown # "no"

(* The docstring of shutdown: "Cancel background jobs and stop node        *)
(* resources."  Once shutdown is over, no node is left running.            *)
ShutdownStopsNode == shutdown \in {"returned", "aborted"} => node = None

-----------------------------------------------------------------------------
(* The inductive invariant behind the safety properties. *)

(* Sessions to come are within the bound. *)
Budget == IsFiniteSet(Starting) /\ created + Cardinality(Starting) <= MaxSession

(* A handler between its first and its last step under the lock holds it;  *)
(* shutdown has none beside it.                                            *)
LockHeld ==
    /\ \A h \in Handler : lock = h <=> call[h] \notin {"idle", "start", "stop"}
    /\ shutdown # "no" => \A h \in Handler : call[h] = "idle"

(* What the handler under the lock knows of the node. *)
HandlerKnows ==
    \A h \in Handler :
        /\ call[h] \in {"listen", "register"} => node = None /\ ~running
        /\ call[h] = "register" => created \in listening \cap open

(* Before shutdown every task is known by its entry, then by the snapshot. *)
TasksKnown ==
    /\ shutdown = "no" =>
          /\ cancelled = {}
          /\ \A j \in Job : task[j] \in {"none", "asked", "done"} \/ j \in entries
    /\ shutdown # "no" => \A j \in Job : task[j] \in {"none", "done"} \/ j \in cancelled

IInv ==
    /\ TypeOK
    /\ Budget
    /\ LockHeld
    /\ HandlerKnows
    /\ InfoMatchesNode
    /\ TasksKnown
    /\ CleanShutdown
=============================================================================
