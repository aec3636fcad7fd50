------------------------- MODULE AgentRuntimeProofs -------------------------
(***************************************************************************)
(* The safety of AgentRuntime for any number of concurrent requests, jobs  *)
(* and nodes, which may also be infinite sets.                             *)
(***************************************************************************)
EXTENDS AgentRuntime, FiniteSetTheorems, TLAPS

LEMMA InitIInv == Init => IInv
  <1>. SUFFICES ASSUME Init  PROVE IInv
    OBVIOUS
  <1>1. TypeOK
    <2>1. /\ lock \in Handler \cup {None} /\ node \in Session \cup {None}
          /\ listening \subseteq Session /\ open \subseteq Session
      BY DEF Init
    <2>4. created \in 0 .. MaxSession
      BY AgentAssumption DEF Init
    <2>5. running \in BOOLEAN
      BY DEF Init
    <2>2. /\ call \in [Handler -> CallPc]
          /\ status \in [Job -> {"none", "queued", "running", "completed", "failed"}]
          /\ task \in [Job -> TaskPc]
          /\ session \in [Job -> Session \cup {None}]
      BY DEF Init, CallPc, TaskPc
    <2>3. entries \subseteq Job /\ cancelled \subseteq Job /\ shutdown \in ShutdownPc
      BY DEF Init, ShutdownPc
    <2>. QED  BY <2>1, <2>2, <2>3, <2>4, <2>5 DEF TypeOK
  <1>2. Budget
    <2>1. Starting = {}
      BY DEF Init, Starting
    <2>. QED  BY <2>1, FS_EmptySet, AgentAssumption DEF Budget, Init
  <1>3. LockHeld /\ HandlerKnows
    BY AgentAssumption DEF Init, LockHeld, HandlerKnows
  <1>4. InfoMatchesNode /\ TasksKnown /\ CleanShutdown
    BY DEF Init, InfoMatchesNode, TasksKnown, CleanShutdown
  <1>. QED  BY <1>1, <1>2, <1>3, <1>4 DEF IInv

-----------------------------------------------------------------------------
(* What the handlers do to the number of sessions to come.                 *)
LEMMA BudgetStep ==
    ASSUME IInv, [Next]_vars
    PROVE  Budget'
  <1>1. TypeOK /\ Budget
    BY DEF IInv
  <1>2. ASSUME created' = created, Starting' = Starting  PROVE Budget'
    BY <1>1, <1>2 DEF Budget
  <1>3. ASSUME NEW h \in Handler, Arrive(h)  PROVE Budget'
    <2>1. CASE call' = [call EXCEPT ![h] = "stop"]
      BY <1>1, <1>2, <1>3, <2>1 DEF Arrive, nodeVars, Starting, TypeOK
    <2>2. CASE created + Cardinality(Starting) < MaxSession /\ call' = [call EXCEPT ![h] = "start"]
      <3>1. h \notin Starting /\ Starting' = Starting \cup {h} /\ created' = created
        BY <1>1, <1>3, <2>2 DEF Arrive, nodeVars, Starting, TypeOK
      <3>2. /\ IsFiniteSet(Starting') /\ Cardinality(Starting') = Cardinality(Starting) + 1
            /\ Cardinality(Starting) \in Nat
        BY <1>1, <3>1, FS_AddElement, FS_CardinalityType DEF Budget
      <3>. QED  BY <1>1, <2>2, <3>1, <3>2, AgentAssumption DEF Budget, TypeOK
    <2>. QED  BY <1>3, <2>1, <2>2 DEF Arrive
  <1>4. ASSUME NEW h \in Handler, StartNode(h) \/ StopNode(h) \/ StopServer(h) \/ CloseTracker(h)
                                  \/ Register(h) \/ RegisterFails(h)
        PROVE  Budget'
    <2>1. created' = created
      BY <1>4 DEF StartNode, StopNode, StopServer, CloseTracker, Register, RegisterFails, nodeVars
    <2>2. Starting' = Starting
      BY <1>1, <1>4 DEF StartNode, StopNode, StopServer, CloseTracker, Register, RegisterFails,
                        Leaves, Steps, Starting, TypeOK
    <2>. QED  BY <1>2, <2>1, <2>2
  <1>5. ASSUME NEW h \in Handler, Listen(h)  PROVE Budget'
    <2>1. h \in Starting /\ Starting' = Starting \ {h} /\ created' = created + 1
      BY <1>1, <1>5 DEF Listen, Leaves, Steps, Starting, TypeOK
    <2>2. /\ IsFiniteSet(Starting') /\ Cardinality(Starting') = Cardinality(Starting) - 1
          /\ Cardinality(Starting) \in Nat
      BY <1>1, <2>1, FS_RemoveElement, FS_CardinalityType DEF Budget
    <2>. QED  BY <1>1, <2>1, <2>2, AgentAssumption DEF Budget, TypeOK
  <1>6. ASSUME UNCHANGED <<call, created>>  PROVE Budget'
    BY <1>2, <1>6 DEF Starting
  <1>7. ASSUME NEW j \in Job, AskDownload(j) \/ TaskStep(j)  PROVE Budget'
    BY <1>6, <1>7 DEF AskDownload, TaskStep, CreateJob, BeginJob, RequireNode, LookUpSwarm,
       AnnounceChunks, DownloadRaises, RecordResult, PopTask, TaskCancelled, nodeVars
  <1>8. CASE BeginShutdown \/ ShutdownStep
    BY <1>6, <1>8 DEF BeginShutdown, ShutdownStep, EndShutdown, ShutdownRaises, nodeVars
  <1>9. CASE UNCHANGED vars
    BY <1>6, <1>9 DEF vars, nodeVars
  <1>. QED  BY <1>3, <1>4, <1>5, <1>7, <1>8, <1>9 DEF Next, HandlerStep

-----------------------------------------------------------------------------
LEMMA TypeStep ==
    ASSUME IInv, [Next]_vars
    PROVE  TypeOK'
  <1>1. TypeOK /\ Budget /\ HandlerKnows
    BY DEF IInv
  <1>2. \A h \in Handler : Listen(h) => created + 1 \in Session
    <2>1. SUFFICES ASSUME NEW h \in Handler, Listen(h)  PROVE created + 1 \in Session
      OBVIOUS
    <2>2. h \in Starting
      BY <2>1 DEF Listen, Leaves, Steps, Starting
    <2>3. Cardinality(Starting) \in Nat /\ Cardinality(Starting) # 0
      BY <1>1, <2>2, FS_EmptySet, FS_CardinalityType DEF Budget
    <2>. QED  BY <1>1, <2>3, AgentAssumption DEF Budget, TypeOK, Session
  <1>3. ASSUME NEW h \in Handler, Arrive(h) \/ HandlerStep(h)  PROVE TypeOK'
    <2>1. call' \in [Handler -> CallPc]
      BY <1>1, <1>3 DEF TypeOK, Arrive, HandlerStep, StartNode, StopNode, StopServer, CloseTracker,
         Listen, Register, RegisterFails, Leaves, Steps, CallPc
    <2>2. lock' \in Handler \cup {None}
      BY <1>1, <1>3 DEF TypeOK, Arrive, HandlerStep, StartNode, StopNode, StopServer, CloseTracker,
         Listen, Register, RegisterFails, Leaves, Steps
    <2>3. /\ created' \in 0 .. MaxSession /\ node' \in Session \cup {None}
          /\ listening' \subseteq Session /\ open' \subseteq Session
      <3>1. CASE Listen(h)
        <4>1. created' \in Session /\ node' = node
          BY <1>2, <3>1 DEF Listen
        <4>2. open' \subseteq Session /\ listening' \subseteq Session
          BY <1>1, <3>1, <4>1 DEF TypeOK, Listen
        <4>3. created' \in 0 .. MaxSession
          BY <4>1, AgentAssumption DEF Session
        <4>. QED  BY <1>1, <4>1, <4>2, <4>3 DEF TypeOK
      <3>2. CASE Register(h)
        BY <1>1, <3>2 DEF TypeOK, Register, Leaves, Steps, HandlerKnows
      <3>3. CASE ~Listen(h) /\ ~Register(h)
        BY <1>1, <1>3, <3>3 DEF TypeOK, Arrive, HandlerStep, StartNode, StopNode, StopServer,
           CloseTracker, RegisterFails, nodeVars
      <3>. QED  BY <3>1, <3>2, <3>3
    <2>4. running' \in BOOLEAN
      BY <1>1, <1>3 DEF TypeOK, Arrive, HandlerStep, StartNode, StopNode, StopServer, CloseTracker,
         Listen, Register, RegisterFails, nodeVars
    <2>5. UNCHANGED <<jobVars, shutdownVars>>
      BY <1>3 DEF Arrive, HandlerStep, StartNode, StopNode, StopServer, CloseTracker, Listen,
         Register, RegisterFails
    <2>. QED  BY <1>1, <2>1, <2>2, <2>3, <2>4, <2>5 DEF TypeOK, jobVars, shutdownVars
  <1>4. ASSUME NEW j \in Job, AskDownload(j) \/ TaskStep(j)  PROVE TypeOK'
    <2>1. UNCHANGED <<lock, nodeVars, call, shutdownVars>>
      BY <1>4 DEF AskDownload, TaskStep, CreateJob, BeginJob, RequireNode, LookUpSwarm,
         AnnounceChunks, DownloadRaises, RecordResult, PopTask, TaskCancelled
    <2>2. task' \in [Job -> TaskPc]
      BY <1>1, <1>4 DEF TypeOK, AskDownload, TaskStep, CreateJob, BeginJob, RequireNode,
         LookUpSwarm, AnnounceChunks, DownloadRaises, RecordResult, PopTask, TaskCancelled,
         TaskSteps, TaskPc
    <2>3. status' \in [Job -> {"none", "queued", "running", "completed", "failed"}]
      BY <1>1, <1>4 DEF TypeOK, AskDownload, TaskStep, CreateJob, BeginJob, RequireNode,
         LookUpSwarm, AnnounceChunks, DownloadRaises, RecordResult, PopTask, TaskCancelled
    <2>4. session' \in [Job -> Session \cup {None}]
      BY <1>1, <1>4 DEF TypeOK, AskDownload, TaskStep, CreateJob, BeginJob, RequireNode,
         LookUpSwarm, AnnounceChunks, DownloadRaises, RecordResult, PopTask, TaskCancelled
    <2>5. entries' \subseteq Job
      BY <1>1, <1>4 DEF TypeOK, AskDownload, TaskStep, CreateJob, BeginJob, RequireNode,
         LookUpSwarm, AnnounceChunks, DownloadRaises, RecordResult, PopTask, TaskCancelled
    <2>. QED  BY <1>1, <2>1, <2>2, <2>3, <2>4, <2>5 DEF TypeOK, nodeVars, shutdownVars
  <1>5. CASE BeginShutdown \/ ShutdownStep
    BY <1>1, <1>5 DEF TypeOK, BeginShutdown, ShutdownStep, EndShutdown, ShutdownRaises, nodeVars,
       jobVars, ShutdownPc
  <1>6. CASE UNCHANGED vars
    BY <1>1, <1>6 DEF TypeOK, vars, nodeVars, jobVars, shutdownVars
  <1>. QED  BY <1>3, <1>4, <1>5, <1>6 DEF Next

-----------------------------------------------------------------------------
(* The lock, and what holds of the node with and without it.               *)
LEMMA NodeStep ==
    ASSUME IInv, [Next]_vars
    PROVE  LockHeld' /\ HandlerKnows' /\ InfoMatchesNode'
  <1>1. TypeOK /\ LockHeld /\ HandlerKnows /\ InfoMatchesNode
    BY DEF IInv
  <1>2. ASSUME UNCHANGED <<lock, nodeVars, call>>,
               shutdown' = shutdown \/ \A h \in Handler : call[h] = "idle"
        PROVE  LockHeld' /\ HandlerKnows' /\ InfoMatchesNode'
    BY <1>1, <1>2 DEF nodeVars, LockHeld, HandlerKnows, InfoMatchesNode
  (* One handler alone is under the lock. *)
  <1>3. ASSUME NEW h \in Handler, NEW to \in CallPc, call' = [call EXCEPT ![h] = to],
               \/ lock = None /\ lock' = None /\ to \in {"idle", "start", "stop"}
               \/ lock \in {None, h} /\ lock' = h /\ to \notin {"idle", "start", "stop"}
               \/ lock = h /\ lock' = None /\ to \in {"idle", "start", "stop"}
               \/ /\ call[h] \in {"idle", "start", "stop"} /\ lock' = lock
                  /\ to \in {"idle", "start", "stop"},
               shutdown = "no" /\ shutdown' = "no"
        PROVE  LockHeld'
    BY <1>1, <1>3, AgentAssumption DEF LockHeld, TypeOK
  <1>4. ASSUME NEW h \in Handler, Arrive(h)
        PROVE  LockHeld' /\ HandlerKnows' /\ InfoMatchesNode'
    <2>1. LockHeld'
      <3>1. PICK to \in {"stop", "start"} : call' = [call EXCEPT ![h] = to]
        BY <1>4 DEF Arrive
      <3>. QED  BY <1>3, <1>4, <3>1 DEF Arrive, CallPc, shutdownVars
    <2>2. HandlerKnows' /\ InfoMatchesNode'
      BY <1>1, <1>4 DEF Arrive, HandlerKnows, InfoMatchesNode, nodeVars, TypeOK
    <2>. QED  BY <2>1, <2>2
  <1>5. ASSUME NEW h \in Handler, HandlerStep(h)
        PROVE  LockHeld'
    <2>1. shutdown = "no" /\ shutdown' = "no"
      BY <1>1, <1>5 DEF LockHeld, HandlerStep, StartNode, StopNode, StopServer, CloseTracker,
         Listen, Register, RegisterFails, Leaves, Steps, shutdownVars
    <2>2. CASE StartNode(h) \/ StopNode(h)
      <3>1. PICK to \in {"listen", "stop_old_server", "close_tracker", "stop_server"} :
               call' = [call EXCEPT ![h] = to]
        BY <2>2 DEF StartNode, StopNode, Steps
      <3>. QED  BY <1>3, <2>1, <2>2, <3>1 DEF StartNode, StopNode, CallPc
    <2>3. CASE StopServer(h)
      <3>1. PICK to \in {"close_tracker", "close_old_tracker"} : call' = [call EXCEPT ![h] = to]
        BY <2>3 DEF StopServer, Steps
      <3>. QED  BY <1>1, <1>3, <2>1, <2>3, <3>1 DEF StopServer, Steps, CallPc, LockHeld
    <2>4. ASSUME \E from \in CallPc : Leaves(h, from) /\ from \notin {"idle", "start", "stop"}
          PROVE  LockHeld'
      BY <1>1, <1>3, <2>1, <2>4 DEF Leaves, Steps, CallPc, LockHeld
    <2>5. CASE CloseTracker(h) \/ Listen(h)
      <3>1. CASE Leaves(h, "close_tracker") \/ Leaves(h, "listen")
        BY <2>4, <3>1 DEF CallPc
      <3>2. CASE /\ Steps(h, "close_old_tracker", "listen") \/ Steps(h, "listen", "register")
                 /\ UNCHANGED lock
        BY <1>1, <1>3, <2>1, <3>2 DEF Steps, CallPc, LockHeld
      <3>. QED  BY <2>5, <3>1, <3>2 DEF CloseTracker, Listen
    <2>6. CASE Register(h) \/ RegisterFails(h)
      BY <2>4, <2>6 DEF Register, RegisterFails, CallPc
    <2>. QED  BY <1>5, <2>2, <2>3, <2>5, <2>6 DEF HandlerStep
  <1>6. ASSUME NEW h \in Handler, HandlerStep(h)
        PROVE  HandlerKnows' /\ InfoMatchesNode'
    <2>1. \A g \in Handler \ {h} : /\ call'[g] = call[g]
                                   /\ call[g] \in {"idle", "start", "stop"}
      <3>1. PICK to : call' = [call EXCEPT ![h] = to]
        BY <1>6 DEF HandlerStep, StartNode, StopNode, StopServer, CloseTracker, Listen, Register,
           RegisterFails, Leaves, Steps
      <3>2. lock = None \/ lock = h
        BY <1>1, <1>6 DEF LockHeld, HandlerStep, StartNode, StopNode, StopServer, CloseTracker,
           Listen, Register, RegisterFails, Leaves, Steps
      <3>. QED  BY <1>1, <3>1, <3>2, AgentAssumption DEF LockHeld, TypeOK
    <2>2. CASE StartNode(h) \/ StopNode(h)
      <3>1. UNCHANGED nodeVars /\ lock = None /\ lock' # None
        BY <2>2, AgentAssumption DEF StartNode, StopNode
      <3>2. call'[h] = "listen" => node = None
        BY <1>1, <2>2 DEF StartNode, StopNode, Steps, TypeOK
      <3>3. call'[h] # "register"
        BY <1>1, <2>2 DEF StartNode, StopNode, Steps, TypeOK
      <3>. QED  BY <1>1, <2>1, <3>1, <3>2, <3>3 DEF HandlerKnows, InfoMatchesNode, nodeVars
    <2>3. CASE StopServer(h)
      <3>1. call'[h] \notin {"listen", "register"} /\ lock' = h
        BY <1>1, <2>3 DEF StopServer, Steps, TypeOK, LockHeld
      <3>. QED  BY <2>1, <3>1, AgentAssumption DEF HandlerKnows, InfoMatchesNode
    <2>4. CASE CloseTracker(h)
      <3>1. call'[h] # "register" /\ node' = None /\ running' = FALSE
        BY <1>1, <2>4 DEF CloseTracker, Leaves, Steps, TypeOK
      <3>. QED  BY <2>1, <3>1 DEF HandlerKnows, InfoMatchesNode
    <2>5. CASE Listen(h)
      <3>1. node = None /\ ~running /\ node' = node /\ running' = running
        BY <1>1, <2>5 DEF Listen, Leaves, Steps, HandlerKnows
      <3>2. call'[h] = "register" => created' \in listening' \cap open'
        BY <1>1, <2>5 DEF Listen, Leaves, Steps, TypeOK
      <3>. QED  BY <2>1, <3>1, <3>2 DEF HandlerKnows, InfoMatchesNode
    <2>6. CASE Register(h)
      <3>1. /\ call'[h] = "idle" /\ node' = created /\ running' = TRUE
            /\ created \in listening' \cap open'
        BY <1>1, <2>6 DEF Register, Leaves, Steps, TypeOK, HandlerKnows
      <3>2. node' # None
        BY <1>1, <3>1, AgentAssumption DEF TypeOK
      <3>. QED  BY <2>1, <3>1, <3>2 DEF HandlerKnows, InfoMatchesNode
    <2>7. CASE RegisterFails(h)
      <3>1. /\ call'[h] = "idle" /\ node = None /\ ~running /\ UNCHANGED nodeVars
        BY <1>1, <2>7 DEF RegisterFails, Leaves, Steps, TypeOK, HandlerKnows
      <3>. QED  BY <2>1, <3>1 DEF HandlerKnows, InfoMatchesNode, nodeVars
    <2>. QED  BY <1>6, <2>2, <2>3, <2>4, <2>5, <2>6, <2>7 DEF HandlerStep
  <1>7. ASSUME NEW j \in Job, AskDownload(j) \/ TaskStep(j)
        PROVE  LockHeld' /\ HandlerKnows' /\ InfoMatchesNode'
    BY <1>2, <1>7 DEF AskDownload, TaskStep, CreateJob, BeginJob, RequireNode, LookUpSwarm,
       AnnounceChunks, DownloadRaises, RecordResult, PopTask, TaskCancelled, shutdownVars
  <1>8. CASE BeginShutdown \/ ShutdownRaises
    BY <1>1, <1>2, <1>8 DEF BeginShutdown, ShutdownRaises, LockHeld
  <1>9. CASE EndShutdown
    BY <1>1, <1>9 DEF EndShutdown, LockHeld, HandlerKnows, InfoMatchesNode
  <1>10. CASE UNCHANGED vars
    BY <1>2, <1>10 DEF vars, shutdownVars
  <1>. QED  BY <1>4, <1>5, <1>6, <1>7, <1>8, <1>9, <1>10 DEF Next, ShutdownStep

-----------------------------------------------------------------------------
(* Nobody but shutdown cancels, and it knows every task.                   *)
LEMMA TasksStep ==
    ASSUME IInv, [Next]_vars
    PROVE  TasksKnown' /\ CleanShutdown'
  <1>1. TypeOK /\ LockHeld /\ TasksKnown /\ CleanShutdown
    BY DEF IInv
  <1>2. ASSUME NEW h \in Handler, Arrive(h) \/ HandlerStep(h)
        PROVE  TasksKnown' /\ CleanShutdown'
    <2>1. UNCHANGED <<jobVars, shutdownVars>>
      BY <1>2 DEF Arrive, HandlerStep, StartNode, StopNode, StopServer, CloseTracker, Listen,
         Register, RegisterFails
    <2>2. shutdown = "no"
      BY <1>1, <1>2 DEF LockHeld, Arrive, HandlerStep, StartNode, StopNode, StopServer,
         CloseTracker, Listen, Register, RegisterFails, Leaves, Steps
    <2>. QED  BY <1>1, <2>1, <2>2 DEF TasksKnown, CleanShutdown, jobVars, shutdownVars
  <1>3. ASSUME NEW j \in Job, AskDownload(j) \/ TaskStep(j)
        PROVE  TasksKnown' /\ CleanShutdown'
    <2>1. UNCHANGED <<nodeVars, shutdownVars>>
      BY <1>3 DEF AskDownload, TaskStep, CreateJob, BeginJob, RequireNode, LookUpSwarm,
         AnnounceChunks, DownloadRaises, RecordResult, PopTask, TaskCancelled
    <2>2. \A k \in Job \ {j} : task'[k] = task[k] /\ (k \in entries' <=> k \in entries)
      BY <1>1, <1>3 DEF TypeOK, AskDownload, TaskStep, CreateJob, BeginJob, RequireNode,
         LookUpSwarm, AnnounceChunks, DownloadRaises, RecordResult, PopTask, TaskCancelled, TaskSteps
    <2>3. shutdown = "no" => task'[j] \in {"asked", "done"} \/ j \in entries'
      BY <1>1, <1>3 DEF TypeOK, TasksKnown, AskDownload, TaskStep, CreateJob, BeginJob, RequireNode,
         LookUpSwarm, AnnounceChunks, DownloadRaises, RecordResult, PopTask, TaskCancelled, TaskSteps
    <2>4. shutdown # "no" => task'[j] = "done"
      BY <1>1, <1>3 DEF TypeOK, TasksKnown, AskDownload, TaskStep, CreateJob, BeginJob, RequireNode,
         LookUpSwarm, AnnounceChunks, DownloadRaises, RecordResult, PopTask, TaskCancelled, TaskSteps
    <2>. QED  BY <1>1, <2>1, <2>2, <2>3, <2>4 DEF TasksKnown, CleanShutdown, nodeVars, shutdownVars
  <1>4. CASE BeginShutdown
    BY <1>1, <1>4 DEF BeginShutdown, TasksKnown, CleanShutdown
  <1>5. CASE EndShutdown
    BY <1>1, <1>5 DEF EndShutdown, AllAwaited, TasksKnown, CleanShutdown, jobVars
  <1>6. CASE ShutdownRaises
    BY <1>1, <1>6 DEF ShutdownRaises, TasksKnown, CleanShutdown, jobVars
  <1>7. CASE UNCHANGED vars
    BY <1>1, <1>7 DEF vars, TasksKnown, CleanShutdown, nodeVars, jobVars, shutdownVars
  <1>. QED  BY <1>2, <1>3, <1>4, <1>5, <1>6, <1>7 DEF Next, ShutdownStep

-----------------------------------------------------------------------------
(* The inductive invariant holds in every reachable state. *)
THEOREM Invariance == Spec => []IInv
  <1>1. IInv /\ [Next]_vars => IInv'
    BY TypeStep, BudgetStep, NodeStep, TasksStep DEF IInv
  <1>. QED  BY <1>1, InitIInv, PTL DEF Spec

(* Every variable keeps its type; in particular start_node never makes     *)
(* more sessions than the bound allows.                                    *)
THEOREM TypeCorrect == Spec => []TypeOK
  <1>1. IInv => TypeOK
    BY DEF IInv
  <1>. QED  BY <1>1, Invariance, PTL

(* Whenever the lock is free, the node reported is the node that runs, and *)
(* it listens and can reach its tracker (start_node, stop_node).           *)
THEOREM InfoAgreesWithNode == Spec => []InfoMatchesNode
  <1>1. IInv => InfoMatchesNode
    BY DEF IInv
  <1>. QED  BY <1>1, Invariance, PTL

(* When shutdown returns, no task of any job is left and no node runs.     *)
THEOREM ShutdownIsClean == Spec => []CleanShutdown
  <1>1. IInv => CleanShutdown
    BY DEF IInv
  <1>. QED  BY <1>1, Invariance, PTL

-----------------------------------------------------------------------------
(* What becomes of a task that found no node.                              *)

(* From the start of a task to the result of its download its job runs.    *)
JobRuns ==
    \A j \in Job :
        task[j] \in {"require", "swarm", "transfer", "succeeded", "raised", "error"}
           => status[j] = "running"

LEMMA JobRunsStep ==
    ASSUME TypeOK, JobRuns, [Next]_vars
    PROVE  JobRuns'
  <1>1. ASSUME NEW j \in Job, AskDownload(j) \/ TaskStep(j)  PROVE JobRuns'
    <2>1. \A k \in Job \ {j} : task'[k] = task[k] /\ status'[k] = status[k]
      BY <1>1 DEF TypeOK, AskDownload, TaskStep, CreateJob, BeginJob, RequireNode, LookUpSwarm,
         AnnounceChunks, DownloadRaises, RecordResult, PopTask, TaskCancelled, TaskSteps
    <2>2. task'[j] \in {"require", "swarm", "transfer", "succeeded", "raised", "error"}
             => status'[j] = "running"
      BY <1>1 DEF TypeOK, JobRuns, AskDownload, TaskStep, CreateJob, BeginJob, RequireNode,
         LookUpSwarm, AnnounceChunks, DownloadRaises, RecordResult, PopTask, TaskCancelled,
         TaskSteps
    <2>. QED  BY <2>1, <2>2 DEF JobRuns
  <1>2. CASE ~ \E j \in Job : AskDownload(j) \/ TaskStep(j)
    <2>1. UNCHANGED <<task, status>>
      BY <1>2 DEF Next, Arrive, HandlerStep, StartNode, StopNode, StopServer, CloseTracker, Listen,
         Register, RegisterFails, BeginShutdown, ShutdownStep, EndShutdown, ShutdownRaises,
         jobVars, vars
    <2>. QED  BY <2>1 DEF JobRuns
  <1>. QED  BY <1>1, <1>2

(* No step revives a task that ended with an exception.                    *)
LEMMA ErrorStays ==
    ASSUME TypeOK, [Next]_vars, NEW j \in Job, task[j] = "error"
    PROVE  task'[j] = "error"
  BY DEF TypeOK, Next, Arrive, HandlerStep, StartNode, StopNode, StopServer, CloseTracker, Listen,
     Register, RegisterFails, AskDownload, TaskStep, CreateJob, BeginJob, RequireNode, LookUpSwarm,
     AnnounceChunks, DownloadRaises, RecordResult, PopTask, TaskCancelled, TaskSteps,
     BeginShutdown, ShutdownStep, EndShutdown, ShutdownRaises, jobVars, vars

(* A task that found no node, and so failed outside of its try statement,  *)
(* has its job reported as running for ever, and no shutdown of the agent  *)
(* will ever stop the node and return.                                     *)
THEOREM FailedTaskForbidsShutdown ==
    ASSUME NEW j \in Job
    PROVE  Spec => [](task[j] = "error" => [](status[j] = "running" /\ shutdown # "returned"))
  <1>. DEFINE Failed == task[j] = "error"
              Doomed == status[j] = "running" /\ shutdown # "returned"
  <1>1. Init => JobRuns
    BY DEF Init, JobRuns
  <1>2. IInv /\ JobRuns /\ [Next]_vars => JobRuns'
    BY JobRunsStep DEF IInv
  <1>3. IInv /\ [Next]_vars /\ Failed => Failed'
    BY ErrorStays DEF IInv
  <1>4. IInv /\ JobRuns /\ Failed => Doomed
    BY DEF IInv, JobRuns, CleanShutdown
  <1>. HIDE DEF Failed, Doomed
  <1>5. Spec => [](Failed => []Doomed)
    BY <1>1, <1>2, <1>3, <1>4, Invariance, PTL DEF Spec
  <1>. QED  BY <1>5 DEF Failed, Doomed
=============================================================================
