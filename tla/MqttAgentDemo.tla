--------------------------- MODULE MqttAgentDemo ---------------------------
(***************************************************************************)
(* The coreMQTT Agent demo: demo tasks hand SUBSCRIBE and PUBLISH commands *)
(* to the one task that owns the MQTT connection, and wait for its         *)
(* callbacks with a timeout (mqtt_agent_task.c, simple_sub_pub_demo.c).    *)
(* The command structures and the subscription list are AgentCommands'.    *)
(*                                                                         *)
(* The command loop and the MQTT protocol belong to the coreMQTT Agent     *)
(* library, which is not in the repository: Receive, Ack, LoopError and    *)
(* ResumeSession stand for it. Topic filters are named by the task that    *)
(* subscribes to them, as the demo forms them.                             *)
(***************************************************************************)
EXTENDS Naturals, FiniteSets, SequencesExt, AgentCommands

CONSTANTS
  Tasks,            \* the demo tasks, named for their topic filters too
  Qos1Tasks,        \* those that publish with QoS 1
  PublishCount,     \* mqttexamplePUBLISH_COUNT
  MaxSubscriptions, \* SUBSCRIPTION_MANAGER_MAX_SUBSCRIPTIONS
  MaxAttempts,      \* RETRY_MAX_ATTEMPTS
  MaxDemos,         \* democonfigMQTT_MAX_DEMO_COUNT
  MaxFailures,      \* bound on failed and lost connections
  TasksCreated      \* xTaskCreate of the demo tasks does not fail

ASSUME TasksAssumption  == /\ IsFiniteSet(Tasks) /\ NoTask \notin Tasks
                           /\ Qos1Tasks \subseteq Tasks
ASSUME LimitsAssumption == /\ {PublishCount, PoolSize, MaxSubscriptions,
                                MaxAttempts, MaxDemos} \subseteq Nat \ {0}
                           /\ MaxFailures \in Nat /\ TasksCreated \in BOOLEAN

VARIABLES
  pc,           \* where the demo runner (0) and the agent task of each run are
  attempts,     \* what is left of their backoff, while they connect
  demo,         \* which run of the demo this is
  ended,        \* notifications of ended tasks the runner has not taken
  waited,       \* how many it has taken in this run
  connected,    \* mqttContext.connectStatus
  failures,     \* bound on what the network does to the connection
  resubscribed, \* the filters in the static arguments of prvHandleResubscribe
  nextId,       \* ulNextSubscribeMessageID, up to the last number of a publish
  taskPc,       \* where each demo task is
  n,            \* ulValueToNotify
  successes,    \* numSuccesses
  xSuccess,     \* DemoParams.xSuccess
  note,         \* the value of each task's notification
  fault         \* a callback has run over a stack frame that is gone

conn   == <<connected, failures>>
runner == <<pc, attempts, demo, ended, waited, conn>>
lists  == <<subs, resubscribed>>
tasks  == <<nextId, taskPc, n, successes, xSuccess, note>>
vars   == <<runner, pool, lists, tasks, fault>>

Agents == 1..MaxDemos
Unused == [kind |-> "none", task |-> NoTask, id |-> 0, live |-> FALSE]

Init ==
  /\ pc = [p \in {0} \cup Agents |-> IF p = 0 THEN "init" ELSE "none"]
  /\ attempts = [p \in {0} \cup Agents |-> 0]
  /\ demo = 0 /\ ended = 0 /\ waited = 0 /\ connected = FALSE
  /\ failures = MaxFailures
  /\ free = <<>> /\ queue = <<>> /\ pending = {}
  /\ cmd = [c \in Commands |-> Unused]
  /\ subs = [i \in 1..MaxSubscriptions |-> NoTask]
  /\ resubscribed = {} /\ nextId = 0
  /\ taskPc = [t \in Tasks |-> "none"]
  /\ n = [t \in Tasks |-> 0] /\ successes = [t \in Tasks |-> 0]
  /\ xSuccess = [t \in Tasks |-> FALSE]
  /\ note = [t \in Tasks |-> 0]
  /\ fault = FALSE


-----------------------------------------------------------------------------
(* What ends a command.                                                    *)

\* prvPublishCommandCallback: the context holds the number of the publish the
\* task has come to, not of the one that is concluded.
PublishCallback(t) ==
  /\ note' = [note EXCEPT ![t] = n[t]]
  /\ UNCHANGED <<lists, fault>>

\* prvSubscribeCommandCallback
SubscribeCallback(t, id, ok) ==
  /\ subs' = IF ok THEN AddSubscription(subs, t) ELSE subs
  /\ note' = [note EXCEPT ![t] = id]
  /\ UNCHANGED <<resubscribed, fault>>

\* prvSubscriptionCommandCallback: which filters the broker refused is its
\* choice.
ResubscribeCallback(ok) ==
  /\ \E refused \in SUBSET resubscribed :
       subs' = IF ok THEN subs ELSE RemoveSubscription(subs, refused)
  /\ UNCHANGED <<resubscribed, note, fault>>

\* A callback whose context was on the stack of a function that has returned:
\* the stack may still hold it, or no longer hold a task to notify, or send the
\* callback through a pointer to anywhere.
LateCallback(t, id) ==
  /\ \/ UNCHANGED note
     \/ taskPc[t] # "done" /\ note' = [note EXCEPT ![t] = id]
  /\ fault' \in BOOLEAN
  /\ UNCHANGED lists

\* Ends a command with its callback and gives the structure back.
Conclude(c, ok) ==
  /\ free' = Released(c)
  /\ cmd' = [cmd EXCEPT ![c] = Unused]
  /\ LET k == cmd[c]
     IN  CASE k.kind = "resubscribe"         -> ResubscribeCallback(ok)
           [] k.kind = "terminate"           -> UNCHANGED <<lists, note, fault>>
           [] k.kind = "publish" /\ k.live   -> PublishCallback(k.task)
           [] k.kind = "subscribe" /\ k.live -> SubscribeCallback(k.task, k.id, ok)
           [] OTHER                          -> LateCallback(k.task, k.id)

\* The frame that holds the contexts of t's commands of these kinds is left.
FrameLeft(t, kinds) ==
  [c \in Commands |->
     IF cmd[c].task = t /\ cmd[c].kind \in kinds
     THEN [cmd[c] EXCEPT !.live = FALSE] ELSE cmd[c]]

-----------------------------------------------------------------------------
(* Connecting, which the runner does first and the agent task again after  *)
(* an error.                                                               *)

\* prvMQTTAgentInit: the queue is made anew over the storage of the one before,
\* and the agent's context is cleared. What the structures hold that are lost
\* this way, nobody reads.
MQTTAgentInit ==
  /\ pc[0] = "init"
  /\ pc' = [pc EXCEPT ![0] = "socket"]
  /\ attempts' = [attempts EXCEPT ![0] = MaxAttempts]
  /\ free' = InitializedPool(demo = 0)
  /\ queue' = <<>> /\ pending' = {} /\ connected' = FALSE /\ UNCHANGED failures
  /\ demo' = demo + 1 /\ waited' = 0
  /\ cmd' = [c \in Commands |-> Unused]
  /\ resubscribed' = {}
  /\ UNCHANGED <<ended, subs, tasks, fault>>

Fails == failures > 0 /\ failures' = failures - 1

SocketConnect(p) ==
  /\ pc[p] = "socket"
  /\ \/ pc' = [pc EXCEPT ![p] = "mqtt"] /\ UNCHANGED failures
     \/ pc' = [pc EXCEPT ![p] = "backoff"] /\ Fails
  /\ UNCHANGED <<attempts, demo, ended, waited, connected, pool, lists, tasks, fault>>

\* MQTT_Connect: clean for the runner; the agent task asks for its session,
\* and resumes it first.
MQTTConnect(p) ==
  /\ pc[p] = "mqtt"
  /\ \/ /\ connected' = TRUE /\ UNCHANGED failures
        /\ \E next \in IF p = 0 THEN {"create"} ELSE {"resume", "renew"} :
             pc' = [pc EXCEPT ![p] = next]
        /\ attempts' = IF p = 0 THEN [attempts EXCEPT ![p] = 0] ELSE attempts
     \/ /\ pc' = [pc EXCEPT ![p] = "backoff"]
        /\ Fails /\ UNCHANGED <<connected, attempts>>
  /\ UNCHANGED <<demo, ended, waited, pool, lists, tasks, fault>>

\* MQTTAgent_ResumeSession ends what no acknowledgment can come for: with the
\* session still there publishes are sent again, without it nothing is.
Obsolete(p) ==
  {c \in pending : pc[p] = "renew" \/ cmd[c].kind # "publish"}

ResumeSession(p) ==
  /\ pc[p] \in {"resume", "renew"}
  /\ \/ \E c \in Obsolete(p) :
          /\ Conclude(c, FALSE)
          /\ pending' = pending \ {c}
          /\ UNCHANGED <<queue, pc, attempts>>
     \/ /\ Obsolete(p) = {}
        /\ pc' = [pc EXCEPT ![p] = IF pc[p] = "renew" THEN "resubscribe" ELSE "loop"]
        /\ attempts' = IF pc[p] = "renew" THEN attempts ELSE [attempts EXCEPT ![p] = 0]
        /\ UNCHANGED <<pool, lists, note, fault>>
  /\ UNCHANGED <<demo, ended, waited, conn, nextId, taskPc, n,
                 successes, xSuccess>>

\* prvHandleResubscribe: with no command left the attempt to connect fails.
HandleResubscribe(p) ==
  LET filters == Elements(subs) \ {NoTask}
  IN  /\ pc[p] = "resubscribe"
      /\ resubscribed' = filters
      /\ \/ /\ filters # {}
            /\ Send([Unused EXCEPT !.kind = "resubscribe"])
            /\ pc' = [pc EXCEPT ![p] = "loop"] /\ attempts' = [attempts EXCEPT ![p] = 0]
         \/ /\ filters # {} /\ NoCommand /\ UNCHANGED attempts
            /\ pc' = [pc EXCEPT ![p] = "backoff"]
         \/ /\ filters = {} /\ UNCHANGED pool
            /\ pc' = [pc EXCEPT ![p] = "loop"] /\ attempts' = [attempts EXCEPT ![p] = 0]
      /\ UNCHANGED <<demo, ended, waited, conn, subs, tasks, fault>>

\* prvBackoffForRetry: the random number may fail as well as the retries end.
\* The runner then starts the demo over, the agent task is over.
BackoffForRetry(p) ==
  /\ pc[p] = "backoff"
  /\ \/ /\ attempts[p] > 0
        /\ attempts' = [attempts EXCEPT ![p] = @ - 1]
        /\ pc' = [pc EXCEPT ![p] = "socket"]
     \/ /\ pc' = [pc EXCEPT ![p] = IF p = 0 THEN "failed" ELSE "ended"]
        /\ attempts' = [attempts EXCEPT ![p] = 0]
  /\ UNCHANGED <<demo, ended, waited, conn, pool, lists, tasks, fault>>

-----------------------------------------------------------------------------
(* The runner: RunCoreMqttAgentDemo and prvConnectAndCreateDemoTasks.      *)

\* A task whose xTaskCreate fails is not there, and nobody is told.
StartSimpleSubscribePublishTask ==
  /\ \E created \in IF TasksCreated THEN {Tasks} ELSE SUBSET Tasks :
       taskPc' = [t \in Tasks |-> IF t \in created THEN "subscribe" ELSE "none"]
  /\ xSuccess' = [t \in Tasks |-> FALSE]
  /\ successes' = [t \in Tasks |-> 0]
  /\ n' = [t \in Tasks |-> 0]
  /\ note' = [t \in Tasks |-> 0]
  /\ UNCHANGED nextId

CreateDemoTasks ==
  /\ pc[0] = "create"
  /\ \E agent \in {"loop", "none"} : pc' = [pc EXCEPT ![0] = "wait", ![demo] = agent]
  /\ StartSimpleSubscribePublishTask
  /\ UNCHANGED <<attempts, demo, ended, waited, conn, pool, lists, fault>>

WaitForTask ==
  /\ pc[0] = "wait" /\ waited < Cardinality(Tasks) /\ ended > 0
  /\ ended' = ended - 1 /\ waited' = waited + 1
  /\ UNCHANGED <<pc, attempts, demo, conn, pool, lists, tasks, fault>>

\* MQTTAgent_Terminate does not wait for a command either.
Terminate ==
  /\ pc[0] = "wait" /\ waited = Cardinality(Tasks)
  /\ Send([Unused EXCEPT !.kind = "terminate"]) \/ NoCommand
  /\ pc' = [pc EXCEPT ![0] = IF \A t \in Tasks : xSuccess[t] THEN "done" ELSE "failed"]
  /\ UNCHANGED <<attempts, demo, ended, waited, conn, lists, tasks, fault>>

RunAgain ==
  /\ pc[0] = "failed"
  /\ pc' = [pc EXCEPT ![0] = IF demo < MaxDemos THEN "init" ELSE "done"]
  /\ UNCHANGED <<attempts, demo, ended, waited, conn, pool, lists, tasks, fault>>

-----------------------------------------------------------------------------
(* The agent task: prvMQTTAgentTask around MQTTAgent_CommandLoop.          *)

\* The loop has returned an error: the task connects again, unless it cannot
\* close the socket.
Reconnect(p) ==
  /\ Fails
  /\ \/ /\ pc' = [pc EXCEPT ![p] = "socket"]
        /\ attempts' = [attempts EXCEPT ![p] = MaxAttempts]
        /\ connected' = FALSE
     \/ /\ pc' = [pc EXCEPT ![p] = "ended"]
        /\ UNCHANGED <<attempts, connected>>

\* The loop has returned for MQTTAgent_Terminate: the task disconnects, if it
\* is still connected, and is over.
Terminated(p) ==
  /\ pc' = [pc EXCEPT ![p] = "ended"]
  /\ connected' = FALSE
  /\ UNCHANGED <<attempts, failures>>

\* A command is sent and either done with, or waits for its acknowledgment; a
\* send that fails ends the loop with an error.
Receive(p) ==
  /\ pc[p] = "loop" /\ queue # <<>>
  /\ LET c == Head(queue)
         acknowledged == \/ cmd[c].kind \in {"subscribe", "resubscribe"}
                         \/ cmd[c].kind = "publish" /\ cmd[c].task \in Qos1Tasks
     IN  /\ queue' = Tail(queue)
         /\ \/ /\ cmd[c].kind = "terminate"
               /\ Conclude(c, TRUE)
               /\ Terminated(p)
               /\ UNCHANGED pending
            \/ /\ cmd[c].kind # "terminate" /\ connected /\ acknowledged
               /\ pending' = pending \cup {c}
               /\ UNCHANGED <<free, cmd, pc, attempts, conn, lists, note, fault>>
            \/ /\ cmd[c].kind # "terminate" /\ connected /\ ~acknowledged
               /\ Conclude(c, TRUE)
               /\ UNCHANGED <<pending, pc, attempts, conn>>
            \/ /\ cmd[c].kind # "terminate"
               /\ Conclude(c, FALSE)
               /\ Reconnect(p)
               /\ UNCHANGED pending
  /\ UNCHANGED <<demo, ended, waited, nextId, taskPc, n, successes, xSuccess>>

Ack(p, c, ok) ==
  /\ pc[p] = "loop" /\ c \in pending /\ connected
  /\ Conclude(c, ok)
  /\ pending' = pending \ {c}
  /\ UNCHANGED <<runner, queue, nextId, taskPc, n, successes, xSuccess>>

LoopError(p) ==
  /\ pc[p] = "loop"
  /\ Reconnect(p)
  /\ UNCHANGED <<demo, ended, waited, pool, lists, tasks, fault>>

-----------------------------------------------------------------------------
(* A demo task: prvSimpleSubscribePublishTask.                             *)

\* The number of a subscription is only ever compared with that of a publish, so
\* that those beyond are the same.
SubscribeToTopic(t) ==
  /\ taskPc[t] = "subscribe"
  /\ nextId' = IF nextId < PublishCount THEN nextId + 1 ELSE nextId
  /\ \/ /\ Send([kind |-> "subscribe", task |-> t, id |-> nextId', live |-> TRUE])
        /\ taskPc' = [taskPc EXCEPT ![t] = "subscribing"]
     \/ /\ NoCommand
        /\ taskPc' = [taskPc EXCEPT ![t] = "publish"]
  /\ UNCHANGED <<runner, lists, n, successes, xSuccess, note, fault>>

\* prvWaitForCommandAcknowledgment returns with a notification or at its
\* timeout, and hands out the value of the last notification either way.
WaitForCommandAcknowledgment(t) == note[t]

\* Mutant of SubscribeDone: the task waits for the callback for ever.
SubscribeAwaited(t) ==
  /\ taskPc[t] = "subscribing"
  /\ \A c \in Commands : cmd[c].kind = "subscribe" => cmd[c].task # t
  /\ taskPc' = [taskPc EXCEPT ![t] = "publish"]
  /\ UNCHANGED <<runner, pool, lists, nextId, n, successes, xSuccess, note, fault>>

SubscribeDone(t) ==
  /\ taskPc[t] = "subscribing"
  /\ cmd' = FrameLeft(t, {"subscribe"})
  /\ taskPc' = [taskPc EXCEPT ![t] = "publish"]
  /\ UNCHANGED <<runner, free, queue, pending, lists, nextId, n, successes, xSuccess, note, fault>>

Publish(t) ==
  /\ taskPc[t] = "publish" /\ n[t] < PublishCount
  /\ \/ /\ Send([kind |-> "publish", task |-> t, id |-> 0, live |-> TRUE])
        /\ taskPc' = [taskPc EXCEPT ![t] = "publishing"]
        /\ UNCHANGED n
     \/ /\ NoCommand
        /\ n' = [n EXCEPT ![t] = @ + 1]
        /\ UNCHANGED taskPc
  /\ UNCHANGED <<runner, lists, nextId, successes, xSuccess, note, fault>>

PublishDone(t) ==
  /\ taskPc[t] = "publishing"
  /\ successes' = [successes EXCEPT ![t] = IF WaitForCommandAcknowledgment(t) = n[t] THEN @ + 1 ELSE @]
  /\ n' = [n EXCEPT ![t] = @ + 1]
  /\ taskPc' = [taskPc EXCEPT ![t] = "publish"]
  /\ UNCHANGED <<runner, pool, lists, nextId, xSuccess, note, fault>>

TaskEnds(t) ==
  /\ taskPc[t] = "publish" /\ n[t] = PublishCount
  /\ xSuccess' = [xSuccess EXCEPT ![t] = (successes[t] = PublishCount)]
  /\ ended' = ended + 1
  /\ taskPc' = [taskPc EXCEPT ![t] = "done"]
  /\ cmd' = FrameLeft(t, {"publish"})
  /\ n' = [n EXCEPT ![t] = 0] /\ successes' = [successes EXCEPT ![t] = 0]
  /\ note' = [note EXCEPT ![t] = 0]
  /\ UNCHANGED <<pc, attempts, demo, waited, conn, free, queue, pending, lists,
                 nextId, fault>>

-----------------------------------------------------------------------------
ConnectStep(p) == \/ SocketConnect(p) \/ MQTTConnect(p) \/ BackoffForRetry(p)

RunnerStep == \/ MQTTAgentInit \/ ConnectStep(0) \/ CreateDemoTasks
              \/ WaitForTask \/ Terminate \/ RunAgain

AgentStep(p) == \/ ConnectStep(p) \/ ResumeSession(p) \/ HandleResubscribe(p)
                \/ Receive(p) \/ LoopError(p)
                \/ \E c \in Commands, ok \in BOOLEAN : Ack(p, c, ok)

TaskStep(t) == \/ SubscribeToTopic(t) \/ SubscribeDone(t)
               \/ Publish(t) \/ PublishDone(t) \/ TaskEnds(t)

Next ==
  /\ ~fault
  /\ \/ RunnerStep
     \/ \E p \in Agents : AgentStep(p)
     \/ \E t \in Tasks : TaskStep(t)

Spec == Init /\ [][Next]_vars

\* The scheduler runs the runner and the demo tasks, whose waits all end; that
\* the agent task or the broker ever answer is not assumed.
FairSpec ==
  /\ Spec
  /\ WF_vars(~fault /\ RunnerStep)
  /\ \A t \in Tasks : WF_vars(~fault /\ TaskStep(t))

-----------------------------------------------------------------------------
TypeOK ==
  /\ pc \in [{0} \cup Agents -> {"none", "init", "socket", "mqtt", "backoff", "create",
               "wait", "failed", "done", "resume", "renew", "resubscribe", "loop", "ended"}]
  /\ attempts \in [{0} \cup Agents -> 0..MaxAttempts]
  /\ demo \in 0..MaxDemos /\ failures \in 0..MaxFailures /\ connected \in BOOLEAN /\ fault \in BOOLEAN
  /\ ended \in 0..Cardinality(Tasks) /\ waited \in 0..Cardinality(Tasks)
  /\ free \in Seq(Commands) /\ queue \in Seq(Commands) /\ pending \subseteq Commands
  /\ cmd \in [Commands -> [kind : {"none", "subscribe", "publish", "resubscribe", "terminate"},
                           task : Tasks \cup {NoTask}, id : Nat, live : BOOLEAN]]
  /\ subs \in [1..MaxSubscriptions -> Tasks \cup {NoTask}]
  /\ resubscribed \subseteq Tasks /\ nextId \in Nat
  /\ taskPc \in [Tasks -> {"none", "subscribe", "subscribing", "publish", "publishing", "done"}]
  /\ n \in [Tasks -> 0..PublishCount] /\ xSuccess \in [Tasks -> BOOLEAN]
  /\ \A t \in Tasks : successes[t] <= n[t]
  /\ note \in [Tasks -> Nat]

\* The demo comes to its end although the agent task may have given up and
\* nobody answers: every wait of a demo task for its command, or for a free
\* command, is bounded. The runner's wait for the tasks is not: they must be there
\* (TasksCreated).
DemoEnds == <>(pc[0] = "done" \/ fault)
=============================================================================
