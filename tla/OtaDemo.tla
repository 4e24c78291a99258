------------------------------ MODULE OtaDemo ------------------------------
(***************************************************************************)
(* The OTA demos over HTTP and over MQTT (ota_demo_core_http.c and         *)
(* ota_demo_core_mqtt.c, which share all but the file download): the       *)
(* demo's task, the task of the MQTT agent, and the OTA agent's task,      *)
(* which hands MQTT commands to the second and waits for their callbacks.  *)
(* When the connection breaks, the MQTT agent's task suspends the OTA      *)
(* agent, connects again and resumes it.                                   *)
(*                                                                         *)
(* The OTA agent is reduced to what these files see of it: its state, the  *)
(* events it is sent, and that it calls the interface one operation at a   *)
(* time (OtaAgent has the whole of it). The coreMQTT agent's command loop, *)
(* the broker and the HTTP library are external.                           *)
(***************************************************************************)
EXTENDS Integers, SequencesExt

CONSTANTS
  Kinds,       \* "mqtt", "http": the demos that may be started
  RetryMax,    \* RETRY_MAX_ATTEMPTS
  PoolSize,    \* MQTT_COMMAND_CONTEXTS_POOL_SIZE
  MaxSubs,     \* SUBSCRIPTION_MANAGER_MAX_SUBSCRIPTIONS
  MaxOps,      \* bound: operations of the OTA agent
  MaxLosses,   \* bound: losses of the connection
  Urls         \* what a job document may name, as sequences of "://", "/", "?" and others

ASSUME OtaDemoAssumption ==
  /\ Kinds \subseteq {"mqtt", "http"}
  /\ {RetryMax, MaxOps, MaxLosses} \subseteq Nat
  /\ {PoolSize, MaxSubs} \subseteq Nat \ {0}

VARIABLES
  kind,     \* which demo
  demo,     \* where its task is
  status,   \* xDemoStatus
  inited,   \* xMqttInitialized
  mutex,    \* xBufferSemaphore: "none", "alive", "deleted"
  agent,    \* where the MQTT agent's task is
  attempts, \* of the backoff, of whichever task connects
  tcp,      \* the MQTT socket: "none", "open", "stale" once it is closed
  session,  \* the broker has accepted the CONNECT, and the connection is not broken
  losses,
  prepared, \* MQTTAgent_Init was called at least once
  free,     \* command structures in the pool
  queue,    \* xCommandQueue
  pending,  \* commands that await an acknowledgment
  lost,     \* commands that were in the queue when it was created anew
  list,     \* pxGlobalSubscriptionList: pairs of a filter and a callback
  acked,    \* the command whose callback is being called with success
  told,     \* the filters the OTA agent was told it has, and has not given up
  ota,      \* the OTA agent: its state, its operation and its notification
  events,   \* what it was sent
  http,     \* the HTTP connection: xHttpConnectionStatus, its socket, its URL
  passed,   \* how often the last publish was passed on
  fault     \* an assertion failed, or memory or a socket was used that is gone

conn     == <<tcp, session, losses>>
commands == <<free, queue, pending, lost>>
dispatch == <<list, acked, passed>>
steps    == <<demo, status, inited, mutex>>
vars     == <<kind, steps, agent, attempts, conn, prepared, commands, dispatch, told, ota,
              events, http, fault>>

Filters == {"notify", "data", "default"}

Init ==
  /\ kind \in Kinds
  /\ demo = "start" /\ status = FALSE /\ inited = FALSE /\ mutex = "none"
  /\ agent = "none" /\ attempts = 0
  /\ tcp = "none" /\ session = FALSE /\ losses = 0 /\ prepared = FALSE
  /\ free = PoolSize /\ queue = <<>> /\ pending = {} /\ lost = 0
  /\ list = {} /\ acked = 0 /\ told = {} /\ passed = 0
  /\ ota = [state |-> "stopped", task |-> FALSE, op |-> "idle", filter |-> "none",
            note |-> FALSE, result |-> FALSE, ops |-> 0]
  /\ events = <<>>
  /\ http = [flag |-> FALSE, sock |-> "none", url |-> <<>>]
  /\ fault = "none"

Running == fault = "none"
Fails(f) == fault' = f

-----------------------------------------------------------------------------
(* The subscription manager.                                               *)

\* MQTT_MatchTopic, of the topics and filters there are; a filter matches as the
\* topic of the same name.
Matches(topic, filter) ==
  \/ topic = filter
  \/ filter = "default" /\ topic \in {"notify", "accepted"}

\* xOtaTopicFilterCallbacks
Callback == [notify |-> "job", data |-> "data", default |-> "default"]

\* SubscriptionManager_RemoveSubscription
RemoveSubscription(l, filter) == {s \in l : s[1] # filter}

\* SubscriptionManager_AddSubscription, of one after the other: what is in the list
\* already, or finds it full, is not added.
AddSubscription(some) ==
  LET wanted == list \cup some
  IN  list' \in {l \in SUBSET wanted :
                   /\ list \subseteq l /\ Cardinality(l) <= MaxSubs
                   /\ l = wanted \/ Cardinality(l) = MaxSubs}

\* prvRegisterOTACallback: the filter gets the callback of every wild card it matches.
RegisterOTACallback(filter) ==
  AddSubscription({<<filter, Callback[f]>> : f \in {f \in Filters : Matches(filter, f)}})

\* What the callbacks pass on to the OTA agent: prvMqttDefaultCallback only the
\* accepted responses, for which there is no subscription.
Passes(callback, topic) == callback = "default" => topic = "accepted"

\* SubscriptionManager_HandleIncomingPublishes: every subscription that matches.
HandleIncomingPublishes(topic) ==
  {s \in list : Matches(topic, s[1]) /\ Passes(s[2], topic)}

\* prvOtaEventBufferGet and prvOtaEventBufferFree take the mutex.
TakeMutex == IF mutex = "alive" THEN UNCHANGED fault ELSE Fails("mutex")

\* prvIncomingPublishCallback, called by the agent's command loop.
IncomingPublish ==
  /\ Running /\ agent = "loop" /\ session
  /\ \E topic \in {"notify", "accepted", "data"} :
       LET handlers == HandleIncomingPublishes(topic) IN
       /\ passed' = Cardinality(handlers)
       /\ IF handlers = {} THEN UNCHANGED fault ELSE TakeMutex
  /\ UNCHANGED <<kind, steps, agent, attempts, conn, prepared, commands, list, acked, told,
                 ota, events, http>>

-----------------------------------------------------------------------------
(* Commands: the OTA agent's task, or at last the demo's, sends one and    *)
(* waits for the notification of its callback, for a limited time. The     *)
(* command's context is on the stack of the task that waits.               *)

Command(op, filter, by) ==
  [op |-> op, filter |-> filter, by |-> by, live |-> TRUE, id |-> ota.ops]

\* MQTTAgent_Subscribe and its like, which the callers assert to succeed.
SendCommand(c) ==
  IF free = 0
  THEN Fails("assert") /\ UNCHANGED commands
  ELSE /\ queue' = Append(queue, c) /\ free' = free - 1
       /\ UNCHANGED <<pending, lost, fault>>

\* The OTA agent calls one operation of its MQTT interface. What it is told at the
\* start, MQTTSendFailed, it is told until a callback says otherwise.
OtaCalls(op, filter) ==
  /\ Running /\ ota.task /\ ota.op = "idle" /\ ota.ops < MaxOps
  /\ ota.state = "ready"
  /\ SendCommand(Command(op, filter, "ota"))
  /\ ota' = [ota EXCEPT !.op = op, !.filter = filter, !.result = FALSE, !.ops = @ + 1]
  /\ told' = IF op = "unsubscribe" THEN told \ {filter} ELSE told
  /\ UNCHANGED <<kind, steps, agent, attempts, conn, prepared, dispatch, events, http>>

MqttSubscribe   == \E f \in {"notify"} \cup (IF kind = "mqtt" THEN {"data"} ELSE {}) :
                     OtaCalls("subscribe", f)
MqttPublish     == OtaCalls("publish", "none")
MqttUnsubscribe == \E f \in told : OtaCalls("unsubscribe", f)

\* The wait is over with a notification or without: the status in the context is
\* the result, and the context is gone with the stack frame.
Forgotten(by) ==
  LET f(c) == IF c.by = by THEN [c EXCEPT !.live = FALSE] ELSE c
  IN  /\ queue' = [i \in DOMAIN queue |-> f(queue[i])]
      /\ pending' = {f(c) : c \in pending}
      /\ UNCHANGED <<free, lost>>

OtaReturns ==
  /\ Running /\ ota.op \in {"subscribe", "publish", "unsubscribe", "leave"}
  /\ Forgotten("ota")
  /\ told' = IF ota.result /\ ota.op = "subscribe" THEN told \cup {ota.filter} ELSE told
  /\ ota' = [ota EXCEPT !.op = "idle", !.filter = "none", !.note = FALSE,
                        !.state = IF ota.op = "leave" THEN "stopped" ELSE @]
  /\ UNCHANGED <<kind, steps, agent, attempts, conn, prepared, dispatch, events, http, fault>>

\* xTaskNotifyWait in one of the three operations has got its notification.
OtaNotified == ota.note /\ OtaReturns

\* Its time is over.
OtaTimesOut == ~ota.note /\ OtaReturns

\* A callback that is called with a failure, or for the demo's DISCONNECT, leaves the
\* list alone: it writes the status into the context and notifies the task.
CmdComplete(c, ok) ==
  /\ fault' = IF c.live THEN fault ELSE "frame"
  /\ CASE c.by = "ota"  -> ota' = [ota EXCEPT !.note = TRUE, !.result = ok] /\ UNCHANGED steps
       [] c.by = "demo" -> demo' = "closeMqtt" /\ UNCHANGED <<ota, status, inited, mutex>>

\* The command loop takes a command and sends it; or it fails, and the loop with it.
TakeCommand ==
  /\ Running /\ agent = "loop" /\ queue # <<>> /\ Head(queue).op # "disconnect"
  /\ queue' = Tail(queue)
  /\ IF session
     THEN /\ pending' = pending \cup {Head(queue)}
          /\ UNCHANGED <<agent, free, steps, ota, fault>>
     ELSE /\ CmdComplete(Head(queue), FALSE) /\ free' = free + 1
          /\ agent' = "cancel" /\ UNCHANGED pending
  /\ UNCHANGED <<kind, attempts, conn, prepared, lost, dispatch, told, events, http>>

\* What an acknowledged command does to the subscriptions:
\* prvMQTTSubscribeCompleteCallback, prvMQTTUnsubscribeCompleteCallback.
SubscribeComplete(c) == RegisterOTACallback(c.filter)
UnsubscribeComplete(c) == list' = RemoveSubscription(list, c.filter)

Registers(c) ==
  CASE c.op = "subscribe" -> SubscribeComplete(c)
    [] c.op \in {"unsubscribe", "leave"} -> UnsubscribeComplete(c)
    [] OTHER -> UNCHANGED list

\* Mutant of Acknowledge: the task is notified first, and the callback registered then.
NotifiesFirst ==
  /\ Running /\ agent \in {"loop", "register"} /\ (agent = "loop" => session)
  /\ \E c \in pending :
       IF agent = "loop"
       THEN /\ CmdComplete(c, TRUE) /\ acked' = c.id /\ agent' = "register"
            /\ UNCHANGED <<pending, free, list>>
       ELSE /\ c.id = acked /\ Registers(c) /\ acked' = 0 /\ agent' = "loop"
            /\ pending' = pending \ {c} /\ free' = free + 1 /\ UNCHANGED <<steps, ota, fault>>
  /\ UNCHANGED <<kind, attempts, conn, prepared, queue, lost, passed, told, events, http>>

\* An acknowledgment concludes a command. The OTA agent's task may run between the three
\* steps of its callback, each of which needs the context in that task's frame: the
\* callback for the topic is registered or removed,
Acknowledge ==
  /\ Running /\ agent = "loop" /\ session
  /\ \E c \in pending :
       /\ Registers(c) /\ acked' = c.id
       /\ fault' = IF c.live THEN fault ELSE "frame"
  /\ agent' = "report"
  /\ UNCHANGED <<kind, steps, attempts, conn, prepared, commands, passed, told, ota, events,
                 http>>

\* the status is written into the context,
StoreStatus ==
  /\ Running /\ agent = "report"
  /\ \E c \in pending : c.id = acked /\ fault' = IF c.live THEN fault ELSE "frame"
  /\ ota' = [ota EXCEPT !.result = TRUE]
  /\ agent' = "notify"
  /\ UNCHANGED <<kind, steps, attempts, conn, prepared, commands, dispatch, told, events, http>>

\* and the task is notified; the command loop then frees the command.
NotifyTask ==
  /\ Running /\ agent = "notify"
  /\ \E c \in pending :
       /\ c.id = acked /\ fault' = IF c.live THEN fault ELSE "frame"
       /\ pending' = pending \ {c} /\ free' = free + 1
  /\ ota' = [ota EXCEPT !.note = TRUE]
  /\ agent' = "loop" /\ acked' = 0
  /\ UNCHANGED <<kind, steps, attempts, conn, prepared, queue, lost, list, passed, told, events,
                 http>>

\* DISCONNECT ends the loop, with success unless the connection is broken.
TakeDisconnect ==
  /\ Running /\ agent = "loop" /\ queue # <<>> /\ Head(queue).op = "disconnect"
  /\ queue' = Tail(queue) /\ free' = free + 1
  /\ CmdComplete(Head(queue), session)
  /\ agent' = IF session THEN "cancelLast" ELSE "cancel"
  /\ session' = FALSE
  /\ UNCHANGED <<kind, attempts, tcp, losses, prepared, pending, lost, dispatch, told, events,
                 http>>

\* The connection breaks; the loop notices it when it next receives.
LinkLost ==
  /\ Running /\ session /\ losses < MaxLosses
  /\ session' = FALSE /\ losses' = losses + 1
  /\ UNCHANGED <<kind, steps, agent, attempts, tcp, prepared, commands, dispatch, told, ota,
                 events, http, fault>>

LoopFails ==
  /\ Running /\ agent = "loop" /\ ~session
  /\ agent' = "cancel"
  /\ UNCHANGED <<kind, steps, attempts, conn, prepared, commands, dispatch, told, ota, events,
                 http, fault>>

\* MQTTAgent_CancelAll: the callbacks of all commands are called, with a failure.
CancelQueueOnly ==
  /\ Running /\ agent \in {"cancel", "cancelLast"}
  /\ queue' = <<>> /\ pending' = {} /\ free' = free + Len(queue)
  /\ fault' = IF \A c \in Range(queue) : c.live THEN fault ELSE "frame"
  /\ ota' = IF \E c \in Range(queue) : c.by = "ota" THEN [ota EXCEPT !.note = TRUE] ELSE ota
  /\ demo' = IF \E c \in Range(queue) : c.by = "demo" THEN "closeMqtt" ELSE demo
  /\ agent' = IF agent = "cancel" THEN "suspend" ELSE "gone"
  /\ UNCHANGED <<kind, status, inited, mutex, attempts, conn, prepared, lost, dispatch, told,
                 events, http>>

CancelAll ==
  LET all == Range(queue) \cup pending IN
  /\ Running /\ agent \in {"cancel", "cancelLast"}
  /\ queue' = <<>> /\ pending' = {} /\ free' = free + Len(queue) + Cardinality(pending)
  /\ fault' = IF \A c \in all : c.live THEN fault ELSE "frame"
  /\ ota' = IF \E c \in all : c.by = "ota" THEN [ota EXCEPT !.note = TRUE] ELSE ota
  /\ demo' = IF \E c \in all : c.by = "demo" THEN "closeMqtt" ELSE demo
  /\ agent' = IF agent = "cancel" THEN "suspend" ELSE "gone"
  /\ UNCHANGED <<kind, status, inited, mutex, attempts, conn, prepared, lost, dispatch, told,
                 events, http>>


-----------------------------------------------------------------------------
(* The connection to the broker.                                           *)

\* SecureSocketsTransport_Disconnect, which leaves the handle as it is.
CloseTcp ==
  /\ fault' = IF tcp = "open" THEN fault ELSE "closed"
  /\ tcp' = "stale" /\ session' = FALSE /\ UNCHANGED losses

\* prvCreateSocketConnectionToMQTTBroker: an attempt, and prvBackoffForRetry.
CreateSocketConnection(connected, again, failed) ==
  \/ tcp' = "open" /\ attempts' = 0 /\ connected
  \/ attempts < RetryMax /\ attempts' = attempts + 1 /\ again /\ UNCHANGED tcp
  \/ attempts' = 0 /\ failed /\ UNCHANGED tcp

\* prvMqttAgentInit creates the command queue, again on a reconnection; the pool is
\* filled the first time only.
MqttAgentInit ==
  /\ queue' = <<>> /\ lost' = lost + Len(queue) /\ pending' = {}
  /\ prepared' = TRUE /\ UNCHANGED free

\* prvMQTTConnect, for a clean session; prvConnectToMQTTBroker does not look at the
\* result.
MQTTConnect == session' \in BOOLEAN /\ UNCHANGED losses

\* OTA_Suspend and OTA_Resume fail when the OTA agent has stopped, or its queue takes no
\* event; what is asserted of them then fails.
Signals(event, next) ==
  \/ /\ ota.state # "stopped"
     /\ events' = Append(events, event) /\ agent' = next /\ UNCHANGED fault
  \/ Fails("assert") /\ UNCHANGED <<events, agent>>

\* prvSuspendOTA: OTA_Suspend, and a second at a time until the OTA agent is suspended.
SuspendOTA ==
  /\ Running /\ agent = "suspend"
  /\ Signals("suspend", "awaitSuspend")
  /\ UNCHANGED <<kind, steps, attempts, conn, prepared, commands, dispatch, told, ota, http>>

SuspendUnseen ==
  /\ Running /\ agent = "awaitSuspend"
  /\ agent' = "close"
  /\ UNCHANGED <<kind, steps, attempts, conn, prepared, commands, dispatch, told, ota, events,
                 http, fault>>

SuspendSeen ==
  /\ Running /\ agent = "awaitSuspend" /\ ota.state = "suspended"
  /\ agent' = "close"
  /\ UNCHANGED <<kind, steps, attempts, conn, prepared, commands, dispatch, told, ota, events,
                 http, fault>>

\* prvMQTTAgentTask asserts that suspending and resuming succeed in time.
SuspendTimesOut ==
  /\ Running
  /\ \/ agent = "awaitSuspend" /\ ota.state # "suspended"
     \/ agent = "awaitResume" /\ ota.state = "suspended"
  /\ Fails("assert")
  /\ UNCHANGED <<kind, steps, agent, attempts, conn, prepared, commands, dispatch, told, ota,
                 events, http>>

\* prvMQTTAgentTask, after the loop has failed and the OTA agent is suspended.
AgentCloses ==
  /\ Running /\ agent = "close"
  /\ CloseTcp /\ agent' = "connect"
  /\ UNCHANGED <<kind, steps, attempts, prepared, commands, dispatch, told, ota, events, http>>

AgentConnects ==
  /\ Running /\ agent = "connect"
  /\ CreateSocketConnection(agent' = "mqttConnect" /\ UNCHANGED fault,
                            UNCHANGED <<agent, fault>>,
                            Fails("assert") /\ UNCHANGED agent)
  /\ UNCHANGED <<kind, steps, session, losses, prepared, commands, dispatch, told, ota, events,
                 http>>

AgentReconnects ==
  /\ Running /\ agent = "mqttConnect"
  /\ MqttAgentInit /\ MQTTConnect
  /\ agent' = "resume"
  /\ UNCHANGED <<kind, steps, attempts, tcp, dispatch, told, ota, events, http, fault>>

\* prvResumeOTA
ResumeOTA ==
  /\ Running /\ agent = "resume"
  /\ Signals("resume", "awaitResume")
  /\ UNCHANGED <<kind, steps, attempts, conn, prepared, commands, dispatch, told, ota, http>>

ResumeSeen ==
  /\ Running /\ agent = "awaitResume" /\ ota.state # "suspended"
  /\ agent' = "loop"
  /\ UNCHANGED <<kind, steps, attempts, conn, prepared, commands, dispatch, told, ota, events,
                 http, fault>>

-----------------------------------------------------------------------------
(* The OTA agent, as far as the demo sees it.                              *)

OtaIdle == Running /\ ota.task /\ ota.op = "idle"

OtaStarts ==
  /\ OtaIdle /\ ota.state = "init"
  /\ ota' = [ota EXCEPT !.state = "ready"]
  /\ UNCHANGED <<kind, steps, agent, attempts, conn, prepared, commands, dispatch, told,
                 events, http, fault>>

\* An event is processed between two operations.
OtaHandles(event) ==
  /\ OtaIdle /\ ota.state \in {"ready", "suspended"}
  /\ events # <<>> /\ Head(events) = event
  /\ events' = Tail(events)

OtaSuspends ==
  /\ OtaHandles("suspend")
  /\ ota' = [ota EXCEPT !.state = "suspended"]
  /\ UNCHANGED <<kind, steps, agent, attempts, conn, prepared, commands, dispatch, told, http,
                 fault>>

OtaResumes ==
  /\ OtaHandles("resume")
  /\ ota' = [ota EXCEPT !.state = "ready"]
  /\ UNCHANGED <<kind, steps, agent, attempts, conn, prepared, commands, dispatch, told, http,
                 fault>>

\* Shutting down, in whichever state, the agent gives up the topics it has subscribed to;
\* one of them stands for all, as its MQTT code (ota_mqtt.c) is not part of this source.
OtaShutsDown ==
  /\ OtaHandles("shutdown")
  /\ SendCommand(Command("leave", "notify", "ota"))
  /\ ota' = [ota EXCEPT !.op = "leave", !.filter = "notify", !.result = FALSE, !.ops = @ + 1]
  /\ UNCHANGED <<kind, steps, agent, attempts, conn, prepared, dispatch, told, http>>

\* prvOtaAppCallback: OTA_Shutdown when an image is activated or its self test has
\* failed; a processed event's buffer goes back.
AppCallback ==
  /\ OtaIdle /\ ota.state = "ready"
  /\ \/ /\ "shutdown" \notin Range(events)
        /\ events' = Append(events, "shutdown") /\ UNCHANGED fault
     \/ TakeMutex /\ UNCHANGED events
  /\ UNCHANGED <<kind, steps, agent, attempts, conn, prepared, commands, dispatch, told, ota,
                 http>>

-----------------------------------------------------------------------------
(* The file over HTTP.                                                     *)

At(url, cells) == {i \in DOMAIN url : url[i] \in cells}
Least(s) == CHOOSE i \in s : \A j \in s : i <= j

\* getUrlAddress: what is between the separator and the next slash, if anything.
HostStart(url) == IF At(url, {"://"}) = {} THEN Len(url) + 1 ELSE Least(At(url, {"://"})) + 1
HostEnds(url) == {i \in At(url, {"/"}) : i >= HostStart(url)}
GetUrlAddress(url) ==
  IF HostEnds(url) = {} THEN <<>> ELSE SubSeq(url, HostStart(url), Least(HostEnds(url)) - 1)

\* getUrlPath; the request takes all that follows, the query included.
GetUrlPath(url) ==
  IF HostEnds(url) = {} THEN <<>> ELSE SubSeq(url, Least(HostEnds(url)), Len(url))

\* prvConnectToS3Server: to the URL's host, or without an URL to the same host again.
ConnectToS3Server(url) ==
  /\ GetUrlAddress(url) # <<>>
  /\ http' = [flag |-> TRUE, sock |-> "open", url |-> url]

HttpCalls ==
  /\ OtaIdle /\ kind = "http" /\ ota.state = "ready" /\ ota.ops < MaxOps
  /\ ota' = [ota EXCEPT !.ops = @ + 1]
  /\ UNCHANGED <<kind, steps, agent, attempts, conn, prepared, commands, dispatch, told, events>>

Closed(flag) == [http EXCEPT !.flag = flag, !.sock = IF http.flag THEN "stale" ELSE @]

InitKeepsFlag ==
  /\ HttpCalls
  /\ \E url \in Urls : ConnectToS3Server(url) \/ http' = Closed(http.flag)
  /\ UNCHANGED fault

\* prvHttpInit: an open connection is closed first. Every URL with a host has a path.
HttpInit ==
  /\ HttpCalls
  /\ \E url \in Urls : ConnectToS3Server(url) \/ http' = Closed(FALSE)
  /\ UNCHANGED fault

\* prvHandleHttpResponse: a block for the OTA agent, if there is a buffer; a new job
\* document if the server refuses; or nothing.
HandleHttpResponse == TakeMutex \/ UNCHANGED fault

\* prvHttpRequest: when nothing came, or after a response with which the server closes the
\* connection, that is made again at once. A second request after that has failed uses
\* the closed socket.
HttpRequest ==
  /\ HttpCalls
  /\ http.url # <<>>
  /\ IF http.sock # "open" THEN Fails("closed") /\ UNCHANGED http
     ELSE HandleHttpResponse /\ http' \in {http, Closed(FALSE)}

-----------------------------------------------------------------------------
(* The demo.                                                               *)

To(d) == demo' = d

\* RunOtaCoreHttpDemo
DemoStarts ==
  /\ Running /\ demo = "start"
  /\ \/ mutex' = "alive" /\ status' = TRUE /\ To("connect")
     \/ To("register") /\ UNCHANGED <<mutex, status>>
  /\ UNCHANGED <<kind, inited, agent, attempts, conn, prepared, commands, dispatch, told, ota,
                 events, http, fault>>

DemoConnects ==
  /\ Running /\ demo = "connect"
  /\ CreateSocketConnection(To("mqttConnect") /\ UNCHANGED status, UNCHANGED <<demo, status>>,
                            To("register") /\ status' = FALSE)
  /\ UNCHANGED <<kind, inited, mutex, agent, session, losses, prepared, commands, dispatch,
                 told, ota, events, http, fault>>

\* prvConnectToMQTTBroker
ConnectToMQTTBroker ==
  /\ Running /\ demo = "mqttConnect"
  /\ MqttAgentInit /\ MQTTConnect
  /\ inited' = TRUE /\ To("register")
  /\ UNCHANGED <<kind, status, mutex, agent, attempts, tcp, dispatch, told, ota, events, http,
                 fault>>

\* The callback for what is not subscribed to, which needs the agent's context.
RegisterDefault ==
  /\ Running /\ demo = "register"
  /\ To(IF status THEN "spawn" ELSE "unregister")
  /\ IF prepared THEN RegisterOTACallback("default") ELSE UNCHANGED list
  /\ UNCHANGED <<kind, status, inited, mutex, agent, attempts, conn, prepared, commands,
                 acked, passed, told, ota, events, http, fault>>

CreateAgentTask ==
  /\ Running /\ demo = "spawn"
  /\ \/ agent' = "loop" /\ To("init") /\ UNCHANGED status
     \/ To("unregister") /\ status' = FALSE /\ UNCHANGED agent
  /\ UNCHANGED <<kind, inited, mutex, attempts, conn, prepared, commands, dispatch, told, ota,
                 events, http, fault>>

\* prvRunOTADemo: OTA_Init, the task of the OTA agent, its first event.
RunOTADemo ==
  /\ Running /\ demo = "init"
  /\ \/ ota' = [ota EXCEPT !.state = "init", !.task = TRUE] /\ To("poll") /\ UNCHANGED status
     \/ /\ \E s \in {"init", "stopped"} : ota' = [ota EXCEPT !.state = s]
        /\ To("unregister") /\ status' = FALSE
  /\ UNCHANGED <<kind, inited, mutex, agent, attempts, conn, prepared, commands, dispatch, told,
                 events, http, fault>>

\* It looks at the OTA agent's state until that has stopped.
OtaStopped ==
  /\ Running /\ demo = "poll" /\ ota.state = "stopped"
  /\ To("unregister")
  /\ UNCHANGED <<kind, status, inited, mutex, agent, attempts, conn, prepared, commands,
                 dispatch, told, ota, events, http, fault>>

UnregisterDefault ==
  /\ Running /\ demo = "unregister"
  /\ list' = RemoveSubscription(list, "default")
  /\ To(IF inited THEN "disconnect" ELSE "delete")
  /\ UNCHANGED <<kind, status, inited, mutex, agent, attempts, conn, prepared, commands,
                 acked, passed, told, ota, events, http, fault>>

\* prvDisconnectFromMQTTBroker
DisconnectFromMQTTBroker ==
  /\ Running /\ demo = "disconnect"
  /\ SendCommand(Command("disconnect", "none", "demo")) /\ To("await")
  /\ UNCHANGED <<kind, status, inited, mutex, agent, attempts, conn, prepared, dispatch, told,
                 ota, events, http>>

WaitsAgain == Running /\ demo = "await" /\ UNCHANGED vars

\* Its wait of xTaskNotifyWait is over without an answer.
DisconnectTimesOut ==
  /\ Running /\ demo = "await"
  /\ Forgotten("demo") /\ To("closeMqtt")
  /\ UNCHANGED <<kind, status, inited, mutex, agent, attempts, conn, prepared, dispatch, told,
                 ota, events, http, fault>>

DemoCloses ==
  /\ Running /\ demo = "closeMqtt"
  /\ CloseTcp /\ To("closeHttp")
  /\ UNCHANGED <<kind, status, inited, mutex, agent, attempts, prepared, commands, dispatch,
                 told, ota, events, http>>

\* Where prvHttpInit was never called there is no network context to close; where it was
\* but never connected, its handle is still zero, which SOCKETS_Shutdown and SOCKETS_Close
\* refuse. Neither closes anything.
CloseHttp ==
  /\ Running /\ demo = "closeHttp" /\ To("delete")
  /\ IF http.sock = "none" THEN UNCHANGED <<http, fault>>
     ELSE /\ fault' = IF http.sock = "open" THEN fault ELSE "closed"
          /\ http' = [http EXCEPT !.sock = "stale"]
  /\ UNCHANGED <<kind, status, inited, mutex, agent, attempts, conn, prepared, commands,
                 dispatch, told, ota, events>>

DeleteMutex ==
  /\ Running /\ demo = "delete"
  /\ mutex' = IF mutex = "alive" THEN "deleted" ELSE mutex
  /\ To("done")
  /\ UNCHANGED <<kind, status, inited, agent, attempts, conn, prepared, commands, dispatch,
                 told, ota, events, http, fault>>

-----------------------------------------------------------------------------
DemoTask ==
  \/ DemoStarts \/ DemoConnects \/ ConnectToMQTTBroker \/ RegisterDefault \/ CreateAgentTask
  \/ RunOTADemo \/ OtaStopped \/ UnregisterDefault \/ DisconnectFromMQTTBroker
  \/ DisconnectTimesOut \/ DemoCloses \/ CloseHttp \/ DeleteMutex

MQTTAgentTask ==
  \/ IncomingPublish \/ TakeCommand \/ Acknowledge \/ StoreStatus \/ NotifyTask
  \/ TakeDisconnect \/ LoopFails \/ CancelAll
  \/ SuspendOTA \/ SuspendSeen \/ SuspendTimesOut \/ AgentCloses \/ AgentConnects
  \/ AgentReconnects \/ ResumeOTA \/ ResumeSeen

OTAAgentTask ==
  \/ OtaStarts \/ OtaSuspends \/ OtaResumes \/ OtaShutsDown \/ AppCallback
  \/ MqttSubscribe \/ MqttPublish \/ MqttUnsubscribe \/ OtaNotified \/ OtaTimesOut
  \/ HttpInit \/ HttpRequest

\* The demo has returned, or something has failed.
Rest == (demo = "done" \/ fault # "none") /\ UNCHANGED vars

Next == DemoTask \/ MQTTAgentTask \/ OTAAgentTask \/ LinkLost \/ Rest

\* The three tasks are scheduled, whatever the network does.
Spec ==
  /\ Init /\ [][Next]_vars
  /\ WF_vars(DemoTask) /\ WF_vars(MQTTAgentTask) /\ WF_vars(OTAAgentTask)

-----------------------------------------------------------------------------
TypeOK ==
  /\ kind \in Kinds /\ agent \in {"none", "loop", "report", "notify", "cancel",
       "cancelLast", "suspend", "awaitSuspend", "close", "connect", "mqttConnect", "resume",
       "awaitResume", "gone"}
  /\ {status, inited, session, prepared} \subseteq BOOLEAN
  /\ mutex \in {"none", "alive", "deleted"} /\ tcp \in {"none", "open", "stale"}
  /\ attempts \in 0..RetryMax /\ losses \in 0..MaxLosses /\ free \in 0..PoolSize
  /\ list \subseteq Filters \X {"job", "data", "default"} /\ Cardinality(list) <= MaxSubs
  /\ acked \in Nat /\ told \subseteq Filters
  /\ ota.state \in {"stopped", "init", "ready", "suspended"}
  /\ Range(events) \subseteq {"suspend", "resume", "shutdown"}
  /\ http.flag \in BOOLEAN /\ http.sock \in {"none", "open", "stale"}
  /\ fault \in {"none", "assert", "frame", "closed", "mutex"}

\* A command structure is in the pool, in the queue, awaiting its acknowledgment, or
\* was in the queue when prvMqttAgentInit made that anew: the loop, MQTTAgent_CancelAll
\* and the callbacks lose none.
CommandsAccounted == free + Len(queue) + Cardinality(pending) + lost = PoolSize

\* What the OTA agent was told is subscribed is passed on to it, as long as its
\* subscription was not given up, and once, although a topic may match several filters:
\* the callback registers before it reports, and what was cancelled, timed out or lost
\* is not reported.
DispatchedOnce ==
  /\ fault = "none" /\ ota.op # "leave" /\ ota.state # "stopped" =>
       \A f \in told : \E s \in list : s[1] = f
  /\ passed <= 1

\* While the connection is closed and made again, the OTA agent does not work on a
\* download: it is suspended, has stopped, or is leaving. (prvMQTTAgentTask)
QuietWhileReconnecting ==
  agent \in {"close", "connect", "mqttConnect", "resume"} /\ fault = "none" =>
    ota.state \in {"suspended", "stopped"} \/ ota.op = "leave"

\* xHttpConnectionStatus says whether the HTTP socket is open, whatever connection has
\* failed, so that prvHttpInit overwrites no open one; and once the demo has disconnected
\* at its end, however it got there, none is open. Until the socket is closed twice or
\* used when closed, which the code does after a reconnection has failed: that is
\* fault = "closed". (prvHttpInit, prvHttpRequest, RunOtaCoreHttpDemo)
HttpSocketAccounted ==
  fault = "none" => IF demo \in {"delete", "done"}
                    THEN http.sock # "open"
                    ELSE http.flag <=> http.sock = "open"

\* Once the OTA agent has stopped, the demo returns, whatever the MQTT agent's task does.
DemoReturns == (demo = "unregister") ~> (demo = "done" \/ fault # "none")
=============================================================================
