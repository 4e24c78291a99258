----------------------------- MODULE MqttDemos -----------------------------
(***************************************************************************)
(* The MQTT demos: mutual authentication, device shadow, jobs and device   *)
(* defender. The last three share mqtt_demo_helpers.c; the first has its   *)
(* own copies. One of them runs, as the demo runner would start it, in one *)
(* task: a sequence of steps, most of them skipped once one has failed,    *)
(* tried again as a whole some times. Every helper that waits runs the     *)
(* MQTT process loop, whose callback handles whatever comes; the jobs      *)
(* demo publishes from within that callback, and so runs the loop inside   *)
(* the loop.                                                               *)
(*                                                                         *)
(* The broker is modelled by what it may still deliver (owed), in any      *)
(* order or never; the connection may be lost. coreMQTT and the device     *)
(* services are external.                                                  *)
(***************************************************************************)
EXTENDS Integers, Sequences, FiniteSets, DefenderReport

CONSTANTS
  Demos,        \* the demos that may be started
  MaxRuns,      \* *_MAX_DEMO_COUNT and DEFENDER_DEMO_MAX_ATTEMPTS
  RetryMax,     \* attempts of a backoff
  Slots,        \* MAX_OUTGOING_PUBLISHES
  Echoes,       \* ulMaxPublishCount of the mutual authentication demo
  Jobs,         \* bound: jobs the service offers, numbered in that order
  Actions,      \* what their documents ask for
  MaxNested,    \* bound: callbacks within callbacks
  MaxLosses     \* bound: losses of the connection

ASSUME DemosAssumption ==
  /\ Demos \subseteq {"mutual", "shadow", "jobs", "defender"}
  /\ MaxRuns \in Nat \ {0}
  /\ {RetryMax, Slots, Echoes, Jobs, MaxNested, MaxLosses} \subseteq Nat
  /\ Actions \subseteq {"none", "exit", "print", "publish", "unknown"}

VARIABLES
  demo,        \* which one
  runs,        \* run count
  at, phase,   \* the step of the demo and how far it has got
  status,      \* xDemoStatus
  result,      \* what the demo returned
  tcp,         \* tcpSocket: "none", "open", or "stale" once it has been closed
  lost,        \* an open socket was forgotten
  link,        \* the connection: "down", "up" or "broken"
  session,     \* mqttSessionEstablished of the helpers, never reset
  connected,   \* the demo's own note that there is something to disconnect
  fault,       \* an assertion failed or a closed socket was used
  attempts,    \* xRetryParams
  nextId,      \* the next packet identifier
  ackId,       \* the identifier the next acknowledgment is compared with
  packetType,  \* globalPacketTypeReceived
  subAck,      \* xSubAckStatus
  slots,       \* outgoingPublishPackets
  owed,        \* what the broker may still deliver
  losses,      \* losses of the connection so far
  stack,       \* jobs: the handlers that are running, the outermost first
  notes        \* the globals of the demo that is running

connection == <<tcp, lost, link, session, connected, losses>>
exchange   == <<attempts, nextId, ackId, packetType, subAck, slots, owed>>
place      == <<at, phase, status>>
vars == <<demo, runs, place, result, connection, fault, exchange, stack, notes>>

None == 0
Slot == 1..Slots

\* The globals of each demo, as they start.
Notes(d) ==
  CASE d = "shadow" ->
         [deleted |-> FALSE, seen |-> FALSE, version |-> 0, power |-> 0,
          changed |-> FALSE, parsed |-> TRUE, answers |-> {}]
    [] d = "jobs" ->
         [exit |-> FALSE, error |-> FALSE, retry |-> FALSE, buffer |-> None, action |-> "none",
          offered |-> 0, mixed |-> FALSE]
    [] d = "defender" ->
         [response |-> "none", id |-> 1, tries |-> 0, metrics |-> {},
          length |-> TooSmall, answered |-> None]
    [] d = "mutual" ->
         [published |-> 0, echoed |-> 0, granted |-> FALSE, rejected |-> FALSE,
          successes |-> 0]

\* The steps of each demo, in order.
Script ==
  [mutual |-> <<"connect", "mqttConnect", "mutualSubscribe", "echo",
                "mutualUnsubscribe", "mutualDisconnect", "end">>,
   shadow |-> <<"establish", "subscribe", "subscribe", "delete", "awaitDelete",
                "unsubscribe", "unsubscribe", "checkDeleted",
                "subscribe", "subscribe", "subscribe", "desired", "reported",
                "unsubscribe", "unsubscribe", "unsubscribe", "disconnect", "end">>,
   jobs |-> <<"establish", "subscribe", "describe", "work", "count",
              "unsubscribe", "disconnect", "end">>,
   defender |-> <<"establish", "subscribe", "subscribe", "report", "awaitReport",
                  "checkReport", "unsubscribeFirst", "unsubscribe", "disconnect", "end">>]

\* Those that are not skipped after a failure.
Always ==
  [mutual |-> {"mutualDisconnect", "end"},
   shadow |-> {"checkDeleted", "disconnect", "end"},
   jobs |-> {"count", "unsubscribe", "disconnect", "end"},
   defender |-> {"checkReport", "unsubscribeFirst", "disconnect", "end"}]

Op == Script[demo][at]
Running == fault = "none" /\ result = "none"
Ready(op) ==
  /\ Running /\ phase = "run" /\ Op = op
  /\ status \/ op \in Always[demo]

\* On to the next step of the demo.
Proceed(ok) == at' = at + 1 /\ phase' = "run" /\ status' = ok

Skip ==
  /\ Running /\ phase = "run" /\ ~status /\ Op \notin Always[demo]
  /\ Proceed(FALSE)
  /\ UNCHANGED <<demo, runs, result, connection, fault, exchange, stack, notes>>

Init ==
  /\ demo \in Demos /\ runs = 0
  /\ at = 1 /\ phase = "run" /\ status = TRUE /\ result = "none"
  /\ tcp = "none" /\ lost = FALSE /\ link = "down" /\ session = FALSE
  /\ connected = FALSE /\ losses = 0 /\ fault = "none"
  /\ attempts = 0 /\ nextId = 1 /\ ackId = [sub |-> None, unsub |-> None, pub |-> None]
  /\ packetType = "none" /\ subAck = FALSE
  /\ slots = [s \in Slot |-> None] /\ owed = {} /\ stack = <<>>
  /\ notes = Notes(demo)

-----------------------------------------------------------------------------
(* The connection.                                                         *)

\* prvBackoffForRetry: there is another attempt, or there are no more (nor, when
\* there is no random number, is there a delay).
BackoffForRetry(again, stop) ==
  \/ attempts < RetryMax /\ attempts' = attempts + 1 /\ again
  \/ attempts' = 0 /\ stop

\* SecureSocketsTransport_Connect has succeeded: the handle replaces what was there.
SocketOpened ==
  /\ tcp' = "open" /\ lost' = (lost \/ tcp = "open")
  /\ link' = "up"

\* EstablishMqttSession has failed. The shadow demo then has nothing else to do.
EstablishFails ==
  /\ IF demo = "shadow"
     THEN at' = Len(Script.shadow) /\ phase' = "run" /\ status' = FALSE
     ELSE Proceed(FALSE)
  /\ connected' = IF demo = "shadow" THEN FALSE ELSE connected

\* prvConnectToServerWithBackoffRetries of the helpers.
ConnectToServer ==
  /\ Ready("establish")
  /\ \/ SocketOpened /\ phase' = "mqtt" /\ attempts' = 0
        /\ UNCHANGED <<at, status, connected>>
     \/ /\ BackoffForRetry(UNCHANGED <<place, connected>>, EstablishFails)
        /\ UNCHANGED <<tcp, lost, link>>
  /\ UNCHANGED <<demo, runs, result, session, losses, fault, nextId, ackId, packetType,
                 subAck, slots, owed, stack, notes>>

Note(field, v) == notes' = [notes EXCEPT ![field] = v]

\* What the shadow demo does once it has a session: no response yet, and nothing
\* deleted.
StartsDeletion == [notes EXCEPT !.seen = FALSE, !.deleted = FALSE, !.answers = {}]

\* What outlives the connection.
ForLater == {p \in owed : p.type = "PUBLISH"}

\* A new session: packet identifiers start again, what was to be acknowledged is
\* forgotten by the broker; what a service publishes may still come.
NewSession ==
  /\ nextId' = 1
  /\ owed' = ForLater

\* EstablishMqttSession, from MQTT_Init on. The session is a clean one, so that
\* the broker never has an older one and the outgoing publishes are forgotten.
EstablishMqttSession ==
  /\ Running /\ phase = "mqtt" /\ Op = "establish"
  /\ \/ /\ link = "up" /\ session' = TRUE /\ connected' = TRUE
        /\ NewSession
        /\ slots' = [s \in Slot |-> None]
        /\ Proceed(TRUE)
        /\ notes' = IF demo = "shadow" THEN StartsDeletion ELSE notes
        /\ UNCHANGED link
     \/ /\ link' = "broken" /\ EstablishFails
        /\ UNCHANGED <<session, nextId, owed, slots, notes>>
  /\ UNCHANGED <<demo, runs, result, tcp, lost, losses, fault, attempts, ackId,
                 packetType, subAck, stack>>

\* SecureSocketsTransport_Disconnect, which leaves the handle as it is. Without one it
\* fails; with one that is closed already it shuts down and closes what was freed.
CloseSocket ==
  /\ fault' = IF tcp = "stale" THEN "reclosed" ELSE fault
  /\ tcp' = IF tcp = "open" THEN "stale" ELSE tcp
  /\ link' = "down"

\* DisconnectMqttSession of the helpers. MQTT_Disconnect is left out when there
\* never was a session, and fails when the connection is broken.
DisconnectMqttSession ==
  /\ Ready("disconnect")
  /\ IF demo = "defender" /\ ~connected
     THEN Proceed(status) /\ UNCHANGED <<tcp, link, fault>>
     ELSE LET ok == link = "up" \/ (~session /\ tcp = "open") IN
          /\ CloseSocket
          /\ Proceed(CASE demo = "shadow" -> ok
                       [] demo = "jobs" -> status /\ ok
                       [] demo = "defender" -> status)
  /\ UNCHANGED <<demo, runs, result, lost, session, connected, losses, exchange, stack, notes>>

\* The network: the connection breaks while it is used.
LinkLost ==
  /\ Running /\ link = "up" /\ losses < MaxLosses
  /\ link' = "broken" /\ losses' = losses + 1
  /\ owed' = ForLater
  /\ UNCHANGED <<demo, runs, place, result, tcp, lost, session, connected, fault, attempts,
                 nextId, ackId, packetType, subAck, slots, stack, notes>>

-----------------------------------------------------------------------------
(* Requests.                                                               *)

Publishing == {"delete", "desired", "reported", "describe", "report"}

\* The demo's own loop has found what it waits for.
Satisfied ==
  \/ Op \in {"subscribe", "mutualSubscribe"} /\ packetType = "SUBACK"
  \/ Op \in {"unsubscribe", "unsubscribeFirst", "mutualUnsubscribe"} /\ packetType = "UNSUBACK"
  \/ Op = "echo" /\ packetType = "PUBLISH"
  \/ Op = "awaitDelete" /\ notes.seen

InLoop ==
  /\ Running
  /\ IF stack = <<>> THEN phase = "wait" /\ ~Satisfied ELSE stack[Len(stack)].wait

\* The innermost loop is the demo's own, at the given steps; and it is over.
LoopOf(ops) == InLoop /\ stack = <<>> /\ Op \in ops
WaitOver(ops) == Running /\ stack = <<>> /\ phase = "wait" /\ Op \in ops /\ Satisfied

Packet(t, id) == [type |-> t, id |-> id, n |-> attempts]
Message(m, n) == [type |-> "PUBLISH", what |-> m, n |-> n]

\* SubscribeToTopic: the identifier is taken once for all attempts, and with it
\* xTopicFilterContext is set to a failure.
SubscribeToTopic ==
  /\ Ready("subscribe")
  /\ LET id == IF attempts = 0 THEN nextId ELSE ackId.sub IN
     /\ nextId' = IF attempts = 0 THEN nextId + 1 ELSE nextId
     /\ ackId' = [ackId EXCEPT !.sub = id]
     /\ subAck' = (attempts # 0 /\ subAck)
     /\ IF link = "up"
        THEN /\ phase' = "wait" /\ packetType' = "none"
             /\ owed' = owed \cup {Packet("SUBACK", id)}
             /\ UNCHANGED <<at, status, attempts>>
        ELSE Proceed(FALSE) /\ attempts' = 0 /\ UNCHANGED <<packetType, owed>>
  /\ UNCHANGED <<demo, runs, result, connection, fault, slots, stack, notes>>

\* prvWaitForPacket found what SubscribeToTopic waits for; a refusal is tried again.
Subscribed ==
  /\ WaitOver({"subscribe"})
  /\ IF subAck
     THEN Proceed(TRUE) /\ attempts' = 0
     ELSE BackoffForRetry(phase' = "run" /\ UNCHANGED <<at, status>>, Proceed(FALSE))
  /\ UNCHANGED <<demo, runs, result, connection, fault, nextId, ackId, packetType, subAck,
                 slots, owed, stack, notes>>

\* Unsubscribing is skipped by the defender demo when it has no session.
NothingToUnsubscribe ==
  /\ Ready("unsubscribeFirst") /\ ~connected
  /\ at' = at + 2 /\ UNCHANGED <<phase, status>>
  /\ UNCHANGED <<demo, runs, result, connection, fault, exchange, stack, notes>>

\* UnsubscribeFromTopic. The jobs demo calls it after a failure, too.
UnsubscribeFromTopic ==
  /\ Ready("unsubscribe") \/ (Ready("unsubscribeFirst") /\ connected)
  /\ nextId' = nextId + 1
  /\ ackId' = [ackId EXCEPT !.unsub = nextId]
  /\ IF link = "up"
     THEN /\ phase' = "wait" /\ packetType' = "none"
          /\ owed' = owed \cup {Packet("UNSUBACK", nextId)}
          /\ UNCHANGED <<at, status>>
     ELSE Proceed(FALSE) /\ UNCHANGED <<packetType, owed>>
  /\ UNCHANGED <<demo, runs, result, connection, fault, attempts, subAck, slots, stack, notes>>

\* The jobs demo's status stays failed.
Unsubscribed ==
  /\ WaitOver({"unsubscribe", "unsubscribeFirst"})
  /\ Proceed(demo = "jobs" => status)
  /\ UNCHANGED <<demo, runs, result, connection, fault, exchange, stack, notes>>

\* prvGetNextFreeIndexForOutgoingPublishes
FreeSlots == {s \in Slot : slots[s] = None}
NextFree == CHOOSE s \in FreeSlots : \A t \in FreeSlots : s <= t

\* PublishToTopic as far as the process loop, or its failure: no slot, or a
\* MQTT_Publish that fails and gives the slot back.
Published(responses) ==
  /\ FreeSlots # {} /\ link = "up"
  /\ slots' = [slots EXCEPT ![NextFree] = nextId]
  /\ nextId' = nextId + 1
  /\ owed' = owed \cup {Packet("PUBACK", nextId)} \cup responses

NotPublished ==
  /\ FreeSlots = {} \/ link # "up"
  /\ nextId' = IF FreeSlots = {} THEN nextId ELSE nextId + 1
  /\ UNCHANGED <<slots, owed>>

\* PublishToTopic called by a demo.
PublishToTopic(responses) ==
  /\ \/ Published(responses) /\ phase' = "wait" /\ UNCHANGED <<at, status>>
     \/ NotPublished /\ Proceed(FALSE)
  /\ UNCHANGED <<demo, runs, result, connection, fault, attempts, ackId, packetType, subAck,
                 stack>>

-----------------------------------------------------------------------------
(* The process loop, which is what all waiting consists of.                *)

\* vCleanupOutgoingPublishWithPacketID
CleanupOutgoingPublish(id) ==
  slots' = [s \in Slot |-> IF slots[s] = id THEN None ELSE slots[s]]

Checked(ok) == fault' = IF ok THEN fault ELSE "assert"

\* vHandleOtherIncomingPacket
HandleOtherIncomingPacket(p) ==
  \/ /\ p.type = "SUBACK"
     /\ packetType' = "SUBACK" /\ subAck' \in BOOLEAN
     /\ Checked(p.id = ackId.sub)
     /\ UNCHANGED slots
  \/ /\ p.type = "UNSUBACK"
     /\ packetType' = "UNSUBACK"
     /\ Checked(p.id = ackId.unsub)
     /\ UNCHANGED <<subAck, slots>>
  \/ /\ p.type = "PUBACK"
     /\ CleanupOutgoingPublish(p.id)
     /\ UNCHANGED <<packetType, subAck, fault>>

\* An acknowledgment is delivered by MQTT_ProcessLoop.
ReceiveAck ==
  /\ InLoop /\ link = "up" /\ demo # "mutual"
  /\ \E p \in owed :
       /\ p.type # "PUBLISH"
       /\ HandleOtherIncomingPacket(p)
       /\ owed' = owed \ {p}
  /\ UNCHANGED <<demo, runs, place, result, connection, attempts, nextId, ackId, stack, notes>>

\* The loop's time is over. Only the jobs demo's own loop goes on, unless that
\* finds it in the middle of a packet.
LoopTimedOut ==
  /\ \/ LoopOf(Publishing) /\ Proceed(TRUE) /\ UNCHANGED stack
     \/ /\ LoopOf({"subscribe", "unsubscribe", "unsubscribeFirst"})
        /\ Proceed(FALSE) /\ UNCHANGED stack
     \/ LoopOf({"awaitDelete"}) /\ Proceed(FALSE) /\ UNCHANGED stack
     \/ LoopOf({"work"}) /\ Proceed(FALSE) /\ UNCHANGED stack
     \/ /\ InLoop /\ stack # <<>>
        /\ stack' = [stack EXCEPT ![Len(stack)].wait = FALSE]
        /\ UNCHANGED place
  /\ attempts' = 0
  /\ UNCHANGED <<demo, runs, result, connection, fault, nextId, ackId, packetType, subAck,
                 slots, owed, notes>>

\* MQTT_ProcessLoop fails, for the connection is broken.
LoopFailed ==
  /\ InLoop /\ link = "broken" /\ demo # "mutual"
  /\ IF stack = <<>>
     THEN Op # "awaitReport" /\ Proceed(FALSE) /\ UNCHANGED <<stack, notes>>
     ELSE /\ stack' = [stack EXCEPT ![Len(stack)].wait = FALSE]
          /\ notes' = [notes EXCEPT !.error = TRUE]
          /\ UNCHANGED place
  /\ attempts' = 0
  /\ UNCHANGED <<demo, runs, result, connection, fault, nextId, ackId, packetType, subAck,
                 slots, owed>>

-----------------------------------------------------------------------------
(* The device shadow demo.                                                 *)

\* The service answers once that the shadow is deleted, that there is none (404),
\* or that it is not.
DeleteShadow ==
  /\ Ready("delete")
  /\ \E answer \in {"accepted", "notFound", "rejected"} :
       PublishToTopic({Message(answer, 0)})
  /\ UNCHANGED notes

\* prvWaitForDeleteResponse is entered only without a response.
AwaitDelete ==
  /\ Ready("awaitDelete")
  /\ IF notes.seen THEN Proceed(TRUE) ELSE phase' = "wait" /\ UNCHANGED <<at, status>>
  /\ UNCHANGED <<demo, runs, result, connection, fault, exchange, stack, notes>>

DeleteAnswered ==
  /\ WaitOver({"awaitDelete"})
  /\ Proceed(TRUE)
  /\ UNCHANGED <<demo, runs, result, connection, fault, exchange, stack, notes>>

CheckDeleted ==
  /\ Ready("checkDeleted")
  /\ Proceed(status /\ notes.deleted)
  /\ UNCHANGED <<demo, runs, result, connection, fault, exchange, stack, notes>>

\* The desired state is powerOn 1. The service announces a difference, perhaps
\* twice (QoS 1), with a version that grows; what it sends may not parse.
UpdateDesired ==
  /\ Ready("desired")
  /\ \E responses \in {{Message("delta", 1), Message("delta", 2), Message("updated", 0)},
                       {Message("badDelta", 0)}, {Message("badUpdated", 0)}} :
       PublishToTopic(responses)
  /\ UNCHANGED notes

\* The reported state follows only when a delta has changed it, in this run or an
\* earlier one.
UpdateReported ==
  /\ Ready("reported")
  /\ IF notes.changed
     THEN PublishToTopic({Message("updated", 0)})
     ELSE /\ Proceed(TRUE)
          /\ UNCHANGED <<demo, runs, result, connection, fault, exchange, stack>>
  /\ UNCHANGED notes

\* prvUpdateDeltaHandler. What the last search found is taken for the new state:
\* powerOn, or the version itself when that is not newer.
DeltaVersion == runs + 2
UpdateDelta(parses) ==
  LET newer == parses /\ DeltaVersion > notes.version
      state == IF newer THEN 1 ELSE DeltaVersion
  IN  notes' = [notes EXCEPT
        !.version = IF newer THEN DeltaVersion ELSE @,
        !.parsed  = @ /\ parses,
        !.power   = IF parses THEN state ELSE @,
        !.changed = @ \/ (parses /\ state # notes.power)]

\* prvUpdateAcceptedHandler looks for the client token; which one matters only for
\* what is logged.
UpdateAccepted(parses) == notes' = [notes EXCEPT !.parsed = @ /\ parses]

\* prvDeleteRejectedHandler
DeleteRejected(notFound) ==
  notes' = [notes EXCEPT !.deleted = @ \/ notFound, !.seen = TRUE,
                         !.answers = @ \cup {IF notFound THEN "notFound" ELSE "rejected"}]

\* prvEventCallback of the shadow demo.
ShadowCallback(p) ==
  CASE p.what = "accepted"   -> notes' = [notes EXCEPT !.deleted = TRUE, !.seen = TRUE,
                                                  !.answers = @ \cup {"accepted"}]
    [] p.what = "notFound"   -> DeleteRejected(TRUE)
    [] p.what = "rejected"   -> DeleteRejected(FALSE)
    [] p.what = "delta"      -> UpdateDelta(TRUE)
    [] p.what = "badDelta"   -> UpdateDelta(FALSE)
    [] p.what = "updated"    -> UpdateAccepted(TRUE)
    [] p.what = "badUpdated" -> UpdateAccepted(FALSE)

-----------------------------------------------------------------------------
(* The jobs demo.                                                          *)

\* The service offers its jobs one after the other, when asked or because the next
\* one has changed.
OfferJob ==
  /\ InLoop /\ demo = "jobs" /\ link = "up" /\ notes.offered < Jobs
  /\ owed' = owed \cup {Message("next", notes.offered + 1)}
  /\ Note("offered", notes.offered + 1)
  /\ UNCHANGED <<demo, runs, place, result, connection, fault, attempts, nextId, ackId,
                 packetType, subAck, slots, stack>>

DescribeNextJob ==
  /\ Ready("describe")
  /\ PublishToTopic({})
  /\ UNCHANGED notes

\* The loop of RunJobsDemo until a job says exit or something has failed.
WorkDone == notes.exit \/ notes.error
Work ==
  /\ Ready("work")
  /\ IF WorkDone THEN Proceed(TRUE) ELSE phase' = "wait" /\ UNCHANGED <<at, status>>
  /\ UNCHANGED <<demo, runs, result, connection, fault, exchange, stack, notes>>

WorkEnds ==
  /\ LoopOf({"work"}) /\ WorkDone
  /\ Proceed(TRUE)
  /\ UNCHANGED <<demo, runs, result, connection, fault, exchange, stack, notes>>

\* prvNextJobHandler: the identifier and the document go to the static buffers, and
\* prvProcessJobDocument begins.
NextJobHandler(p) ==
  /\ \E a \in Actions : notes' = [notes EXCEPT !.buffer = p.n, !.action = a]
  /\ stack' = Append(stack, [job |-> p.n, step |-> "begin", wait |-> FALSE])

\* prvEventCallback of the jobs demo.
JobsCallback(p) ==
  \/ p.what = "next" /\ Len(stack) < MaxNested /\ NextJobHandler(p)
  \/ p.what = "updateFailed" /\ Note("error", TRUE) /\ UNCHANGED stack

Top == stack[Len(stack)]
GoOn(step, waits) ==
  stack' = [stack EXCEPT ![Len(stack)].step = step, ![Len(stack)].wait = waits]

\* prvSendUpdateForJob: PublishToTopic with the identifier that is in the buffer.
SendUpdateForJob(next, exits) ==
  \/ /\ \E responses \in {{}, {Message("updateFailed", 0)}} : Published(responses)
     /\ notes' = [notes EXCEPT !.mixed = @ \/ notes.buffer # Top.job, !.exit = @ \/ exits]
     /\ GoOn(next, TRUE)
  \/ /\ NotPublished
     /\ notes' = [notes EXCEPT !.error = TRUE, !.exit = @ \/ exits]
     /\ GoOn(next, FALSE)

\* The job's own publish; that it failed is noted, and success reported.
PublishForJob ==
  \/ Published({}) /\ GoOn("report", TRUE) /\ UNCHANGED notes
  \/ NotPublished /\ GoOn("report", FALSE) /\ Note("error", TRUE)

\* prvGetAction, of what is in the document buffer by now.
GetAction == IF notes.buffer = Top.job THEN {notes.action} ELSE Actions

\* What follows the report that a job is in progress: the action and the report of
\* its success, or of a document that lacks what the action needs. A job with an
\* unknown action is never reported on again.
Act(action) ==
  \/ action = "exit" /\ SendUpdateForJob("return", TRUE)
  \/ action = "print" /\ SendUpdateForJob("return", FALSE)
  \/ action = "publish" /\ (PublishForJob \/ SendUpdateForJob("return", FALSE))
  \/ /\ action \in {"unknown", "none"}
     /\ GoOn("return", FALSE) /\ UNCHANGED <<slots, nextId, owed, notes>>

\* prvProcessJobDocument, from one publish to the next; at its end the callback
\* returns to the loop that called it.
ProcessJobDocument ==
  /\ Running /\ stack # <<>> /\ ~Top.wait
  /\ \/ /\ Top.step = "begin"
        /\ IF notes.action = "none"
           THEN SendUpdateForJob("return", FALSE)
           ELSE SendUpdateForJob("act", FALSE)
     \/ Top.step = "act" /\ \E a \in GetAction : Act(a)
     \/ Top.step = "report" /\ SendUpdateForJob("return", FALSE)
     \/ /\ Top.step = "return"
        /\ stack' = SubSeq(stack, 1, Len(stack) - 1)
        /\ UNCHANGED <<slots, nextId, owed, notes>>
  /\ UNCHANGED <<demo, runs, place, result, connection, fault, attempts, ackId, packetType,
                 subAck>>

\* Whether to try again is decided before the demo unsubscribes and disconnects.
CountRun ==
  /\ Ready("count")
  /\ at' = at + 1 /\ UNCHANGED <<phase, status>>
  /\ runs' = runs + 1
  /\ notes' = [notes EXCEPT !.retry = (~status \/ notes.error) /\ runs + 1 < MaxRuns]
  /\ UNCHANGED <<demo, result, connection, fault, exchange, stack>>

JobsRunEnds ==
  /\ Ready("end") /\ demo = "jobs"
  /\ IF notes.retry
     THEN /\ at' = 1 /\ status' = TRUE /\ Note("error", FALSE) /\ UNCHANGED result
     ELSE /\ result' = IF status /\ ~notes.error THEN "success" ELSE "failure"
          /\ UNCHANGED <<at, status, notes>>
  /\ UNCHANGED <<demo, runs, phase, connection, fault, exchange, stack>>

-----------------------------------------------------------------------------
(* The device defender demo.                                               *)

\* collectDeviceMetrics: the metrics, or nothing when anything fails; the array of
\* tasks is then freed again.
CollectDeviceMetrics == {{}} \cup {{m} : m \in Metrics}

\* generateDeviceMetricsReport, after which the array is freed.
GenerateDeviceMetricsReport(metrics) ==
  IF metrics = {} THEN TooSmall ELSE GenerateJsonReport(CHOOSE m \in metrics : TRUE)

\* The report is published when it could be made.
SendReport ==
  /\ Ready("report")
  /\ \E m \in CollectDeviceMetrics :
       LET length == GenerateDeviceMetricsReport(m) IN
       /\ notes' = [notes EXCEPT !.metrics = m, !.length = length]
       /\ IF length = TooSmall
          THEN /\ Proceed(FALSE)
               /\ UNCHANGED <<demo, runs, result, connection, fault, exchange, stack>>
          ELSE \E verdict \in {"accepted", "rejected"} :
                 PublishToTopic({Message(verdict, notes.id)})

AwaitReportUncounted ==
  /\ Ready("awaitReport")
  /\ IF notes.response # "none"
     THEN Proceed(TRUE)
     ELSE phase' = "wait" /\ UNCHANGED <<at, status>>
  /\ UNCHANGED <<demo, runs, result, connection, fault, exchange, stack, notes>>

\* The demo looks for the response once a second, whatever the process loop says.
AwaitReport ==
  /\ Ready("awaitReport")
  /\ IF notes.response # "none" \/ notes.tries = 2
     THEN Proceed(TRUE) /\ UNCHANGED notes
     ELSE /\ phase' = "wait" /\ UNCHANGED <<at, status>>
          /\ notes' = [notes EXCEPT !.tries = @ + 1, !.metrics = {}, !.length = TooSmall]
  /\ UNCHANGED <<demo, runs, result, connection, fault, exchange, stack>>

SecondOver ==
  /\ LoopOf({"awaitReport"})
  /\ phase' = "run" /\ UNCHANGED <<at, status>>
  /\ UNCHANGED <<demo, runs, result, connection, fault, exchange, stack, notes>>

CheckReport ==
  /\ Ready("checkReport")
  /\ Proceed(status /\ notes.response # "none")
  /\ UNCHANGED <<demo, runs, result, connection, fault, exchange, stack, notes>>

\* validateDefenderResponse: of this report, and not of an earlier one.
AnyResponse(p) == TRUE

ValidateDefenderResponse(p) == p.n = notes.id

\* publishCallback of the defender demo.
DefenderCallback(p) ==
  IF ValidateDefenderResponse(p)
  THEN notes' = [notes EXCEPT !.response = p.what, !.answered = p.n]
  ELSE UNCHANGED notes

ForgetsToReset ==
  /\ Ready("end") /\ demo = "defender"
  /\ runs' = runs + 1
  /\ LET good == status /\ notes.response = "accepted" IN
     IF good \/ runs + 1 = MaxRuns
     THEN /\ result' = IF good THEN "success" ELSE "failure"
          /\ UNCHANGED <<place, connected, notes>>
     ELSE /\ at' = 1 /\ status' = TRUE /\ UNCHANGED <<result, phase, connected>>
          /\ notes' = [Notes("defender") EXCEPT !.id = runs + 2]
  /\ UNCHANGED <<demo, tcp, lost, link, session, losses, fault, exchange, stack>>

\* The end of a run of RunDeviceDefenderDemo, with the start of the next one:
\* no session, no response, another identifier.
DefenderRunEnds ==
  /\ Ready("end") /\ demo = "defender"
  /\ runs' = runs + 1
  /\ LET good == status /\ notes.response = "accepted" IN
     IF good \/ runs + 1 = MaxRuns
     THEN /\ result' = IF good THEN "success" ELSE "failure"
          /\ UNCHANGED <<place, connected, notes>>
     ELSE /\ at' = 1 /\ status' = TRUE /\ connected' = FALSE /\ UNCHANGED <<result, phase>>
          /\ notes' = [Notes("defender") EXCEPT !.id = runs + 2]
  /\ UNCHANGED <<demo, tcp, lost, link, session, losses, fault, exchange, stack>>

\* The end of a run of RunDeviceShadowDemo. A handler that could not parse what it
\* got fails this run and all that follow.
ShadowRunEnds ==
  /\ Ready("end") /\ demo = "shadow"
  /\ runs' = runs + 1
  /\ LET good == status /\ (connected => notes.parsed) IN
     IF good \/ runs + 1 = MaxRuns
     THEN /\ result' = IF good THEN "success" ELSE "failure"
          /\ UNCHANGED <<at, status>>
     ELSE at' = 1 /\ status' = TRUE /\ UNCHANGED result
  /\ UNCHANGED <<demo, phase, connection, fault, exchange, stack, notes>>

-----------------------------------------------------------------------------
(* The mutual authentication demo, with its own helpers.                   *)

MutualConnect ==
  /\ Ready("connect")
  /\ \/ SocketOpened /\ connected' = TRUE /\ Proceed(TRUE) /\ attempts' = 0
     \/ /\ BackoffForRetry(UNCHANGED place, Proceed(FALSE))
        /\ UNCHANGED <<tcp, lost, link, connected>>
  /\ UNCHANGED <<demo, runs, result, session, losses, fault, nextId, ackId, packetType,
                 subAck, slots, owed, stack, notes>>

\* prvCreateMQTTConnectionWithBroker
CreateMQTTConnectionWithBroker ==
  /\ Ready("mqttConnect")
  /\ \/ link = "up" /\ NewSession /\ Proceed(TRUE) /\ UNCHANGED link
     \/ link' = "broken" /\ Proceed(FALSE) /\ UNCHANGED <<nextId, owed>>
  /\ UNCHANGED <<demo, runs, result, tcp, lost, session, connected, losses, fault, attempts,
                 ackId, packetType, subAck, slots, stack, notes>>

\* prvMQTTSubscribeWithBackoffRetries: xStatus is in the notes as granted, and
\* xFailedSubscribeToTopic as rejected. A send that fails leaves both as they are.
MutualSubscribe ==
  /\ Ready("mutualSubscribe")
  /\ LET id == IF attempts = 0 THEN nextId ELSE ackId.sub IN
     /\ nextId' = IF attempts = 0 THEN nextId + 1 ELSE nextId
     /\ ackId' = [ackId EXCEPT !.sub = id]
     /\ IF link = "up"
        THEN /\ phase' = "wait" /\ packetType' = "none" /\ Note("granted", TRUE)
             /\ owed' = owed \cup {Packet("SUBACK", id)}
        ELSE phase' = "check" /\ UNCHANGED <<packetType, owed, notes>>
  /\ UNCHANGED <<demo, runs, at, status, result, connection, fault, attempts, subAck, slots,
                 stack>>

\* prvWaitForPacket of this demo returns what the process loop did: that the time
\* was over counts as success.
MutualWaited ==
  /\ LoopOf({"mutualSubscribe"}) \/ WaitOver({"mutualSubscribe"})
  /\ Note("granted", link = "up")
  /\ phase' = "check"
  /\ UNCHANGED <<demo, runs, at, status, result, connection, fault, exchange, stack>>

\* The check of what was granted and the condition of the loop.
MutualSubscribeAgain ==
  /\ Running /\ phase = "check"
  /\ LET asked    == notes.granted
         rejected == IF asked THEN ~subAck ELSE notes.rejected
         over     == Proceed(notes.granted)
         again    == phase' = "run" /\ UNCHANGED <<at, status>>
     IN  /\ IF asked /\ rejected
            THEN BackoffForRetry(again, over)
            ELSE IF rejected
                 THEN again /\ UNCHANGED attempts
                 ELSE over /\ attempts' = 0
         /\ Note("rejected", rejected)
  /\ UNCHANGED <<demo, runs, result, connection, fault, nextId, ackId, packetType, subAck,
                 slots, owed, stack>>

\* prvMQTTPublishToTopic, as often as the demo does it. The identifier replaces
\* that of the previous publish.
MutualPublish ==
  /\ Ready("echo")
  /\ IF notes.published = Echoes \/ link # "up"
     THEN /\ Proceed(notes.published = Echoes)
          /\ UNCHANGED <<ackId, nextId, packetType, owed, notes>>
     ELSE /\ ackId' = [ackId EXCEPT !.pub = nextId]
          /\ nextId' = nextId + 1
          /\ owed' = owed \cup {Packet("PUBACK", nextId), Message("echo", nextId)}
          /\ phase' = "wait" /\ packetType' = "none" /\ UNCHANGED <<at, status>>
          /\ Note("published", notes.published + 1)
  /\ UNCHANGED <<demo, runs, result, connection, fault, attempts, subAck, slots, stack>>

\* The echo has come, or the time is over, which is no failure; or the loop fails.
EchoWaited ==
  /\ \/ WaitOver({"echo"}) /\ phase' = "run" /\ UNCHANGED <<at, status>>
     \/ LoopOf({"echo"}) /\ link = "up" /\ phase' = "run" /\ UNCHANGED <<at, status>>
     \/ LoopOf({"echo"}) /\ link = "broken" /\ Proceed(FALSE)
  /\ UNCHANGED <<demo, runs, result, connection, fault, exchange, stack, notes>>

\* prvMQTTUnsubscribeFromTopic takes an identifier for the subscription, too.
MutualUnsubscribe ==
  /\ Ready("mutualUnsubscribe")
  /\ nextId' = nextId + 2
  /\ ackId' = [ackId EXCEPT !.sub = nextId, !.unsub = nextId + 1]
  /\ IF link = "up"
     THEN /\ phase' = "wait" /\ packetType' = "none"
          /\ owed' = owed \cup {Packet("UNSUBACK", nextId + 1)}
          /\ UNCHANGED <<at, status>>
     ELSE Proceed(FALSE) /\ UNCHANGED <<packetType, owed>>
  /\ UNCHANGED <<demo, runs, result, connection, fault, attempts, subAck, slots, stack, notes>>

MutualUnsubscribed ==
  /\ \/ WaitOver({"mutualUnsubscribe"}) /\ Proceed(TRUE)
     \/ LoopOf({"mutualUnsubscribe"}) /\ Proceed(link = "up")
  /\ UNCHANGED <<demo, runs, result, connection, fault, exchange, stack, notes>>

\* prvMQTTProcessResponse, with its assertions.
MutualProcessResponse(p) ==
  \/ p.type = "PUBACK" /\ Checked(p.id = ackId.pub) /\ UNCHANGED <<packetType, subAck>>
  \/ p.type = "SUBACK" /\ Checked(p.id = ackId.sub)
     /\ packetType' = "SUBACK" /\ subAck' \in BOOLEAN
  \/ p.type = "UNSUBACK" /\ Checked(p.id = ackId.unsub)
     /\ packetType' = "UNSUBACK" /\ UNCHANGED subAck

MutualReceiveAck ==
  /\ InLoop /\ link = "up" /\ demo = "mutual"
  /\ \E p \in owed :
       /\ p.type # "PUBLISH"
       /\ MutualProcessResponse(p)
       /\ owed' = owed \ {p}
  /\ UNCHANGED <<demo, runs, place, result, connection, attempts, nextId, ackId, slots, stack,
                 notes>>

\* prvMQTTProcessIncomingPublish
MutualCallback(p) == packetType' = "PUBLISH"

\* The connection of every iteration is closed if there ever was one.
MutualDisconnect ==
  /\ Ready("mutualDisconnect")
  /\ IF connected
     THEN CloseSocket /\ Proceed(status /\ tcp = "open")
     ELSE Proceed(FALSE) /\ UNCHANGED <<tcp, link, fault>>
  /\ UNCHANGED <<demo, runs, result, lost, session, connected, losses, exchange, stack, notes>>

\* The end of an iteration, and at last the count of those that were successful.
MutualRunEnds ==
  /\ Ready("end") /\ demo = "mutual"
  /\ runs' = runs + 1 /\ subAck' = FALSE /\ attempts' = 0
  /\ LET good == notes.successes + (IF status THEN 1 ELSE 0) IN
     IF runs + 1 = MaxRuns
     THEN /\ result' = IF good > MaxRuns \div 2 THEN "success" ELSE "failure"
          /\ UNCHANGED <<place, notes>>
     ELSE /\ at' = 1 /\ status' = TRUE /\ UNCHANGED <<result, phase>>
          /\ notes' = [Notes("mutual") EXCEPT !.successes = good]
  /\ UNCHANGED <<demo, connection, fault, nextId, ackId, packetType, slots, owed, stack>>

-----------------------------------------------------------------------------
\* A publish is delivered by MQTT_ProcessLoop to the demo's callback.
ReceivePublish ==
  /\ InLoop /\ link = "up"
  /\ \E p \in owed :
       /\ p.type = "PUBLISH"
       /\ owed' = owed \ {p}
       /\ \/ demo = "shadow" /\ ShadowCallback(p) /\ UNCHANGED <<stack, packetType>>
          \/ demo = "jobs" /\ JobsCallback(p) /\ UNCHANGED packetType
          \/ demo = "defender" /\ DefenderCallback(p) /\ UNCHANGED <<stack, packetType>>
          \/ demo = "mutual" /\ MutualCallback(p) /\ UNCHANGED <<stack, notes>>
  /\ UNCHANGED <<demo, runs, place, result, connection, fault, attempts, nextId, ackId,
                 subAck, slots>>

Demo ==
  \/ Skip \/ ConnectToServer \/ EstablishMqttSession \/ DisconnectMqttSession
  \/ SubscribeToTopic \/ Subscribed \/ NothingToUnsubscribe \/ UnsubscribeFromTopic
  \/ Unsubscribed \/ ReceiveAck \/ ReceivePublish \/ LoopTimedOut \/ LoopFailed
  \/ DeleteShadow \/ AwaitDelete \/ DeleteAnswered \/ CheckDeleted
  \/ UpdateDesired \/ UpdateReported \/ ShadowRunEnds
  \/ DescribeNextJob \/ Work \/ WorkEnds \/ ProcessJobDocument \/ CountRun \/ JobsRunEnds
  \/ SendReport \/ AwaitReport \/ SecondOver \/ CheckReport \/ DefenderRunEnds
  \/ MutualConnect \/ CreateMQTTConnectionWithBroker \/ MutualSubscribe \/ MutualWaited
  \/ MutualSubscribeAgain \/ MutualPublish \/ EchoWaited \/ MutualUnsubscribe
  \/ MutualUnsubscribed \/ MutualReceiveAck \/ MutualDisconnect \/ MutualRunEnds

\* The demo has returned, or stands still; the jobs demo may wait for ever.
Rest ==
  /\ result # "none" \/ fault # "none" \/ LoopOf({"work"})
  /\ UNCHANGED vars

Next == Demo \/ OfferJob \/ LinkLost \/ Rest

\* The demo's task is scheduled, and its waits end.
Spec == Init /\ [][Next]_vars /\ WF_vars(Demo)

-----------------------------------------------------------------------------
TypeOK ==
  /\ demo \in Demos /\ runs \in 0..MaxRuns
  /\ at \in 1..Len(Script[demo]) /\ phase \in {"run", "mqtt", "wait", "check"}
  /\ {status, lost, session, connected, subAck} \subseteq BOOLEAN
  /\ result \in {"none", "success", "failure"} /\ fault \in {"none", "assert", "reclosed"}
  /\ tcp \in {"none", "open", "stale"} /\ link \in {"down", "up", "broken"}
  /\ attempts \in 0..RetryMax /\ nextId \in Nat /\ losses \in 0..MaxLosses
  /\ packetType \in {"none", "SUBACK", "UNSUBACK", "PUBLISH"}
  /\ slots \in [Slot -> Nat] /\ Len(stack) <= MaxNested

\* What becomes of the sockets, which two of the demos do not all close and the other
\* two may close twice. The shadow and the defender demo never disconnect what this run
\* has not connected, and what they leave open when a run is over is a connection on
\* which MQTT_Connect has failed. The jobs and the mutual authentication demo, which
\* disconnect whatever has failed before, leave none open.
Begins == at = 1 /\ phase = "run"
SocketsSettled ==
  /\ fault = "reclosed" => demo \in {"jobs", "mutual"}
  /\ lost => demo \in {"shadow", "defender"}
  /\ tcp = "open" /\ (Begins \/ result # "none") =>
       demo \in {"shadow", "defender"} /\ ~connected /\ link = "broken"

\* What one would like of a socket, and what does not hold: it is closed at most once
\* and never forgotten. No configuration lists these; see the README.
ClosedOnce == fault # "reclosed"
NoneForgotten == ~lost /\ (result # "none" => tcp # "open")

\* The defender demo only succeeds when the report of its last run was accepted,
\* whatever came late of earlier reports.
SuccessMeansAccepted ==
  demo = "defender" /\ result = "success" =>
    notes.response = "accepted" /\ notes.answered = notes.id

\* The report is made exactly when it fits its buffer, and is as long as its parts.
ReportExact ==
  demo = "defender" => \A m \in notes.metrics :
    notes.length = IF ReportLength(m) < Room THEN ReportLength(m) ELSE TooSmall

Over == result # "none" \/ fault # "none"

\* The shadow and the defender demo come to an end whatever the network does, and
\* the jobs demo once it has got a job that says so.
DemoEnds ==
  /\ (demo \in {"shadow", "defender"}) ~> Over
  /\ (demo = "jobs" /\ notes.exit) ~> Over

\* One job is handled at a time (the comments on the buffers of jobs_demo.c): what is
\* reported while a job is handled is reported of that job. This does not hold when the
\* service offers a second job, and no configuration lists it; see the README.
OneJobAtATime == demo = "jobs" => ~notes.mixed
=============================================================================
