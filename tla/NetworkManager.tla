--------------------------- MODULE NetworkManager ---------------------------
(***************************************************************************)
(* The network manager (aws_iot_network_manager.c) and the demo runner     *)
(* that uses it (iot_demo_freertos.c): the runner enables all networks and *)
(* waits for one that its demo can use; the manager's task takes the       *)
(* events of the drivers and tells the runner's callback, which turns the  *)
(* other networks off and on again.                                        *)
(*                                                                         *)
(* Wi-Fi is the port's (iot_wifi.c), which stores the handlers of its      *)
(* events and never calls them: only BLE reports. The BLE library and its  *)
(* peer are external; this repository's own configuration has Wi-Fi alone. *)
(***************************************************************************)
EXTENDS Integers, Sequences

CONSTANTS
  Networks,   \* configENABLED_NETWORKS: of "ble", "wifi" and "eth"
  Demos,      \* the sets of networks that a demo may be configured for
  QueueSize   \* NETWORK_MANAGER_EVENT_QUEUE_SIZE

ASSUME NetworkAssumption ==
  /\ Networks \subseteq {"ble", "wifi", "eth"}
  /\ \A d \in Demos : d # {} /\ d \subseteq Networks
  /\ QueueSize \in Nat \ {0}

VARIABLES
  types,      \* demoContext_t.networkTypes
  net,        \* IotNMNetwork_t.state of every network
  radio,      \* the networks that are powered
  link,       \* the networks that really have a connection
  heard,      \* the callbacks of BLE are registered
  queue,      \* eventQueue: TRUE for connected, FALSE for disconnected, of BLE
  op,         \* who holds globalMutex, and what is left to enable or disable
  dispatcher, \* who holds subscriptionsMutex
  subscribed, \* the runner's subscription is active
  sem,        \* demoNetworkSemaphore
  demoNet,    \* demoConnectedNetwork
  runner,     \* where the demo's task is
  seen,       \* what its call of _getConnectedNetworkForDemo has returned
  manager,    \* where the manager's task is
  event,      \* the event it has
  told,       \* the state it tells the callback
  fault

switched == <<net, radio, link, heard>>
rest     == <<types, dispatcher, subscribed>>
tasks    == <<demoNet, sem, runner, seen>>
handling == <<manager, event, told>>
vars     == <<rest, switched, queue, op, tasks, handling, fault>>

States == {"disabled", "enabled", "connected"}
NoOp == [by |-> "none", on |-> FALSE, todo |-> {}, done |-> {}, half |-> FALSE]

Init ==
  /\ types \in Demos
  /\ net = [n \in Networks |-> "disabled"] /\ radio = {} /\ link = {} /\ heard = FALSE
  /\ queue = <<>> /\ op = NoOp /\ dispatcher = "none" /\ subscribed = FALSE
  /\ sem = "none" /\ demoNet = "none" /\ runner = "start" /\ seen = "none"
  /\ manager = "idle" /\ event = FALSE /\ told = "none" /\ fault = "none"

Running == fault = "none"

-----------------------------------------------------------------------------
(* The drivers.                                                            *)

\* The callback of BLE puts an event into the queue, and asserts that there is room.
BleConnectionCallback(connected) ==
  IF ~heard THEN UNCHANGED <<queue, fault>>
  ELSE IF Len(queue) < QueueSize
       THEN queue' = Append(queue, connected) /\ UNCHANGED fault
       ELSE fault' = "assert" /\ UNCHANGED queue

BlePeer ==
  /\ Running /\ "ble" \in radio
  /\ link' = IF "ble" \in link THEN link \ {"ble"} ELSE link \cup {"ble"}
  /\ BleConnectionCallback("ble" \in link')
  /\ UNCHANGED <<rest, net, radio, heard, op, tasks, handling>>

\* The access point is lost, which nobody is told.
WifiLost ==
  /\ Running /\ "wifi" \in link
  /\ link' = link \ {"wifi"}
  /\ UNCHANGED <<rest, net, radio, heard, queue, op, tasks, handling, fault>>

\* WIFI_On: nothing to do when it is connected, and else it is switched off first.
WifiOn(ok) == IF "wifi" \in link THEN ok ELSE ok \in BOOLEAN

\* WIFI_ConnectAP, with the retries of _wifiConnectAccessPoint: it returns with an
\* address, or without a connection.
WifiConnectAP(ok) == IF "wifi" \in link THEN ok ELSE ok \in BOOLEAN

-----------------------------------------------------------------------------
(* Enabling and disabling, one network after the other, with globalMutex.  *)

TakeGlobal(by, on, networks) ==
  /\ op.by = "none"
  /\ op' = [by |-> by, on |-> on, todo |-> networks, done |-> {}, half |-> FALSE]

Holds(by) == op.by = by /\ op.todo = {}

\* BLE, Wi-Fi and Ethernet are enabled in this order; Wi-Fi is disabled before BLE.
Before(n, on) ==
  CASE n = "ble"  -> IF on THEN {} ELSE {"wifi"}
    [] n = "wifi" -> IF on THEN {"ble"} ELSE {}
    [] n = "eth"  -> {"ble", "wifi"}

Turn(on, n) == Running /\ n \in op.todo /\ op.todo \cap Before(n, on) = {} /\ op.on = on

Finished(n, ok) ==
  op' = [op EXCEPT !.todo = @ \ {n}, !.half = FALSE,
                   !.done = IF ok THEN @ \cup {n} ELSE @]

\* _bleEnable: the callbacks are registered, then BLE is on, then it is enabled.
BleEnable ==
  /\ Turn(TRUE, "ble") /\ ~op.half
  /\ \/ /\ net["ble"] # "disabled" /\ Finished("ble", FALSE) /\ UNCHANGED <<radio, heard>>
     \/ /\ net["ble"] = "disabled"
        /\ \/ Finished("ble", FALSE) /\ heard' \in BOOLEAN /\ UNCHANGED radio
           \/ /\ heard' = TRUE /\ radio' = radio \cup {"ble"}
              /\ op' = [op EXCEPT !.half = TRUE]
  /\ UNCHANGED <<rest, net, link, queue, tasks, handling, fault>>

BleEnabled ==
  /\ Turn(TRUE, "ble") /\ op.half
  /\ net' = [net EXCEPT !["ble"] = "enabled"] /\ Finished("ble", TRUE)
  /\ UNCHANGED <<rest, radio, link, heard, queue, tasks, handling, fault>>

\* _bleDisable
BleDisable ==
  /\ Turn(FALSE, "ble")
  /\ \/ /\ net["ble"] = "disabled" /\ Finished("ble", FALSE) /\ UNCHANGED switched
     \/ /\ net["ble"] # "disabled"
        /\ \/ Finished("ble", FALSE) /\ heard' \in {FALSE, heard} /\ UNCHANGED <<net, radio, link>>
           \/ /\ net' = [net EXCEPT !["ble"] = "disabled"] /\ heard' = FALSE
              /\ radio' = radio \ {"ble"} /\ link' = link \ {"ble"} /\ Finished("ble", TRUE)
  /\ UNCHANGED <<rest, queue, tasks, handling, fault>>

\* _wifiEnable: when it cannot connect it stays enabled, and reports a failure.
WifiEnable ==
  /\ Turn(TRUE, "wifi")
  /\ IF net["wifi"] # "disabled" THEN Finished("wifi", TRUE) /\ UNCHANGED switched
     ELSE \E on, connected \in BOOLEAN :
            /\ WifiOn(on) /\ WifiConnectAP(connected)
            /\ net' = [net EXCEPT !["wifi"] = IF on /\ connected THEN "connected"
                                              ELSE IF on THEN "enabled" ELSE @]
            /\ radio' = IF on THEN radio \cup {"wifi"} ELSE radio
            /\ link' = IF on /\ connected THEN link \cup {"wifi"} ELSE link
            /\ Finished("wifi", on /\ connected) /\ UNCHANGED heard
  /\ UNCHANGED <<rest, queue, tasks, handling, fault>>

\* _wifiDisable; disconnecting and switching off do not fail in this port.
WifiDisable ==
  /\ Turn(FALSE, "wifi")
  /\ IF net["wifi"] = "disabled" THEN Finished("wifi", FALSE) /\ UNCHANGED <<net, radio, link>>
     ELSE /\ net' = [net EXCEPT !["wifi"] = "disabled"]
          /\ radio' = radio \ {"wifi"} /\ link' = link \ {"wifi"} /\ Finished("wifi", TRUE)
  /\ UNCHANGED <<rest, heard, queue, tasks, handling, fault>>

\* _ethEnable and _ethDisable only change the state.
EthEnable ==
  /\ Turn(TRUE, "eth")
  /\ net' = [net EXCEPT !["eth"] = IF @ = "disabled" THEN "connected" ELSE @]
  /\ Finished("eth", net["eth"] = "disabled")
  /\ UNCHANGED <<rest, radio, link, heard, queue, tasks, handling, fault>>

EthDisable ==
  /\ Turn(FALSE, "eth")
  /\ net' = [net EXCEPT !["eth"] = "disabled"] /\ Finished("eth", net["eth"] # "disabled")
  /\ UNCHANGED <<rest, radio, link, heard, queue, tasks, handling, fault>>

Switching ==
  \/ BleEnable \/ BleEnabled \/ BleDisable \/ WifiEnable \/ WifiDisable
  \/ EthEnable \/ EthDisable

\* _getConnectedNetworkForDemo, in the order Wi-Fi, BLE, Ethernet; AwsIotNetworkManager_-
\* GetConnectedNetworks reads the states without the mutex.
GetConnectedNetworks == {n \in Networks : net[n] = "connected"}

ConnectedForDemo ==
  LET usable == GetConnectedNetworks \cap types
  IN  CASE "wifi" \in usable -> "wifi"
        [] "wifi" \notin usable /\ "ble" \in usable -> "ble"
        [] usable = {"eth"} -> "eth"
        [] OTHER -> "none"

-----------------------------------------------------------------------------
(* prvNetworkManagerTask                                                   *)

Receive ==
  /\ Running /\ manager = "idle" /\ queue # <<>>
  /\ event' = Head(queue) /\ queue' = Tail(queue) /\ manager' = "update"
  /\ UNCHANGED <<rest, switched, op, tasks, told, fault>>

\* The state follows the event, unless the network is disabled or has followed before.
Follow ==
  IF event /\ net["ble"] = "enabled"
  THEN net' = [net EXCEPT !["ble"] = "connected"] /\ manager' = "dispatch"
  ELSE IF ~event /\ net["ble"] = "connected"
       THEN net' = [net EXCEPT !["ble"] = "enabled"] /\ manager' = "dispatch"
       ELSE manager' = "idle" /\ UNCHANGED net

UpdateUnlocked ==
  /\ Running /\ manager = "update"
  /\ Follow
  /\ UNCHANGED <<rest, radio, link, heard, queue, op, tasks, event, told, fault>>

Update ==
  /\ Running /\ manager = "update" /\ op.by = "none"
  /\ Follow
  /\ UNCHANGED <<rest, radio, link, heard, queue, op, tasks, event, told, fault>>

\* prvDispatch, with subscriptionsMutex. The state is read again by now.
Dispatch ==
  /\ Running /\ manager = "dispatch" /\ dispatcher = "none"
  /\ IF subscribed /\ "ble" \in types
     THEN dispatcher' = "manager" /\ told' = net["ble"] /\ manager' = "callback"
     ELSE manager' = "idle" /\ UNCHANGED <<dispatcher, told>>
  /\ UNCHANGED <<types, subscribed, switched, queue, op, tasks, event, fault>>

Others == Networks \ {demoNet}

\* IotSemaphore_Post, of a semaphore with a maximum of one.
Post ==
  /\ sem' = IF sem = "down" THEN "up" ELSE sem
  /\ fault' = IF sem = "destroyed" THEN "semaphore" ELSE fault

\* _onNetworkStateChangeCallback: the demo has its network; or has lost it.
OnConnected ==
  /\ Running /\ manager = "callback" /\ told = "connected" /\ demoNet = "none"
  /\ demoNet' = "ble" /\ Post
  /\ manager' = IF Networks = {"ble"} THEN "return" ELSE "off"
  /\ UNCHANGED <<rest, switched, queue, op, runner, seen, event, told>>

OnDisconnected ==
  /\ Running /\ manager = "callback" /\ told = "enabled" /\ demoNet = "ble"
  /\ manager' = IF Others = {} THEN "pick" ELSE "on"
  /\ UNCHANGED <<rest, switched, queue, op, tasks, event, told, fault>>

OnOther ==
  /\ Running /\ manager = "callback"
  /\ ~(told = "connected" /\ demoNet = "none") /\ ~(told = "enabled" /\ demoNet = "ble")
  /\ manager' = "return"
  /\ UNCHANGED <<rest, switched, queue, op, tasks, event, told, fault>>

\* AwsIotNetworkManager_DisableNetwork and _EnableNetwork, called by the callback.
SwitchOthers ==
  /\ Running
  /\ \/ manager = "off" /\ TakeGlobal("manager", FALSE, Others) /\ manager' = "turnedOff"
     \/ manager = "on" /\ TakeGlobal("manager", TRUE, Others) /\ manager' = "turnedOn"
  /\ UNCHANGED <<rest, switched, queue, tasks, event, told, fault>>

RetriesUntilEnabled ==
  /\ Running /\ Holds("manager") /\ op' = NoOp
  /\ \/ manager = "turnedOff" /\ manager' = "return"
     \/ manager = "turnedOn" /\ manager' = IF op.done = Others THEN "pick" ELSE "on"
  /\ UNCHANGED <<rest, switched, queue, tasks, event, told, fault>>

OthersSwitched ==
  /\ Running /\ Holds("manager") /\ op' = NoOp
  /\ \/ manager = "turnedOff" /\ manager' = "return"
     \/ manager = "turnedOn" /\ manager' = "pick"
  /\ UNCHANGED <<rest, switched, queue, tasks, event, told, fault>>

\* Of the networks that are connected now, the demo gets one, if any.
PickNetwork ==
  /\ Running /\ manager = "pick"
  /\ demoNet' = ConnectedForDemo /\ manager' = "return"
  /\ UNCHANGED <<rest, switched, queue, op, sem, runner, seen, event, told, fault>>

CallbackReturns ==
  /\ Running /\ manager = "return"
  /\ dispatcher' = "none" /\ manager' = "idle"
  /\ UNCHANGED <<types, subscribed, switched, queue, op, tasks, event, told, fault>>

ManagerTask ==
  \/ Receive \/ Update \/ Dispatch \/ OnConnected \/ OnDisconnected \/ OnOther
  \/ SwitchOthers \/ OthersSwitched \/ PickNetwork \/ CallbackReturns

-----------------------------------------------------------------------------
(* runDemoTask                                                             *)

RunnerStep(from, to) == Running /\ runner = from /\ runner' = to

\* _initialize: IotSdk_Init, AwsIotNetworkManager_Init and the semaphore.
Initialize ==
  /\ \/ RunnerStep("start", "subscribe") /\ sem' = "down"
     \/ RunnerStep("start", "end") /\ UNCHANGED sem
  /\ UNCHANGED <<rest, switched, queue, op, demoNet, seen, handling, fault>>

\* AwsIotNetworkManager_SubscribeForStateChange finds a free entry, or fails.
Subscribe ==
  /\ dispatcher = "none"
  /\ \/ RunnerStep("subscribe", "enable") /\ subscribed' = TRUE
     \/ RunnerStep("subscribe", "failed") /\ UNCHANGED subscribed
  /\ UNCHANGED <<types, dispatcher, switched, queue, op, demoNet, sem, seen, handling, fault>>

\* AwsIotNetworkManager_EnableNetwork and _DisableNetwork, called by the runner.
SwitchAll ==
  /\ \/ RunnerStep("enable", "enabling") /\ TakeGlobal("runner", TRUE, Networks)
     \/ RunnerStep("disable", "disabling") /\ TakeGlobal("runner", FALSE, Networks)
  /\ UNCHANGED <<rest, switched, queue, demoNet, sem, seen, handling, fault>>

AllSwitched ==
  /\ Holds("runner") /\ op' = NoOp
  /\ \/ RunnerStep("enabling", IF op.done = Networks THEN "look" ELSE "failed")
     \/ RunnerStep("disabling", "destroy")
  /\ UNCHANGED <<rest, switched, queue, demoNet, sem, seen, handling, fault>>

\* demoConnectedNetwork is read and written without a lock.
Look ==
  /\ RunnerStep("look", "assign") \/ RunnerStep("lookAgain", "assignAgain")
  /\ seen' = ConnectedForDemo
  /\ UNCHANGED <<rest, switched, queue, op, demoNet, sem, handling, fault>>

AssignResetting ==
  /\ RunnerStep("assign", IF seen = "none" THEN "wait" ELSE "demo")
     \/ RunnerStep("assignAgain", "demo")
  /\ demoNet' = seen /\ sem' = "down"
  /\ UNCHANGED <<rest, switched, queue, op, seen, handling, fault>>

Assign ==
  /\ RunnerStep("assign", IF seen = "none" THEN "wait" ELSE "demo")
     \/ RunnerStep("assignAgain", "demo")
  /\ demoNet' = seen
  /\ UNCHANGED <<rest, switched, queue, op, sem, seen, handling, fault>>

\* _waitForDemoNetworkConnection
WaitForNetwork ==
  /\ sem = "up" /\ RunnerStep("wait", "lookAgain") /\ sem' = "down"
  /\ UNCHANGED <<rest, switched, queue, op, demoNet, seen, handling, fault>>

\* The demo runs, and returns.
DemoFunction ==
  /\ RunnerStep("demo", "remove")
  /\ UNCHANGED <<rest, switched, queue, op, demoNet, sem, seen, handling, fault>>

\* _cleanup begins with AwsIotNetworkManager_RemoveSubscription.
RemoveSubscription ==
  /\ dispatcher = "none" /\ RunnerStep("remove", "disable")
  /\ subscribed' = FALSE
  /\ UNCHANGED <<types, dispatcher, switched, queue, op, demoNet, sem, seen, handling, fault>>

\* The end of _cleanup, and of an _initialize that failed, which leaves the networks
\* and the subscription as they are.
Destroy ==
  /\ RunnerStep("destroy", "end") \/ RunnerStep("failed", "abandoned")
  /\ sem' = "destroyed"
  /\ UNCHANGED <<rest, switched, queue, op, demoNet, seen, handling, fault>>

RunnerTask ==
  \/ Initialize \/ Subscribe \/ SwitchAll \/ AllSwitched \/ Look \/ Assign \/ WaitForNetwork
  \/ DemoFunction \/ RemoveSubscription \/ Destroy

-----------------------------------------------------------------------------
\* The runner has ended, or an assertion stopped everything.
Rest == (runner \in {"end", "abandoned"} \/ ~Running) /\ UNCHANGED vars

Next == BlePeer \/ WifiLost \/ Switching \/ ManagerTask \/ RunnerTask \/ Rest

\* Both tasks are scheduled, and go on with what they hold the mutex for. The runner,
\* whose priority is the higher, gets a mutex it waits for when that is given back,
\* however often the manager takes it again: strong fairness.
Spec ==
  /\ Init /\ [][Next]_vars
  /\ WF_vars(Switching) /\ WF_vars(ManagerTask) /\ SF_vars(RunnerTask)

-----------------------------------------------------------------------------
\* The types; the demo is never given a network it is not configured for.
TypeOK ==
  /\ types \in Demos /\ net \in [Networks -> States] /\ {radio, link} \subseteq SUBSET Networks
  /\ heard \in BOOLEAN /\ queue \in Seq(BOOLEAN) /\ Len(queue) <= QueueSize
  /\ op.by \in {"none", "runner", "manager"} /\ op.todo \cup op.done \subseteq Networks
  /\ dispatcher \in {"none", "manager"} /\ subscribed \in BOOLEAN
  /\ sem \in {"none", "down", "up", "destroyed"} /\ told \in States \cup {"none"}
  /\ {demoNet, seen} \subseteq types \cup {"none"} /\ event \in BOOLEAN
  /\ fault \in {"none", "assert", "semaphore"}

\* A demo that waits is waiting for something: once the manager has taken all events, no
\* network that the demo can use is connected, or the semaphore has been posted. The
\* runner looks first and waits then, while events arrive. (_initialize)
NoLostWakeup ==
  runner = "wait" /\ sem = "down" /\ manager = "idle" /\ queue = <<>> /\ Running =>
    ConnectedForDemo = "none"

\* The state of BLE is that of its connection when all events are taken, also when the
\* peer connects while BLE is being enabled, unless disabling it has failed halfway and
\* its callbacks are gone; and the callback is told what the event was, although the
\* state is read again after the mutex has been given back: no one disables the network
\* in between as long as the subscription is there. (prvNetworkManagerTask, _bleEnable)
StateCurrent ==
  /\ (/\ runner \in {"look", "assign", "wait", "lookAgain", "assignAgain", "demo"}
      /\ manager = "idle" /\ queue = <<>> /\ heard /\ Running)
     => (net["ble"] = "connected" <=> "ble" \in link)
  /\ manager = "callback" => told = IF event THEN "connected" ELSE "enabled"

\* Whatever the network does, the clean-up comes to its end: the callback, which holds
\* one mutex and waits for the other, does not block it.
CleanupEnds == (runner = "remove") ~> (runner = "end" \/ ~Running)
=============================================================================
