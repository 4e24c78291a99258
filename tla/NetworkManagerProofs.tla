------------------------ MODULE NetworkManagerProofs ------------------------
(***************************************************************************)
(* Proofs about the network manager, for every set of networks, every set  *)
(* of demos and every length of the event queue: what the manager knows of *)
(* BLE is what the last event said, and a demo that waits for its network  *)
(* is woken.                                                               *)
(***************************************************************************)
EXTENDS NetworkManager, TLAPS

Calling   == {"callback", "off", "turnedOff", "on", "turnedOn", "pick", "return"}
Starting  == {"start", "subscribe", "enable", "enabling", "look", "assign", "wait"}
Active    == {"enabling", "look", "assign", "wait", "lookAgain", "assignAgain", "demo"}
Stopping  == {"disable", "disabling", "destroy", "end"}

Typed ==
  /\ net \in [Networks -> States] /\ radio \subseteq Networks /\ link \subseteq Networks
  /\ heard \in BOOLEAN /\ event \in BOOLEAN /\ subscribed \in BOOLEAN
  /\ queue \in Seq(BOOLEAN) /\ types \subseteq Networks
  /\ op \in [by : {"none", "runner", "manager"}, on : BOOLEAN, todo : SUBSET Networks,
             done : SUBSET Networks, half : BOOLEAN]
  /\ sem \in {"none", "down", "up", "destroyed"}
  /\ runner \in Starting \cup Active \cup Stopping \cup {"remove", "failed", "abandoned"}
  /\ manager \in Calling \cup {"idle", "update", "dispatch"}

(* Who holds globalMutex, and for what.                                    *)
Mutex ==
  /\ op.by = "none" => op.todo = {}
  /\ op.by = "runner" <=> runner \in {"enabling", "disabling"}
  /\ op.by = "manager" <=> manager \in {"turnedOff", "turnedOn"}
  /\ op.by = "runner" => (op.on <=> runner = "enabling")
  /\ op.by = "manager" => (op.on <=> manager = "turnedOn")

(* The callback runs under subscriptionsMutex, for a subscription that is  *)
(* there until the clean-up.                                               *)
Subscribed ==
  /\ dispatcher = "manager" <=> manager \in Calling
  /\ manager \in Calling => subscribed /\ "ble" \in types
  /\ subscribed => runner \notin Stopping \cup {"start", "subscribe"}
  /\ runner \in Active \cup {"enable", "remove"} => subscribed
  /\ sem = "none" => runner \in {"start", "end"}
  /\ runner = "start" => sem = "none"

(* BLE is on when it is not disabled, or halfway there.                    *)
Powered ==
  /\ "ble" \in link => "ble" \in radio
  /\ "ble" \in radio => net["ble"] # "disabled" \/ op.half
  /\ "ble" \in Networks /\ net["ble"] # "disabled" => "ble" \in radio
  /\ op.half => /\ op.by = "runner" /\ op.on /\ "ble" \in op.todo
                /\ net["ble"] = "disabled" /\ heard /\ "ble" \in radio /\ manager \in {"idle", "update"}
  /\ heard \/ queue # <<>> \/ manager # "idle" => "ble" \in Networks

(* Before the runner enables BLE there is nothing to be known of it.       *)
Untouched ==
  runner \in {"start", "subscribe", "enable"}
  \/ (runner = "enabling" /\ "ble" \in op.todo /\ ~op.half)
  => "ble" \notin radio /\ queue = <<>> /\ manager = "idle"

(* What the manager's task is about to tell, or has told.                  *)
Told ==
  /\ manager = "dispatch" /\ subscribed =>
       net["ble"] = IF event THEN "connected" ELSE "enabled"
  /\ manager = "callback" => /\ told = IF event THEN "connected" ELSE "enabled"
                             /\ net["ble"] = told
  /\ manager \in {"on", "turnedOn"} => net["ble"] # "disabled"

(* The last event says whether there is a connection.                      *)
LastKnown ==
  IF queue # <<>> THEN queue[Len(queue)]
  ELSE IF manager = "update" THEN event ELSE net["ble"] = "connected"

Known ==
  Running /\ heard /\ "ble" \in radio /\ runner \in Active =>
    ("ble" \in link <=> LastKnown)

(* Until the semaphore is posted the manager has not given the demo a      *)
(* network nor touched the others, and the runner has found none.          *)
Usable(n) == n \in types /\ net[n] = "connected"

Unposted ==
  runner \in Starting /\ sem \in {"none", "down"} =>
    demoNet = "none" /\ manager \notin {"off", "turnedOff", "on", "turnedOn", "pick"}

Unseen ==
  /\ runner = "wait" => seen = "none"
  /\ runner \in {"assign", "wait"} /\ sem = "down" /\ seen = "none" =>
       /\ ~Usable("wifi") /\ ~Usable("eth")
       /\ Usable("ble") => manager \in {"dispatch", "callback"} /\ event

IInv == /\ Typed /\ Mutex /\ Subscribed /\ Powered /\ Untouched /\ Told /\ Known
        /\ Unposted /\ Unseen
-----------------------------------------------------------------------------
LEMMA InvInit == Init => IInv
<1> SUFFICES ASSUME Init PROVE IInv
  OBVIOUS
<1>1. Typed
  <2>1. net \in [Networks -> States] /\ types \subseteq Networks
    BY NetworkAssumption DEF Init, States
  <2>2. op \in [by : {"none", "runner", "manager"}, on : BOOLEAN, todo : SUBSET Networks,
               done : SUBSET Networks, half : BOOLEAN]
    BY DEF Init, NoOp
  <2>3. queue \in Seq(BOOLEAN) /\ sem = "none" /\ runner = "start" /\ manager = "idle"
    BY DEF Init
  <2>4. radio = {} /\ link = {} /\ heard = FALSE /\ event = FALSE /\ subscribed = FALSE
    BY DEF Init
  <2> QED  BY <2>1, <2>2, <2>3, <2>4 DEF Typed, Starting
<1> QED
  BY <1>1 DEF Init, IInv, Mutex, Subscribed, Powered, Untouched, Told, Known, Unposted,
              Unseen, LastKnown, Usable, Calling, Starting, Active, Stopping, NoOp

(* The mutex changes hands when nothing is left to be done.                *)
LEMMA OpTaken ==
  ASSUME NEW by \in {"runner", "manager"}, NEW on \in BOOLEAN, NEW ns \in SUBSET Networks,
         TakeGlobal(by, on, ns)
  PROVE  /\ op' \in [by : {"none", "runner", "manager"}, on : BOOLEAN, todo : SUBSET Networks,
                      done : SUBSET Networks, half : BOOLEAN]
         /\ op'.by = by /\ op'.on = on /\ op'.todo = ns /\ ~op'.half /\ op.by = "none"
BY DEF TakeGlobal

LEMMA OpGiven ==
  ASSUME op' = NoOp
  PROVE  /\ op' \in [by : {"none", "runner", "manager"}, on : BOOLEAN, todo : SUBSET Networks,
                      done : SUBSET Networks, half : BOOLEAN]
         /\ op'.by = "none" /\ op'.todo = {} /\ ~op'.half
BY DEF NoOp

(* A network is done with.                                                 *)
Progress(n) ==
  /\ op' \in [by : {"none", "runner", "manager"}, on : BOOLEAN, todo : SUBSET Networks,
              done : SUBSET Networks, half : BOOLEAN]
  /\ op'.by = op.by /\ op'.on = op.on /\ op'.todo = op.todo \ {n} /\ ~op'.half

LEMMA OpFinished ==
  ASSUME Typed, NEW n \in Networks, NEW ok, Finished(n, ok)
  PROVE  Progress(n)
BY DEF Typed, Finished, Progress

LEMMA OpTurn ==
  ASSUME Typed, Mutex, NEW on, NEW n, Turn(on, n)
  PROVE  op.by # "none" /\ op.on = on /\ n \in Networks /\ n \in op.todo /\ Running
BY DEF Typed, Mutex, Turn

(* The drivers.                                                            *)
LEMMA DriverStep == IInv /\ (BlePeer \/ WifiLost) => IInv'
<1> SUFFICES ASSUME IInv, BlePeer \/ WifiLost PROVE IInv'
  OBVIOUS
<1> USE NetworkAssumption
    DEF IInv, Typed, Mutex, Subscribed, Powered, Untouched, Told, Known, Unposted, Unseen,
        LastKnown, Usable, Calling, Starting, Active, Stopping, States
<1>1. CASE BlePeer
  <2>1. /\ "ble" \in Networks /\ link' \subseteq Networks
        /\ ("ble" \in link') \in BOOLEAN
        /\ UNCHANGED <<rest, net, radio, heard, op, tasks, handling>>
    BY <1>1 DEF BlePeer
  <2>2. CASE ~heard
    BY <1>1, <2>1, <2>2 DEF BlePeer, BleConnectionCallback, Running, tasks, handling, rest
  <2>3. CASE heard /\ queue' = queue /\ fault' = "assert"
    BY <1>1, <2>1, <2>3 DEF BlePeer, Running, tasks, handling, rest
  <2>4. CASE heard /\ queue' = Append(queue, "ble" \in link') /\ fault' = fault
    <3>1. /\ queue' \in Seq(BOOLEAN) /\ queue' # <<>>
          /\ queue'[Len(queue')] = ("ble" \in link')
      BY <2>1, <2>4
    <3>2. Known'
      BY <2>1, <2>4, <3>1 DEF tasks
    <3> HIDE DEF Known
    <3> QED  BY <1>1, <2>1, <2>4, <3>1, <3>2 DEF BlePeer, tasks, handling, rest
  <2> QED  BY <1>1, <2>2, <2>3, <2>4 DEF BlePeer, BleConnectionCallback
<1>2. CASE WifiLost
  BY <1>2 DEF WifiLost, Running, tasks, handling, rest
<1> QED  BY <1>1, <1>2

(* What happens to another network leaves BLE as it is, and neither task    *)
(* looks at the networks meanwhile.                                        *)
LEMMA OtherNetwork ==
  ASSUME IInv, NEW n \in Networks \ {"ble"}, op.by # "none", ~op.half, Progress(n),
         UNCHANGED <<rest, heard, queue, tasks, handling, fault>>,
         net' = net \/ \E v \in States : net' = [net EXCEPT ![n] = v],
         radio' \in {radio, radio \cup {n}, radio \ {n}},
         link' \in {link, link \cup {n}, link \ {n}}
  PROVE  IInv'
<1> USE DEF IInv
<1>1. net' \in [Networks -> States] /\ \A m \in Networks \ {n} : net'[m] = net[m]
  BY DEF Typed
<1>2. /\ radio' \subseteq Networks /\ ("ble" \in radio' <=> "ble" \in radio)
      /\ link' \subseteq Networks /\ ("ble" \in link' <=> "ble" \in link)
  BY DEF Typed
<1>3. Typed' /\ Mutex' /\ Subscribed' /\ Powered' /\ Untouched'
  <2>1. Typed'
    BY <1>1, <1>2 DEF Typed, Progress, rest, tasks, handling
  <2>2. Mutex' /\ Subscribed'
    BY DEF Mutex, Subscribed, Progress, rest, tasks, handling
  <2>4. Powered'
    BY <1>1, <1>2 DEF Typed, Powered, Progress, handling
  <2>5. Untouched'
    BY <1>2 DEF Untouched, Powered, Progress, tasks, handling
  <2> QED  BY <2>1, <2>2, <2>4, <2>5
<1>4. Told' /\ Known'
  <2>1. queue' # <<>> \/ manager' # "idle" \/ "ble" \in radio' => "ble" \in Networks
    BY <1>2 DEF Powered, Typed, handling
  <2> QED  BY <1>1, <1>2, <2>1 DEF Told, Known, LastKnown, Running, rest, tasks, handling
<1>5. Unposted' /\ Unseen'
  BY DEF Typed, Unposted, Unseen, Mutex, Usable, Starting, rest, tasks, handling
<1> QED  BY <1>3, <1>4, <1>5

(* One network is switched.                                                *)
LEMMA SwitchStep == IInv /\ Switching => IInv'
<1> SUFFICES ASSUME IInv, Switching PROVE IInv'
  OBVIOUS
<1> USE NetworkAssumption
    DEF IInv, Typed, Mutex, Subscribed, Powered, Untouched, Told, Known, Unposted, Unseen,
        LastKnown, Usable, Calling, Starting, Active, Stopping, States
<1>1. CASE BleEnable
  <2>1. /\ op.by # "none" /\ op.on /\ "ble" \in Networks /\ "ble" \in op.todo /\ Running
        /\ ~op.half /\ UNCHANGED <<rest, net, link, queue, tasks, handling, fault>>
    BY <1>1, OpTurn DEF BleEnable
  <2>2. CASE net["ble"] # "disabled" /\ Finished("ble", FALSE) /\ UNCHANGED <<radio, heard>>
    BY <2>1, <2>2, OpFinished DEF Progress, rest, tasks, handling, Running
  <2>3. CASE net["ble"] = "disabled" /\ Finished("ble", FALSE) /\ heard' \in BOOLEAN /\ radio' = radio
    BY <2>1, <2>3, OpFinished DEF Progress, rest, tasks, handling, Running
  <2>4. CASE /\ net["ble"] = "disabled" /\ heard' = TRUE /\ radio' = radio \cup {"ble"}
             /\ op' = [op EXCEPT !.half = TRUE]
    <3>1. op' \in [by : {"none", "runner", "manager"}, on : BOOLEAN, todo : SUBSET Networks,
                  done : SUBSET Networks, half : BOOLEAN]
          /\ op'.by = op.by /\ op'.on = op.on /\ op'.todo = op.todo /\ op'.half
      BY <2>4
    <3> QED  BY <2>1, <2>4, <3>1 DEF rest, tasks, handling, Running
  <2> QED  BY <1>1, <2>2, <2>3, <2>4 DEF BleEnable
<1>2. CASE BleEnabled
  <2>1. /\ op.by # "none" /\ op.on /\ "ble" \in Networks /\ "ble" \in op.todo /\ op.half
        /\ net' = [net EXCEPT !["ble"] = "enabled"] /\ Progress("ble")
        /\ UNCHANGED <<rest, radio, heard, link, queue, tasks, handling, fault>>
    BY <1>2, OpTurn, OpFinished DEF BleEnabled
  <2>2. net' \in [Networks -> States] /\ net'["ble"] = "enabled"
        /\ \A n \in Networks \ {"ble"} : net'[n] = net[n]
    BY <2>1
  <2> QED  BY <2>1, <2>2 DEF Progress, rest, tasks, handling, Running
<1>3. CASE BleDisable
  <2>1. /\ op.by # "none" /\ ~op.on /\ "ble" \in Networks /\ Progress("ble")
        /\ UNCHANGED <<rest, queue, tasks, handling, fault>>
    BY <1>3, OpTurn, OpFinished DEF BleDisable
  <2>2. CASE UNCHANGED <<net, radio, link>> /\ heard' \in {FALSE, heard}
    <3>1. CASE heard' = FALSE
      BY <2>1, <2>2, <3>1 DEF Progress, rest, tasks, handling, Running
    <3>2. CASE heard' = heard
      BY <2>1, <2>2, <3>2 DEF Progress, rest, tasks, handling, Running
    <3> QED  BY <2>2, <3>1, <3>2
  <2>3. CASE /\ net' = [net EXCEPT !["ble"] = "disabled"] /\ heard' = FALSE
             /\ radio' = radio \ {"ble"} /\ link' = link \ {"ble"}
    <3>1. net' \in [Networks -> States] /\ net'["ble"] = "disabled"
          /\ \A n \in Networks \ {"ble"} : net'[n] = net[n]
      BY <2>1, <2>3
    <3> QED  BY <2>1, <2>3, <3>1 DEF Progress, rest, tasks, handling, Running
  <2> QED  BY <1>3, <2>2, <2>3 DEF BleDisable, switched
<1>4. CASE WifiEnable
  <2>1. /\ "wifi" \in Networks /\ op.by # "none" /\ ~op.half
        /\ UNCHANGED <<rest, queue, tasks, handling, fault>>
    BY <1>4, OpTurn DEF WifiEnable, Turn, Before, Powered
  <2>2. Progress("wifi")
    BY <1>4, <2>1, OpFinished DEF WifiEnable
  <2>3. /\ heard' = heard
        /\ UNCHANGED switched
           \/ \E v \in States : net' = [net EXCEPT !["wifi"] = v]
        /\ radio' \in {radio, radio \cup {"wifi"}} /\ link' \in {link, link \cup {"wifi"}}
    BY <1>4, <2>1 DEF WifiEnable, switched
  <2> QED  BY <2>1, <2>2, <2>3, OtherNetwork DEF switched
<1>5. CASE WifiDisable
  <2>1. /\ "wifi" \in Networks /\ op.by # "none" /\ ~op.half
        /\ UNCHANGED <<rest, heard, queue, tasks, handling, fault>>
    BY <1>5, OpTurn DEF WifiDisable, Powered
  <2>2. Progress("wifi")
    BY <1>5, <2>1, OpFinished DEF WifiDisable
  <2>3. /\ net' \in {net, [net EXCEPT !["wifi"] = "disabled"]}
        /\ radio' \in {radio, radio \ {"wifi"}} /\ link' \in {link, link \ {"wifi"}}
    BY <1>5, <2>1 DEF WifiDisable
  <2> QED  BY <2>1, <2>2, <2>3, OtherNetwork
<1>6. CASE EthEnable
  <2>1. UNCHANGED <<rest, radio, link, heard, queue, tasks, handling, fault>>
    BY <1>6 DEF EthEnable
  <2>2. "eth" \in Networks /\ op.by # "none" /\ ~op.half
    <3>1. Turn(TRUE, "eth")
      BY <1>6 DEF EthEnable
    <3> QED  BY <3>1, OpTurn DEF Turn, Before, Powered
  <2>3. Progress("eth")
    BY <1>6, <2>2, OpFinished DEF EthEnable
  <2>4. net' \in {net, [net EXCEPT !["eth"] = "connected"]}
    BY <1>6, <2>2 DEF EthEnable
  <2> QED  BY <2>1, <2>2, <2>3, <2>4, OtherNetwork
<1>7. CASE EthDisable
  <2>1. UNCHANGED <<rest, radio, link, heard, queue, tasks, handling, fault>>
    BY <1>7 DEF EthDisable
  <2>2. "eth" \in Networks /\ op.by # "none" /\ ~op.half
    <3>1. Turn(FALSE, "eth")
      BY <1>7 DEF EthDisable
    <3>2. "eth" \in op.todo /\ op.on = FALSE
      BY <3>1 DEF Turn
    <3> QED  BY <3>2 DEF Typed, Mutex, Powered
  <2>3. Progress("eth")
    BY <1>7, <2>2, OpFinished DEF EthDisable
  <2>4. net' = [net EXCEPT !["eth"] = "disabled"]
    BY <1>7, <2>2 DEF EthDisable
  <2> QED  BY <2>1, <2>2, <2>3, <2>4, OtherNetwork
<1> QED  BY <1>1, <1>2, <1>3, <1>4, <1>5, <1>6, <1>7 DEF Switching

(* The manager's task.                                                     *)
LEMMA ManagerStep == IInv /\ ManagerTask => IInv'
<1> SUFFICES ASSUME IInv, ManagerTask PROVE IInv'
  OBVIOUS
<1> USE NetworkAssumption
    DEF IInv, Typed, Mutex, Subscribed, Powered, Untouched, Told, Known, Unposted, Unseen,
        LastKnown, Usable, Calling, Starting, Active, Stopping, States
<1>1. CASE Receive
  <2>1. /\ queue # <<>> /\ queue' = Tail(queue) /\ event' = queue[1] /\ event' \in BOOLEAN
        /\ queue' \in Seq(BOOLEAN) /\ manager' = "update"
    BY <1>1 DEF Receive
  <2>2. IF queue' = <<>> THEN event' = queue[Len(queue)]
                        ELSE queue'[Len(queue')] = queue[Len(queue)]
    <3>1. Len(queue) \in Nat \ {0} /\ Len(queue') = Len(queue) - 1
          /\ \A i \in 1..Len(queue') : queue'[i] = queue[i + 1]
      BY <2>1
    <3>2. queue' = <<>> => Len(queue) = 1
      BY <2>1, <3>1
    <3>3. queue' # <<>> => Len(queue') \in 1..Len(queue') /\ Len(queue') + 1 = Len(queue)
      BY <2>1, <3>1
    <3> QED  BY <2>1, <3>1, <3>2, <3>3
  <2>3. LastKnown' = LastKnown
    BY <2>1, <2>2
  <2> HIDE DEF LastKnown
  <2> QED  BY <1>1, <2>1, <2>3 DEF Receive, Running, rest, switched, tasks
<1>2. CASE Update
  BY <1>2 DEF Update, Running, Follow, rest, tasks
<1>3. CASE Dispatch
  BY <1>3 DEF Dispatch, Running, rest, switched, tasks
<1>4. CASE OnConnected
  BY <1>4 DEF OnConnected, Running, Post, rest, switched, tasks
<1>5. CASE OnDisconnected
  BY <1>5 DEF OnDisconnected, Running, Others, rest, switched, tasks
<1>6. CASE OnOther
  BY <1>6 DEF OnOther, Running, rest, switched, tasks
<1>7. CASE SwitchOthers
  <2>1. Others \in SUBSET Networks
    BY DEF Others
  <2>2. CASE manager = "off" /\ TakeGlobal("manager", FALSE, Others) /\ manager' = "turnedOff"
    BY <1>7, <2>1, <2>2, OpTaken DEF SwitchOthers, Running, rest, switched, tasks
  <2>3. CASE manager = "on" /\ TakeGlobal("manager", TRUE, Others) /\ manager' = "turnedOn"
    BY <1>7, <2>1, <2>3, OpTaken DEF SwitchOthers, Running, rest, switched, tasks
  <2> QED  BY <1>7, <2>2, <2>3 DEF SwitchOthers
<1>8. CASE OthersSwitched
  BY <1>8, OpGiven DEF OthersSwitched, Running, Holds, rest, switched, tasks
<1>9. CASE PickNetwork
  BY <1>9 DEF PickNetwork, Running, rest, switched, tasks
<1>10. CASE CallbackReturns
  BY <1>10 DEF CallbackReturns, Running, rest, switched, tasks
<1> QED  BY <1>1, <1>2, <1>3, <1>4, <1>5, <1>6, <1>7, <1>8, <1>9, <1>10 DEF ManagerTask

(* The runner.                                                             *)
LEMMA RunnerTaskStep == IInv /\ RunnerTask => IInv'
<1> SUFFICES ASSUME IInv, RunnerTask PROVE IInv'
  OBVIOUS
<1> USE NetworkAssumption
    DEF IInv, Typed, Mutex, Subscribed, Powered, Untouched, Told, Known, Unposted, Unseen,
        LastKnown, Usable, Calling, Starting, Active, Stopping, States
<1>1. CASE Initialize
  <2>1. CASE RunnerStep("start", "subscribe") /\ sem' = "down"
    BY <1>1, <2>1 DEF Initialize, RunnerStep, Running, rest, switched, handling
  <2>2. CASE RunnerStep("start", "end") /\ sem' = sem
    BY <1>1, <2>2 DEF Initialize, RunnerStep, Running, rest, switched, handling
  <2> QED  BY <1>1, <2>1, <2>2 DEF Initialize
<1>2. CASE Subscribe
  BY <1>2 DEF Subscribe, RunnerStep, Running, rest, switched, handling
<1>3. CASE SwitchAll
  <2>1. CASE RunnerStep("enable", "enabling") /\ TakeGlobal("runner", TRUE, Networks)
    BY <1>3, <2>1, OpTaken DEF SwitchAll, RunnerStep, Running, rest, switched, handling
  <2>2. CASE RunnerStep("disable", "disabling") /\ TakeGlobal("runner", FALSE, Networks)
    BY <1>3, <2>2, OpTaken DEF SwitchAll, RunnerStep, Running, rest, switched, handling
  <2> QED  BY <1>3, <2>1, <2>2 DEF SwitchAll
<1>4. CASE AllSwitched
  BY <1>4, OpGiven DEF AllSwitched, RunnerStep, Running, Holds, rest, switched, handling
<1>5. CASE Look
  BY <1>5 DEF Look, RunnerStep, Running, ConnectedForDemo, GetConnectedNetworks, rest, switched, handling
<1>6. CASE Assign
  BY <1>6 DEF Assign, RunnerStep, Running, rest, switched, handling
<1>7. CASE WaitForNetwork
  BY <1>7 DEF WaitForNetwork, RunnerStep, Running, rest, switched, handling
<1>8. CASE DemoFunction
  BY <1>8 DEF DemoFunction, RunnerStep, Running, rest, switched, handling
<1>9. CASE RemoveSubscription
  BY <1>9 DEF RemoveSubscription, RunnerStep, Running, rest, switched, handling
<1>10. CASE Destroy
  BY <1>10 DEF Destroy, RunnerStep, Running, rest, switched, handling
<1> QED  BY <1>1, <1>2, <1>3, <1>4, <1>5, <1>6, <1>7, <1>8, <1>9, <1>10 DEF RunnerTask

LEMMA InvStep == IInv /\ [Next]_vars => IInv'
<1> SUFFICES ASSUME IInv, [Next]_vars PROVE IInv'
  OBVIOUS
<1>1. CASE UNCHANGED vars
  <2>1. /\ UNCHANGED <<types, dispatcher, subscribed, net, radio, link, heard>>
        /\ UNCHANGED <<queue, op, demoNet, sem, runner, seen, manager, event, told, fault>>
    BY <1>1 DEF vars, rest, switched, tasks, handling
  <2> QED
    BY <2>1 DEF IInv, Typed, Mutex, Subscribed, Powered, Untouched, Told, Known, Unposted, Unseen,
                LastKnown, Usable, Running
<1> QED
  BY <1>1, DriverStep, SwitchStep, ManagerStep, RunnerTaskStep DEF Next, Rest

LEMMA Invariant == Spec => []IInv
BY InvInit, InvStep, PTL DEF Spec

-----------------------------------------------------------------------------
(* A demo that waits is waiting for something, however the events and the  *)
(* start of the runner interleave.                                         *)
THEOREM WaitsForSomething == Spec => []NoLostWakeup
<1>1. IInv => NoLostWakeup
  <2> SUFFICES ASSUME IInv, runner = "wait", sem = "down", manager = "idle"
               PROVE  ConnectedForDemo = "none"
    BY DEF NoLostWakeup
  <2>1. ~Usable("wifi") /\ ~Usable("ble") /\ ~Usable("eth")
    BY DEF IInv, Unseen
  <2>2. GetConnectedNetworks \cap types = {}
    <3>1. \A n \in Networks : n \in {"ble", "wifi", "eth"}
      BY NetworkAssumption
    <3>2. \A n \in Networks \cap types : net[n] # "connected"
      BY <2>1, <3>1 DEF Usable
    <3> QED  BY <3>2 DEF GetConnectedNetworks
  <2> QED  BY <2>2 DEF ConnectedForDemo
<1> QED  BY <1>1, Invariant, PTL

(* The state of BLE is that of its connection when all events are taken,   *)
(* and the callback is told what the event was.                            *)
THEOREM StateFollowsLink == Spec => []StateCurrent
<1>1. IInv => StateCurrent
  <2> SUFFICES ASSUME IInv PROVE StateCurrent
    OBVIOUS
  <2>1. manager = "callback" => told = IF event THEN "connected" ELSE "enabled"
    BY DEF IInv, Told
  <2>2. ASSUME runner \in {"look", "assign", "wait", "lookAgain", "assignAgain", "demo"},
               manager = "idle", queue = <<>>, heard, Running
        PROVE  net["ble"] = "connected" <=> "ble" \in link
    <3>1. CASE "ble" \in radio
      BY <2>2, <3>1 DEF IInv, Known, LastKnown, Active
    <3>2. CASE "ble" \notin radio
      BY <2>2, <3>2 DEF IInv, Powered
    <3> QED  BY <3>1, <3>2
  <2> QED  BY <2>1, <2>2 DEF StateCurrent
<1> QED  BY <1>1, Invariant, PTL
=============================================================================
