-------------------------- MODULE SecureConnection --------------------------
(***************************************************************************)
(* A connection from the application down to the socket: the transport     *)
(* interface of the MQTT and HTTP demos (transport_secure_sockets.c) and   *)
(* the network interface with a receive task (iot_network_freertos.c),     *)
(* over the secure sockets port (iot_secure_sockets.c) and the TLS layer   *)
(* (iot_tls.c).                                                            *)
(*                                                                         *)
(* What a connection allocates is a set, heap, of named things; each call  *)
(* that can fail does so by choice, and the rest of its function decides   *)
(* what is freed. Of the data only the order of the bytes is followed,     *)
(* which are numbered as the peer sends them. lwIP, mbedTLS and PKCS #11   *)
(* are outside the repository. The wake-up callback of the socket port is  *)
(* left out: nothing in the repository sets it.                            *)
(***************************************************************************)
EXTENDS Integers, Sequences

CONSTANTS
  Interfaces,  \* which of "transport" and "afr" the application may use
  MaxSockets,  \* socketsconfigDEFAULT_MAX_NUM_SECURE_SOCKETS
  MaxBytes     \* bound on the bytes the peer sends on a connection

ASSUME SecureAssumption == /\ Interfaces \subseteq {"transport", "afr"}
                           /\ MaxSockets \in Nat \ {0} /\ MaxBytes \in Nat

VARIABLES
  interface,   \* the one in use
  enforce_tls, \* SOCKETS_SO_REQUIRE_TLS is asked for
  pc,          \* where the application's task is
  heap,        \* what is allocated: memory and the lwIP socket
  session,     \* the PKCS #11 session that xP11Session names
  slots,       \* sockets_allocated
  connected,   \* SS_STATUS_CONNECTED
  handshake,   \* xTLSHandshakeState
  flags,       \* connectionFlags
  callbackSet, \* receiveCallback is not NULL
  rx,          \* where the receive task is
  buffered,    \* bufferedByte, 0 when it is not valid
  received,    \* the number of bytes read from the socket
  delivered,   \* those handed to the callback, in their order
  destroyed,   \* the callback has asked for the destruction
  fault        \* what has gone wrong: a failed assertion, or a task inside
               \* mbedTLS while another frees the context

task   == <<interface, enforce_tls, pc>>
socket == <<heap, session, slots, connected, handshake>>
afr    == <<flags, callbackSet, rx, buffered, received, delivered, destroyed>>
vars   == <<task, socket, afr, fault>>

Memory == {"connection", "ctx", "lwip", "alpn", "destination", "cert",
           "tls", "ssl", "certs"}

Init ==
  /\ interface \in Interfaces /\ enforce_tls \in BOOLEAN
  /\ pc = "idle" /\ heap = {} /\ slots = MaxSockets
  /\ connected = FALSE /\ handshake = "not_started" /\ session = "none"
  /\ flags = {} /\ callbackSet = FALSE /\ rx = "none" /\ buffered = 0
  /\ received = 0 /\ delivered = <<>>
  /\ destroyed = FALSE /\ fault = "none"

-----------------------------------------------------------------------------
(* The TLS layer. FreeContext, TLSRecv and TLSSend say what becomes of     *)
(* heap, session, handshake and fault; elsewhere tells whether the other   *)
(* task is inside mbedTLS with the same context, which is not locked.      *)

\* C_CloseSession does not change the handle that it is given, which names no
\* session any more, or somebody else's.
CloseSession == [none |-> "none", open |-> "closed", closed |-> "reclosed", reclosed |-> "reclosed"]

FreeContextKeepsHandshake(elsewhere) ==
  /\ heap' = heap \ {"ssl"}
  /\ session' = CloseSession[session]
  /\ fault' = IF elsewhere /\ "ssl" \in heap THEN "freed" ELSE fault
  /\ UNCHANGED handshake

\* prvFreeContext frees what mbedTLS allocated and closes the session, each time
\* it is called.
FreeContext(elsewhere) ==
  /\ heap' = heap \ {"ssl"}
  /\ session' = CloseSession[session]
  /\ handshake' = "not_started"
  /\ fault' = IF elsewhere /\ "ssl" \in heap THEN "freed" ELSE fault

\* prvEntropyCallback needs the session, and its random bytes may fail.
Seeds == IF session = "open" THEN BOOLEAN ELSE {FALSE}

\* TLS_Init: the context is the socket's as soon as it is allocated. Without
\* memory, a session or a seed the connection fails.
TLSInit ==
  /\ pc = "tlsInit"
  /\ handshake' = "not_started"
  /\ \/ pc' = "cleanup" /\ UNCHANGED <<heap, session>>
     \/ /\ heap' = heap \cup {"tls"}
        /\ session' \in {"none", "open"}
        /\ pc' = IF session' = "open" THEN "seed" ELSE "cleanup"
  /\ UNCHANGED <<interface, enforce_tls, slots, connected, afr, fault>>

Seed ==
  /\ pc = "seed"
  /\ \E seeded \in Seeds : pc' = IF seeded THEN "trust" ELSE "cleanup"
  /\ UNCHANGED <<interface, enforce_tls, socket, afr, fault>>

\* TLS_Connect, up to the client's credentials: the trusted certificates and the
\* configuration. Without them nothing else is tried, and what was parsed is freed.
TrustedCertificates ==
  /\ pc = "trust"
  /\ \/ pc' = "cleanup" /\ UNCHANGED heap
     \/ pc' = "credential" /\ heap' = heap \cup {"certs", "ssl"}
  /\ UNCHANGED <<interface, enforce_tls, session, slots, connected, handshake, afr, fault>>

\* prvReadCertificateIntoContext: found and parsed, not there, or an error. The
\* value it reads into is freed again either way.
ReadCertificate == {"read", "missing", "failed"}

\* prvInitializeClientCredential: the login, the key and the device's
\* certificate must be there, the one of just-in-time provisioning need not.
\* TLS_Connect goes on whatever it answers.
InitializeClientCredential ==
  /\ pc = "credential"
  /\ handshake' = "started"
  /\ \E key \in BOOLEAN, device, jitp \in ReadCertificate :
       pc' = IF key /\ device = "read" /\ jitp \in {"read", "missing"}
             THEN "handshake" ELSE "anonymous"
  /\ UNCHANGED <<interface, enforce_tls, heap, session, slots, connected, afr, fault>>

\* prvPrivateKeySigningCallback: only a client with credentials is asked to
\* sign, with its session.
MaySign == pc = "handshake" => session = "open"

\* The rest of TLS_Connect: the protocols and the server's name may not be
\* taken, the handshake may fail, which frees the context, or succeed. A
\* server that asks for no certificate takes an anonymous client. The
\* certificates are freed on every path.
Handshake ==
  /\ pc \in {"handshake", "anonymous"}
  /\ \/ /\ pc' = "cleanup"
        /\ heap' = heap \ {"certs"}
        /\ UNCHANGED <<session, handshake>>
     \/ /\ pc' = "cleanup"
        /\ heap' = heap \ {"certs", "ssl"}
        /\ session' = CloseSession[session]
        /\ handshake' = "not_started"
     \/ /\ MaySign
        /\ pc' = "established"
        /\ heap' = heap \ {"certs"}
        /\ handshake' = "successful"
        /\ UNCHANGED session
  /\ UNCHANGED <<interface, enforce_tls, slots, connected, afr, fault>>

\* TLS_Recv frees the context on any error, that of a handshake that has not
\* succeeded included; TLS_Send only on an error of the record layer.
TLSRecv(ok, elsewhere) ==
  /\ ok => handshake = "successful"
  /\ IF ok THEN UNCHANGED <<heap, session, handshake, fault>> ELSE FreeContext(elsewhere)

TLSSend(ok, elsewhere) ==
  /\ ok => handshake = "successful"
  /\ IF ok \/ handshake # "successful"
     THEN UNCHANGED <<heap, session, handshake, fault>>
     ELSE FreeContext(elsewhere)

\* TLS_Cleanup: prvFreeContext, again if an error has freed the context before,
\* and then the context itself; rest is what else remains of the heap.
TLSCleanup(rest) ==
  IF "tls" \in heap
  THEN heap' = rest \ {"tls", "ssl"} /\ session' = CloseSession[session]
  ELSE heap' = rest /\ UNCHANGED session

-----------------------------------------------------------------------------
(* The secure sockets port.                                                *)

OpenTakesSlotFirst ==
  /\ pc = "socket"
  /\ \E ok \in BOOLEAN :
       /\ slots > 0
       /\ slots' = slots - 1
       /\ heap' = heap \cup (IF ok THEN {"ctx", "lwip"} ELSE {})
       /\ pc' = IF ~ok THEN "cleanup" ELSE IF enforce_tls THEN "alpn" ELSE "timeouts"
  /\ session' = "none"
  /\ UNCHANGED <<interface, enforce_tls, connected, handshake, afr, fault>>

\* SOCKETS_Socket: a slot, the context, cleared, and the lwIP socket; without the
\* latter the context goes again.
OpenSocket ==
  /\ pc = "socket"
  /\ \/ /\ slots > 0
        /\ heap' = heap \cup {"ctx", "lwip"}
        /\ slots' = slots - 1
        /\ pc' = CASE enforce_tls             -> "alpn"
                   [] ~enforce_tls /\ interface = "transport" -> "timeouts"
                   [] OTHER                   -> "resolve"
     \/ /\ pc' = "cleanup"
        /\ UNCHANGED <<heap, slots>>
  /\ session' = "none"
  /\ UNCHANGED <<interface, enforce_tls, connected, handshake, afr, fault>>

\* SOCKETS_SetSockOpt with an option whose value is copied. The list of
\* protocols stays when one of its strings cannot be copied.
SetSockOpt(option, ok) ==
  CASE ok                     -> {heap \cup {option}}
    [] ~ok /\ option = "alpn" -> {heap, heap \cup {option}}
    [] OTHER                  -> {heap}

\* SOCKETS_Recv and SOCKETS_Send: refused before the socket is connected.
SocketRecv(ok, elsewhere) ==
  /\ ok => connected
  /\ IF connected /\ enforce_tls
     THEN TLSRecv(ok, elsewhere)
     ELSE UNCHANGED <<heap, session, handshake, fault>>

SocketSend(ok, elsewhere) ==
  /\ ok => connected
  /\ IF connected /\ enforce_tls
     THEN TLSSend(ok, elsewhere)
     ELSE UNCHANGED <<heap, session, handshake, fault>>

\* SOCKETS_Connect: the TLS layer follows on the lwIP connection, whose failure
\* leaves nothing more to do. The socket stays connected when TLS fails.
SocketsConnect ==
  /\ pc = "connect"
  /\ \/ pc' = "cleanup" /\ UNCHANGED connected
     \/ /\ pc' = IF enforce_tls THEN "tlsInit" ELSE "established"
        /\ connected' = TRUE
  /\ UNCHANGED <<interface, enforce_tls, heap, session, slots, handshake, afr, fault>>

\* SOCKETS_GetHostByName; nothing is known of the address but whether it is there.
GetHostByName == BOOLEAN

\* SOCKETS_Close gives back what the socket has, and its slot when there was an
\* lwIP socket; the connection it belongs to goes along with it.
CloseSocket ==
  /\ TLSCleanup(heap \ {"alpn", "lwip", "cert", "destination", "ctx", "connection"})
  /\ slots' = slots + (IF "lwip" \in heap THEN 1 ELSE 0)
  /\ handshake' = "not_started"
  /\ connected' = FALSE

-----------------------------------------------------------------------------
(* Connecting, over either interface.                                      *)

\* SecureSocketsTransport_Connect looks at its parameters and leaves the rest to
\* establishConnect; a host name that is too long ends either.
TransportConnect ==
  /\ pc = "idle" /\ interface = "transport"
  /\ pc' = "socket"
  /\ enforce_tls' \in BOOLEAN
  /\ UNCHANGED <<interface, socket, afr, fault>>

\* IotNetworkAfr_Create allocates and clears its connection first.
AfrCreate ==
  /\ pc = "idle" /\ interface = "afr"
  /\ pc' = "socket"
  /\ enforce_tls' \in BOOLEAN
  /\ heap' = heap \cup {"connection"}
  /\ flags' = {} /\ callbackSet' = FALSE /\ rx' = "none" /\ buffered' = 0
  /\ received' = 0 /\ delivered' = <<>> /\ destroyed' = FALSE
  /\ UNCHANGED <<interface, session, slots, connected, handshake, fault>>

\* The order of the options in tlsSetup and in _tlsSetup, and what follows.
tlsSetup  == [alpn |-> "destination", destination |-> "cert", cert |-> "timeouts"]
_tlsSetup == [alpn |-> "destination", destination |-> "cert", cert |-> "resolve"]

\* One option: not asked for, set, or refused for want of memory.
SetOption ==
  /\ pc \in DOMAIN tlsSetup
  /\ \/ /\ pc' = IF interface = "transport" THEN tlsSetup[pc] ELSE _tlsSetup[pc]
        /\ heap' \in {heap} \cup SetSockOpt(pc, TRUE)
     \/ /\ pc' = "cleanup"
        /\ heap' \in SetSockOpt(pc, FALSE)
  /\ UNCHANGED <<interface, enforce_tls, session, slots, connected, handshake, afr, fault>>

\* transportTimeoutSetup cannot fail on an open socket: the result of
\* lwip_setsockopt is not looked at.
TransportTimeoutSetup ==
  /\ pc = "timeouts"
  /\ pc' = "resolve"
  /\ UNCHANGED <<interface, enforce_tls, socket, afr, fault>>

\* connectToServer, and the same steps of IotNetworkAfr_Create.
ConnectToServer ==
  /\ pc = "resolve"
  /\ \E found \in GetHostByName : pc' = IF found THEN "connect" ELSE "cleanup"
  /\ UNCHANGED <<interface, enforce_tls, socket, afr, fault>>

\* establishConnect and IotNetworkAfr_Create after a failure: the socket is
\* closed, if there is one, and the connection freed.
Cleanup ==
  /\ pc = "cleanup"
  /\ IF "ctx" \in heap THEN CloseSocket
     ELSE heap' = heap \ {"connection"} /\ UNCHANGED <<session, slots, connected, handshake>>
  /\ pc' = "idle"
  /\ UNCHANGED <<interface, enforce_tls, afr, fault>>

\* The connection is handed out.
Established ==
  /\ pc = "established"
  /\ pc' = "up"
  /\ UNCHANGED <<interface, enforce_tls, socket, afr, fault>>

\* SecureSocketsTransport_Send and IotNetworkAfr_Send, which sends until
\* everything is gone or an error comes. The receive task goes on meanwhile.
Send ==
  /\ pc = "up" /\ ~destroyed
  /\ pc' = "sending"
  /\ UNCHANGED <<interface, enforce_tls, socket, afr, fault>>

SendReturns ==
  /\ pc = "sending"
  /\ pc' = "up"
  /\ \E ok \in BOOLEAN : SocketSend(ok, rx \in {"reading", "receiving"})
  /\ UNCHANGED <<interface, enforce_tls, slots, connected, afr>>

\* SecureSocketsTransport_Recv: the demos call it on the task that sends.
TransportRecv ==
  /\ pc = "up" /\ interface = "transport"
  /\ \E ok \in BOOLEAN : SocketRecv(ok, FALSE)
  /\ UNCHANGED <<task, slots, connected, afr>>

\* SecureSocketsTransport_Disconnect: a shutdown that fails is only logged.
TransportDisconnect ==
  /\ pc = "up" /\ interface = "transport"
  /\ CloseSocket
  /\ pc' = "idle"
  /\ UNCHANGED <<interface, enforce_tls, afr, fault>>

-----------------------------------------------------------------------------
(* The network interface with its receive task.                            *)

\* IotNetworkAfr_SetReceiveCallback: the callback stays set when the task
\* cannot be created.
SetReceiveCallback ==
  /\ pc = "up" /\ interface = "afr" /\ ~callbackSet /\ flags = {}
  /\ callbackSet' = TRUE
  /\ rx' \in {"none", "polling"}
  /\ UNCHANGED <<task, socket, flags, buffered, received, delivered, destroyed, fault>>

\* IotNetworkAfr_Close by the application waits for the receive task to leave,
\* and then shuts the socket down.
Close ==
  /\ pc = "up" /\ interface = "afr" /\ ~destroyed
  /\ flags' = flags \cup {"SHUTDOWN"}
  /\ pc' = IF rx = "none" THEN "closed" ELSE "closing"
  /\ UNCHANGED <<interface, enforce_tls, socket, callbackSet, rx, buffered,
                 received, delivered, destroyed, fault>>

CloseReturned ==
  /\ pc = "closing" /\ "EXITED" \in flags
  /\ pc' = "closed"
  /\ UNCHANGED <<interface, enforce_tls, socket, afr, fault>>

\* IotNetworkAfr_Destroy by the application asserts that a receive task has
\* left when there is a callback.
Destroy ==
  /\ pc = "closed"
  /\ IF callbackSet /\ "EXITED" \notin flags
     THEN fault' = "assert" /\ UNCHANGED <<pc, socket, rx>>
     ELSE /\ CloseSocket
          /\ pc' = "idle" /\ rx' = "none"
          /\ UNCHANGED fault
  /\ UNCHANGED <<interface, enforce_tls, flags, callbackSet, buffered, received,
                 delivered, destroyed>>

\* _networkReceiveTask, once more before each message.
ReceiveTaskPolls ==
  /\ rx = "polling"
  /\ rx' = "reading"
  /\ UNCHANGED <<task, socket, flags, callbackSet, buffered, received, delivered,
                 destroyed, fault>>

ReadsBeforeFlags ==
  /\ rx = "reading"
  /\ \E read \in {"byte", "timeout", "error"} :
       /\ SocketRecv(read # "error", pc = "sending")
       /\ read = "byte" => received < MaxBytes
       /\ received' = received + (IF read = "byte" THEN 1 ELSE 0)
       /\ rx' = CASE read = "timeout" -> "polling"
                  [] read = "error" \/ (read = "byte" /\ "SHUTDOWN" \in flags) -> "exiting"
                  [] OTHER -> "callback"
       /\ buffered' = IF rx' = "callback" THEN received' ELSE 0
  /\ UNCHANGED <<task, slots, connected, flags, callbackSet, delivered, destroyed>>

\* One byte is read ahead, so that the callback is only called when there is
\* something to read. The flag is looked at after every read, whatever it gave.
ReceiveTaskReads ==
  /\ rx = "reading"
  /\ \E read \in {"byte", "timeout", "error"} :
       /\ SocketRecv(read # "error", pc = "sending")
       /\ read = "byte" => received < MaxBytes
       /\ received' = received + (IF read = "byte" THEN 1 ELSE 0)
       /\ rx' = CASE read = "error" \/ "SHUTDOWN" \in flags -> "exiting"
                  [] read = "timeout" /\ "SHUTDOWN" \notin flags -> "polling"
                  [] OTHER -> "callback"
       /\ buffered' = IF rx' = "callback" THEN received' ELSE 0
  /\ UNCHANGED <<task, slots, connected, flags, callbackSet, delivered, destroyed>>

\* The byte read ahead, if there is one, is the next one of what the callback gets.
HandOut == IF buffered # 0 THEN Append(delivered, buffered) ELSE delivered

\* The callback reads with IotNetworkAfr_Receive: the byte read ahead is handed
\* out first, and the rest is waited for.
Receive ==
  /\ rx = "callback"
  /\ delivered' = HandOut /\ buffered' = 0
  /\ rx' \in IF buffered # 0 THEN {"callback", "receiving"} ELSE {"receiving"}
  /\ UNCHANGED <<task, socket, flags, callbackSet, received, destroyed, fault>>

\* Its loop goes on when nothing has come, closed or not.
ReceiveRest ==
  /\ rx = "receiving"
  /\ \/ /\ SocketRecv(TRUE, pc = "sending")
        /\ received < MaxBytes
        /\ received' = received + 1 /\ delivered' = Append(delivered, received + 1)
        /\ rx' \in {"receiving", "callback"}
     \/ /\ SocketRecv(FALSE, pc = "sending")
        /\ rx' = "callback"
        /\ UNCHANGED <<received, delivered>>
  /\ UNCHANGED <<task, slots, connected, flags, callbackSet, buffered, destroyed>>

\* Mutant of ReceiveUpto: the byte read ahead is put behind what is read now.
UptoHandsOutLast ==
  /\ rx = "callback"
  /\ \/ /\ \E ok \in BOOLEAN : SocketRecv(ok, pc = "sending")
        /\ delivered' = HandOut
        /\ UNCHANGED received
     \/ /\ SocketRecv(TRUE, pc = "sending") /\ received < MaxBytes
        /\ received' = received + 1
        /\ delivered' = IF buffered # 0 THEN delivered \o <<received + 1, buffered>>
                        ELSE Append(delivered, received + 1)
  /\ buffered' = 0
  /\ UNCHANGED <<task, slots, connected, flags, callbackSet, rx, destroyed>>

\* Or with IotNetworkAfr_ReceiveUpto: the byte read ahead, and what one more
\* read gives when there is room for more.
ReceiveUpto ==
  /\ rx = "callback"
  /\ \/ /\ \E ok \in BOOLEAN : SocketRecv(ok, pc = "sending")
        /\ delivered' = HandOut
        /\ UNCHANGED received
     \/ /\ SocketRecv(TRUE, pc = "sending") /\ received < MaxBytes
        /\ received' = received + 1
        /\ delivered' = Append(HandOut, received + 1)
  /\ buffered' = 0
  /\ UNCHANGED <<task, slots, connected, flags, callbackSet, rx, destroyed>>

\* The callback may close the connection at any time, whether or not it has taken
\* its byte and whatever the application does with the connection: iot_network.h
\* wants a close to be safe on a closed connection. IotNetworkAfr_Close does not
\* wait for the task it runs on.
CallbackCloses ==
  /\ rx = "callback" /\ ~destroyed
  /\ flags' = flags \cup {"SHUTDOWN"}
  /\ UNCHANGED <<task, socket, callbackSet, rx, buffered, received, delivered, destroyed, fault>>

\* And it may destroy it then, which the task does when the callback has
\* returned. "No function MAY be called on the network connection after": an
\* application that sends or closes keeps its connection, and one that has lost it
\* leaves it alone.
CallbackDestroys ==
  /\ rx = "callback" /\ ~destroyed /\ "SHUTDOWN" \in flags /\ pc = "up"
  /\ flags' = flags \cup {"DESTROYED"}
  /\ destroyed' = TRUE
  /\ UNCHANGED <<task, socket, callbackSet, rx, buffered, received, delivered, fault>>

\* The task asserts that the callback has taken the byte it was called for.
CallbackReturns ==
  /\ rx = "callback"
  /\ rx' = CASE "DESTROYED" \in flags                     -> "destroying"
             [] "SHUTDOWN" \in flags /\ "DESTROYED" \notin flags -> "exiting"
             [] OTHER                                      -> "polling"
  /\ fault' = IF buffered # 0 /\ rx' = "polling" THEN "assert" ELSE fault
  /\ UNCHANGED <<task, socket, flags, callbackSet, buffered, received, delivered, destroyed>>

ReceiveTaskExits ==
  /\ rx = "exiting"
  /\ flags' = flags \cup {"EXITED"}
  /\ rx' = "exited"
  /\ UNCHANGED <<task, socket, callbackSet, buffered, received, delivered, destroyed, fault>>

\* _destroyConnection by the receive task; the application starts over.
DestroyConnection ==
  /\ rx = "destroying"
  /\ CloseSocket
  /\ rx' = "none" /\ pc' = "idle"
  /\ UNCHANGED <<interface, enforce_tls, flags, callbackSet, buffered, received,
                 delivered, destroyed, fault>>

-----------------------------------------------------------------------------
AppStep == \/ TransportConnect \/ AfrCreate \/ OpenSocket \/ SetOption
           \/ TransportTimeoutSetup \/ ConnectToServer \/ SocketsConnect
           \/ TLSInit \/ Seed \/ TrustedCertificates \/ InitializeClientCredential
           \/ Handshake \/ Cleanup \/ Established
           \/ Send \/ SendReturns \/ TransportRecv \/ TransportDisconnect
           \/ SetReceiveCallback \/ Close \/ CloseReturned \/ Destroy

RxStep == \/ ReceiveTaskPolls \/ ReceiveTaskReads \/ Receive \/ ReceiveRest
          \/ ReceiveUpto \/ CallbackReturns \/ ReceiveTaskExits \/ DestroyConnection

\* The two assertions and the freed context end the program.
Next == fault = "none" /\ (AppStep \/ RxStep \/ CallbackCloses \/ CallbackDestroys)

Spec == Init /\ [][Next]_vars

\* The receive task is scheduled and its reads return at the latest after the
\* poll time; a callback ends; a task whose wait is over is scheduled too.
FairSpec == /\ Spec
            /\ WF_vars(fault = "none" /\ (ReceiveTaskPolls \/ ReceiveTaskReads))
            /\ WF_vars(fault = "none" /\ (ReceiveTaskExits \/ DestroyConnection))
            /\ WF_vars(fault = "none" /\ CallbackReturns)
            /\ WF_vars(fault = "none" /\ CloseReturned)

-----------------------------------------------------------------------------
TypeOK ==
  /\ interface \in Interfaces /\ enforce_tls \in BOOLEAN
  /\ heap \subseteq Memory
  /\ pc \in {"idle", "socket", "alpn", "destination", "cert", "timeouts", "resolve",
             "connect", "tlsInit", "seed", "trust", "credential", "handshake",
             "anonymous", "cleanup", "established", "up", "sending", "closing", "closed"}
  /\ slots \in 0..MaxSockets /\ connected \in BOOLEAN
  /\ handshake \in {"not_started", "started", "successful"}
  /\ flags \subseteq {"SHUTDOWN", "DESTROYED", "EXITED"}
  /\ rx \in {"none", "polling", "reading", "callback", "receiving", "exiting",
             "exited", "destroying"}
  /\ session \in {"none", "open", "closed", "reclosed"}
  /\ received \in 0..MaxBytes /\ buffered \in 0..MaxBytes
  /\ delivered \in Seq(1..MaxBytes) /\ Len(delivered) <= MaxBytes
  /\ callbackSet \in BOOLEAN /\ destroyed \in BOOLEAN
  /\ fault \in {"none", "freed", "assert"}

\* What a connection takes it gives back: the number of sockets that are left is
\* right on every path, those included where the lwIP socket, the options or the
\* handshake have failed; and an application without a connection has nothing of
\* one left, no memory, no PKCS #11 session and no task, whoever destroyed it.
SocketsAccounted ==
  /\ slots + (IF "lwip" \in heap THEN 1 ELSE 0) = MaxSockets
  /\ pc = "idle" => heap = {} /\ session # "open" /\ rx = "none"

\* Whoever works on a connection finds it there. A record is only begun with a
\* context that mbedTLS has not freed: an error that frees it, in whichever task,
\* also takes back the handshake. What the application has been handed stays
\* allocated until it, or the callback in its place, gives it back. The receive task
\* never works on a connection that has been freed, or that its application takes to
\* be closed: closing waits for it, and its callback leaves the destruction to it.
\* That a record that has begun keeps its context is ContextOwned, which fails.
UsersOwn ==
  /\ handshake = "successful" => {"tls", "ssl"} \subseteq heap /\ session = "open"
  /\ pc \in {"up", "sending", "closing", "closed"} =>
       /\ {"ctx", "lwip"} \subseteq heap
       /\ interface = "afr" => "connection" \in heap
  /\ rx \notin {"none", "exited"} =>
       /\ {"connection", "ctx", "lwip"} \subseteq heap
       /\ pc \notin {"idle", "closed"}

\* The callback gets the bytes in the order the peer sends them, each once,
\* whichever function it reads with: what it has got, and the byte read ahead
\* behind it, are the first ones, and all of them. Of a connection that is being
\* closed the last byte read may be missing.
NoByteLost ==
  /\ \A i \in DOMAIN HandOut : HandOut[i] = i
  /\ received - Len(HandOut) \in (IF "SHUTDOWN" \in flags THEN {0, 1} ELSE {0})

\* IotNetworkAfr_Close returns, for the receive task looks at the flag after
\* every read and callback; only a callback that is waiting in
\* IotNetworkAfr_Receive for the rest of a message may hold it up for ever.
CloseReturns == (pc = "closing") ~> (pc # "closing" \/ rx = "receiving" \/ fault # "none")

\* What the code does not keep. A task inside mbedTLS would keep its context: but an
\* error of the other task, reading or sending, frees it, and nothing locks it. And
\* a session would be closed once: but after an error has closed it TLS_Recv,
\* called again, and TLS_Cleanup close it again.
ContextOwned == fault # "freed"
SessionClosedOnce == session # "reclosed"
=============================================================================
