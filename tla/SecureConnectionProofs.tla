----------------------- MODULE SecureConnectionProofs -----------------------
(***************************************************************************)
(* Proofs about a connection, for every number of sockets and bytes and    *)
(* either interface. The three invariants of the runs do not stand alone:  *)
(* what is allocated depends on how far the application has come (Owned),  *)
(* and what the receive task may do on the flags and on where the          *)
(* application waits (Shared).                                             *)
(***************************************************************************)
EXTENDS SecureConnection, TLAPS

(* Where the application has a connection, and where it makes the one that *)
(* the socket port will need.                                              *)
Open     == {"up", "sending", "closing", "closed"}
Options  == {"alpn", "destination", "cert", "timeouts", "resolve", "connect"}
Securing == {"tlsInit", "seed", "trust", "credential", "handshake", "anonymous"}

(* TypeOK, taken apart for the provers.                                    *)
Counts == slots \in 0..MaxSockets /\ received \in 0..MaxBytes /\ buffered \in 0..MaxBytes

Kinds ==
  /\ interface \in Interfaces /\ enforce_tls \in BOOLEAN /\ connected \in BOOLEAN
  /\ callbackSet \in BOOLEAN /\ destroyed \in BOOLEAN
  /\ heap \subseteq Memory /\ flags \subseteq {"SHUTDOWN", "DESTROYED", "EXITED"}
  /\ pc \in {"idle", "socket", "cleanup", "established"} \cup Options \cup Securing \cup Open
  /\ handshake \in {"not_started", "started", "successful"}
  /\ session \in {"none", "open", "closed", "reclosed"}
  /\ rx \in {"none", "polling", "reading", "callback", "receiving", "exiting",
             "exited", "destroying"}
  /\ fault \in {"none", "freed", "assert"}

(* What is allocated at each step of connecting, and what goes together.   *)
Owned ==
  /\ pc = "idle" => heap = {}
  /\ pc = "socket" => heap \subseteq {"connection"}
  /\ interface = "afr" /\ pc # "idle" => "connection" \in heap
  /\ pc \in Options \cup Securing \cup Open \cup {"established"} => "ctx" \in heap
  /\ "ctx" \in heap <=> "lwip" \in heap
  /\ "ctx" \notin heap => heap \subseteq {"connection"}
  /\ "ssl" \in heap \/ session = "open" => "tls" \in heap
  /\ pc \in {"seed", "trust", "credential", "handshake", "anonymous"} =>
       "tls" \in heap /\ session = "open"
  /\ pc \in {"credential", "handshake", "anonymous"} => "ssl" \in heap
  /\ "certs" \in heap => pc \in {"credential", "handshake", "anonymous"}

(* The receive task runs on an open connection; the application that       *)
(* closes waits for it, and the callback that destroys leaves the          *)
(* connection to it.                                                       *)
Shared ==
  /\ rx # "none" => pc \in Open /\ interface = "afr" /\ callbackSet
  /\ "EXITED" \in flags /\ pc # "idle" => rx = "exited"
  /\ rx = "exited" => "EXITED" \in flags
  /\ pc = "closed" => rx \in {"none", "exited"}
  /\ pc \in Open /\ destroyed => pc = "up" /\ rx \in {"callback", "receiving", "destroying"}
  /\ rx = "destroying" => destroyed
  /\ "DESTROYED" \in flags <=> destroyed
  /\ destroyed => "SHUTDOWN" \in flags
  /\ pc \notin Open \cup {"idle"} /\ interface = "afr" => flags = {} /\ buffered = 0
  /\ interface = "transport" => flags = {} /\ buffered = 0

(* The byte read ahead is there between the read and the callback's end.   *)
ReadAhead ==
  /\ rx \in {"polling", "reading", "receiving"} /\ fault = "none" => buffered = 0
  /\ rx = "none" /\ pc \in Open => buffered = 0

(* The callback has the first bytes in their order, and the one read ahead  *)
(* comes next. Only a receive task that is leaving has dropped one.        *)
Bytes ==
  /\ delivered \in Seq(1..MaxBytes)
  /\ \A i \in 1..Len(delivered) : delivered[i] = i
  /\ buffered # 0 => buffered = Len(delivered) + 1
  /\ LET kept == Len(delivered) + (IF buffered # 0 THEN 1 ELSE 0)
     IN  \/ received = kept
         \/ received = kept + 1 /\ "SHUTDOWN" \in flags /\ rx \in {"none", "exiting", "exited"}

IInv == /\ Counts /\ Kinds
        /\ Owned /\ Shared /\ ReadAhead
        /\ SocketsAccounted /\ UsersOwn

-----------------------------------------------------------------------------
LEMMA InvInit == Init => IInv
<1> SUFFICES ASSUME Init PROVE IInv
  OBVIOUS
<1>1. Counts
  BY SecureAssumption DEF Init, Counts, Open, Options, Securing
<1>2. Kinds
  BY SecureAssumption DEF Init, Kinds, Open, Options, Securing
<1>3. Owned
  BY SecureAssumption DEF Init, Owned, Open, Options, Securing
<1>4. Shared
  BY SecureAssumption DEF Init, Shared, Open, Options, Securing
<1>5. ReadAhead
  BY SecureAssumption DEF Init, ReadAhead, Open, Options, Securing
<1>6. SocketsAccounted
  BY SecureAssumption DEF Init, SocketsAccounted, Open, Options, Securing
<1>7. UsersOwn
  BY SecureAssumption DEF Init, UsersOwn, Open, Options, Securing
<1> QED  BY <1>1, <1>2, <1>3, <1>4, <1>5, <1>6, <1>7 DEF IInv

(* SOCKETS_Close leaves nothing of the connection.                         *)
LEMMA CloseFreesAll ==
  ASSUME Kinds, Owned, "certs" \notin heap, CloseSocket
  PROVE  heap' = {} /\ session' \in {"none", "closed", "reclosed"}
<1>1. \A x : x \notin heap'
  BY DEF Kinds, Owned, CloseSocket, TLSCleanup, Memory
<1>2. session' \in {"none", "closed", "reclosed"}
  BY DEF Kinds, Owned, CloseSocket, TLSCleanup, CloseSession
<1> QED  BY <1>1, <1>2

(* No handle that C_CloseSession was called with names an open session.    *)
LEMMA ClosedHandle ==
  ASSUME Kinds
  PROVE  CloseSession[session] \in {"none", "closed", "reclosed"}
BY DEF Kinds, CloseSession

LEMMA InvStep == IInv /\ [Next]_vars => IInv'
<1> SUFFICES ASSUME IInv, [Next]_vars PROVE IInv'
  OBVIOUS
<1> USE SecureAssumption
    DEF IInv, Counts, Kinds, Owned, Shared, ReadAhead, SocketsAccounted, UsersOwn,
        Memory, Open, Options, Securing, task, socket, afr
<1>0. CloseSession[session] \in {"none", "closed", "reclosed"}
  BY ClosedHandle
<1>1. CASE fault = "none" /\ TransportConnect
  BY <1>1 DEF TransportConnect
<1>2. CASE fault = "none" /\ AfrCreate
  <2>1. Counts'
    BY <1>2 DEF AfrCreate
  <2>2. Kinds'
    BY <1>2 DEF AfrCreate
  <2>3. Owned'
    BY <1>2 DEF AfrCreate
  <2>4. Shared'
    BY <1>2 DEF AfrCreate
  <2>5. ReadAhead'
    BY <1>2 DEF AfrCreate
  <2>6. SocketsAccounted'
    BY <1>2 DEF AfrCreate
  <2>7. UsersOwn'
    BY <1>2 DEF AfrCreate
  <2> QED  BY <2>1, <2>2, <2>3, <2>4, <2>5, <2>6, <2>7 DEF IInv
<1>3. CASE fault = "none" /\ OpenSocket
  BY <1>3 DEF OpenSocket
<1>4. CASE fault = "none" /\ SetOption
  BY <1>4 DEF SetOption, SetSockOpt, tlsSetup, _tlsSetup
<1>5. CASE fault = "none" /\ TransportTimeoutSetup
  BY <1>5 DEF TransportTimeoutSetup
<1>6. CASE fault = "none" /\ ConnectToServer
  BY <1>6 DEF ConnectToServer, GetHostByName
<1>7. CASE fault = "none" /\ SocketsConnect
  <2>1. Counts'
    BY <1>7 DEF SocketsConnect
  <2>2. Kinds'
    BY <1>7 DEF SocketsConnect
  <2>3. Owned'
    BY <1>7 DEF SocketsConnect
  <2>4. Shared'
    BY <1>7 DEF SocketsConnect
  <2>5. ReadAhead'
    BY <1>7 DEF SocketsConnect
  <2>6. SocketsAccounted'
    BY <1>7 DEF SocketsConnect
  <2>7. UsersOwn'
    BY <1>7 DEF SocketsConnect
  <2> QED  BY <2>1, <2>2, <2>3, <2>4, <2>5, <2>6, <2>7 DEF IInv
<1>8. CASE fault = "none" /\ TLSInit
  <2>1. Counts'
    BY <1>8 DEF TLSInit
  <2>2. Kinds'
    BY <1>8 DEF TLSInit
  <2>3. Owned'
    BY <1>8 DEF TLSInit
  <2>4. Shared'
    BY <1>8 DEF TLSInit
  <2>5. ReadAhead'
    BY <1>8 DEF TLSInit
  <2>6. SocketsAccounted'
    BY <1>8 DEF TLSInit
  <2>7. UsersOwn'
    BY <1>8 DEF TLSInit
  <2> QED  BY <2>1, <2>2, <2>3, <2>4, <2>5, <2>6, <2>7 DEF IInv
<1>9. CASE fault = "none" /\ Seed
  BY <1>9 DEF Seed, Seeds
<1>10. CASE fault = "none" /\ TrustedCertificates
  <2>1. Counts'
    BY <1>10 DEF TrustedCertificates
  <2>2. Kinds'
    BY <1>10 DEF TrustedCertificates
  <2>3. Owned'
    BY <1>10 DEF TrustedCertificates
  <2>4. Shared'
    BY <1>10 DEF TrustedCertificates
  <2>5. ReadAhead'
    BY <1>10 DEF TrustedCertificates
  <2>6. SocketsAccounted'
    BY <1>10 DEF TrustedCertificates
  <2>7. UsersOwn'
    BY <1>10 DEF TrustedCertificates
  <2> QED  BY <2>1, <2>2, <2>3, <2>4, <2>5, <2>6, <2>7 DEF IInv
<1>11. CASE fault = "none" /\ InitializeClientCredential
  BY <1>11 DEF InitializeClientCredential, ReadCertificate
<1>12. CASE fault = "none" /\ Handshake
  <2>1. Counts'
    BY <1>0, <1>12 DEF Handshake, MaySign
  <2>2. Kinds'
    BY <1>0, <1>12 DEF Handshake, MaySign
  <2>3. Owned'
    BY <1>0, <1>12 DEF Handshake, MaySign
  <2>4. Shared'
    BY <1>0, <1>12 DEF Handshake, MaySign
  <2>5. ReadAhead'
    BY <1>0, <1>12 DEF Handshake, MaySign
  <2>6. SocketsAccounted'
    BY <1>0, <1>12 DEF Handshake, MaySign
  <2>7. UsersOwn'
    BY <1>0, <1>12 DEF Handshake, MaySign
  <2> QED  BY <2>1, <2>2, <2>3, <2>4, <2>5, <2>6, <2>7 DEF IInv
<1>13. CASE fault = "none" /\ Cleanup
  <2>0. heap' = {} /\ session' \in {"none", "closed", "reclosed"}
    BY <1>13, CloseFreesAll DEF Cleanup
  <2>1. Counts'
    BY <1>13, <2>0 DEF Cleanup, CloseSocket
  <2>2. Kinds'
    BY <1>13, <2>0 DEF Cleanup, CloseSocket
  <2>3. Owned'
    BY <1>13, <2>0 DEF Cleanup, CloseSocket
  <2>4. Shared'
    BY <1>13, <2>0 DEF Cleanup, CloseSocket
  <2>5. ReadAhead'
    BY <1>13, <2>0 DEF Cleanup, CloseSocket
  <2>6. SocketsAccounted'
    BY <1>13, <2>0 DEF Cleanup, CloseSocket
  <2>7. UsersOwn'
    BY <1>13, <2>0 DEF Cleanup, CloseSocket
  <2> QED  BY <2>1, <2>2, <2>3, <2>4, <2>5, <2>6, <2>7 DEF IInv
<1>14. CASE fault = "none" /\ Established
  BY <1>14 DEF Established
<1>15. CASE fault = "none" /\ Send
  BY <1>15 DEF Send
<1>16. CASE fault = "none" /\ SendReturns
  <2>1. Counts'
    BY <1>0, <1>16 DEF SendReturns, SocketSend, TLSSend, FreeContext
  <2>2. Kinds'
    BY <1>0, <1>16 DEF SendReturns, SocketSend, TLSSend, FreeContext
  <2>3. Owned'
    BY <1>0, <1>16 DEF SendReturns, SocketSend, TLSSend, FreeContext
  <2>4. Shared'
    BY <1>0, <1>16 DEF SendReturns, SocketSend, TLSSend, FreeContext
  <2>5. ReadAhead'
    BY <1>0, <1>16 DEF SendReturns, SocketSend, TLSSend, FreeContext
  <2>6. SocketsAccounted'
    BY <1>0, <1>16 DEF SendReturns, SocketSend, TLSSend, FreeContext
  <2>7. UsersOwn'
    BY <1>0, <1>16 DEF SendReturns, SocketSend, TLSSend, FreeContext
  <2> QED  BY <2>1, <2>2, <2>3, <2>4, <2>5, <2>6, <2>7 DEF IInv
<1>17. CASE fault = "none" /\ TransportRecv
  BY <1>0, <1>17 DEF TransportRecv, SocketRecv, TLSRecv, FreeContext
<1>18. CASE fault = "none" /\ TransportDisconnect
  <2>0. heap' = {} /\ session' \in {"none", "closed", "reclosed"}
    BY <1>18, CloseFreesAll DEF TransportDisconnect
  <2>1. Counts'
    BY <1>18, <2>0 DEF TransportDisconnect, CloseSocket
  <2>2. Kinds'
    BY <1>18, <2>0 DEF TransportDisconnect, CloseSocket
  <2>3. Owned'
    BY <1>18, <2>0 DEF TransportDisconnect, CloseSocket
  <2>4. Shared'
    BY <1>18, <2>0 DEF TransportDisconnect, CloseSocket
  <2>5. ReadAhead'
    BY <1>18, <2>0 DEF TransportDisconnect, CloseSocket
  <2>6. SocketsAccounted'
    BY <1>18, <2>0 DEF TransportDisconnect, CloseSocket
  <2>7. UsersOwn'
    BY <1>18, <2>0 DEF TransportDisconnect, CloseSocket
  <2> QED  BY <2>1, <2>2, <2>3, <2>4, <2>5, <2>6, <2>7 DEF IInv
<1>19. CASE fault = "none" /\ SetReceiveCallback
  BY <1>19 DEF SetReceiveCallback
<1>20. CASE fault = "none" /\ Close
  BY <1>20 DEF Close
<1>21. CASE fault = "none" /\ CloseReturned
  BY <1>21 DEF CloseReturned
<1>22. CASE fault = "none" /\ Destroy
  <2>0. fault' # "assert" => heap' = {} /\ session' \in {"none", "closed", "reclosed"}
    BY <1>22, CloseFreesAll DEF Destroy
  <2>1. Counts'
    BY <1>22, <2>0 DEF Destroy, CloseSocket
  <2>2. Kinds'
    BY <1>22, <2>0 DEF Destroy, CloseSocket
  <2>3. Owned'
    BY <1>22, <2>0 DEF Destroy, CloseSocket
  <2>4. Shared'
    BY <1>22, <2>0 DEF Destroy, CloseSocket
  <2>5. ReadAhead'
    BY <1>22, <2>0 DEF Destroy, CloseSocket
  <2>6. SocketsAccounted'
    BY <1>22, <2>0 DEF Destroy, CloseSocket
  <2>7. UsersOwn'
    BY <1>22, <2>0 DEF Destroy, CloseSocket
  <2> QED  BY <2>1, <2>2, <2>3, <2>4, <2>5, <2>6, <2>7 DEF IInv
<1>23. CASE fault = "none" /\ ReceiveTaskPolls
  BY <1>23 DEF ReceiveTaskPolls
<1>24. CASE fault = "none" /\ ReceiveTaskReads
  BY <1>0, <1>24 DEF ReceiveTaskReads, SocketRecv, TLSRecv, FreeContext
<1>25. CASE fault = "none" /\ Receive
  <2>1. Counts'
    BY <1>25 DEF Receive
  <2>2. Kinds'
    BY <1>25 DEF Receive
  <2>3. Owned'
    BY <1>25 DEF Receive
  <2>4. Shared'
    BY <1>25 DEF Receive
  <2>5. ReadAhead'
    BY <1>25 DEF Receive
  <2>6. SocketsAccounted'
    BY <1>25 DEF Receive
  <2>7. UsersOwn'
    BY <1>25 DEF Receive
  <2> QED  BY <2>1, <2>2, <2>3, <2>4, <2>5, <2>6, <2>7 DEF IInv
<1>26. CASE fault = "none" /\ ReceiveRest
  <2>1. Counts'
    BY <1>0, <1>26 DEF ReceiveRest, SocketRecv, TLSRecv, FreeContext
  <2>2. Kinds'
    BY <1>0, <1>26 DEF ReceiveRest, SocketRecv, TLSRecv, FreeContext
  <2>3. Owned'
    BY <1>0, <1>26 DEF ReceiveRest, SocketRecv, TLSRecv, FreeContext
  <2>4. Shared'
    BY <1>0, <1>26 DEF ReceiveRest, SocketRecv, TLSRecv, FreeContext
  <2>5. ReadAhead'
    BY <1>0, <1>26 DEF ReceiveRest, SocketRecv, TLSRecv, FreeContext
  <2>6. SocketsAccounted'
    BY <1>0, <1>26 DEF ReceiveRest, SocketRecv, TLSRecv, FreeContext
  <2>7. UsersOwn'
    BY <1>0, <1>26 DEF ReceiveRest, SocketRecv, TLSRecv, FreeContext
  <2> QED  BY <2>1, <2>2, <2>3, <2>4, <2>5, <2>6, <2>7 DEF IInv
<1>27. CASE fault = "none" /\ ReceiveUpto
  <2>1. Counts'
    BY <1>0, <1>27 DEF ReceiveUpto, SocketRecv, TLSRecv, FreeContext
  <2>2. Kinds'
    BY <1>0, <1>27 DEF ReceiveUpto, SocketRecv, TLSRecv, FreeContext
  <2>3. Owned'
    BY <1>0, <1>27 DEF ReceiveUpto, SocketRecv, TLSRecv, FreeContext
  <2>4. Shared'
    BY <1>0, <1>27 DEF ReceiveUpto, SocketRecv, TLSRecv, FreeContext
  <2>5. ReadAhead'
    BY <1>0, <1>27 DEF ReceiveUpto, SocketRecv, TLSRecv, FreeContext
  <2>6. SocketsAccounted'
    BY <1>0, <1>27 DEF ReceiveUpto, SocketRecv, TLSRecv, FreeContext
  <2>7. UsersOwn'
    BY <1>0, <1>27 DEF ReceiveUpto, SocketRecv, TLSRecv, FreeContext
  <2> QED  BY <2>1, <2>2, <2>3, <2>4, <2>5, <2>6, <2>7 DEF IInv
<1>28. CASE fault = "none" /\ CallbackReturns
  <2>1. Counts'
    BY <1>28 DEF CallbackReturns
  <2>2. Kinds'
    BY <1>28 DEF CallbackReturns
  <2>3. Owned'
    BY <1>28 DEF CallbackReturns
  <2>4. Shared'
    <3>1. CASE "DESTROYED" \in flags
      <4>1. rx' = "destroying"
        BY <1>28, <3>1 DEF CallbackReturns
      <4> QED  BY <1>28, <3>1, <4>1 DEF CallbackReturns
    <3>2. CASE "DESTROYED" \notin flags
      <4>1. rx' \in {"exiting", "polling"}
        BY <1>28, <3>2 DEF CallbackReturns
      <4> QED  BY <1>28, <3>2, <4>1 DEF CallbackReturns
    <3> QED  BY <3>1, <3>2
  <2>5. ReadAhead'
    BY <1>28 DEF CallbackReturns
  <2>6. SocketsAccounted'
    BY <1>28 DEF CallbackReturns
  <2>7. UsersOwn'
    BY <1>28 DEF CallbackReturns
  <2> QED  BY <2>1, <2>2, <2>3, <2>4, <2>5, <2>6, <2>7 DEF IInv
<1>29. CASE fault = "none" /\ ReceiveTaskExits
  BY <1>29 DEF ReceiveTaskExits
<1>30. CASE fault = "none" /\ DestroyConnection
  <2>0. heap' = {} /\ session' \in {"none", "closed", "reclosed"}
    BY <1>30, CloseFreesAll DEF DestroyConnection
  <2>1. Counts'
    BY <1>30, <2>0 DEF DestroyConnection, CloseSocket
  <2>2. Kinds'
    BY <1>30, <2>0 DEF DestroyConnection, CloseSocket
  <2>3. Owned'
    BY <1>30, <2>0 DEF DestroyConnection, CloseSocket
  <2>4. Shared'
    BY <1>30, <2>0 DEF DestroyConnection, CloseSocket
  <2>5. ReadAhead'
    BY <1>30, <2>0 DEF DestroyConnection, CloseSocket
  <2>6. SocketsAccounted'
    BY <1>30, <2>0 DEF DestroyConnection, CloseSocket
  <2>7. UsersOwn'
    BY <1>30, <2>0 DEF DestroyConnection, CloseSocket
  <2> QED  BY <2>1, <2>2, <2>3, <2>4, <2>5, <2>6, <2>7 DEF IInv
<1>31. CASE fault = "none" /\ CallbackCloses
  <2>1. Counts'
    BY <1>31 DEF CallbackCloses
  <2>2. Kinds'
    BY <1>31 DEF CallbackCloses
  <2>3. Owned'
    BY <1>31 DEF CallbackCloses
  <2>4. Shared'
    BY <1>31 DEF CallbackCloses
  <2>5. ReadAhead'
    BY <1>31 DEF CallbackCloses
  <2>6. SocketsAccounted'
    BY <1>31 DEF CallbackCloses
  <2>7. UsersOwn'
    BY <1>31 DEF CallbackCloses
  <2> QED  BY <2>1, <2>2, <2>3, <2>4, <2>5, <2>6, <2>7 DEF IInv
<1>33. CASE fault = "none" /\ CallbackDestroys
  <2>1. Counts'
    BY <1>33 DEF CallbackDestroys
  <2>2. Kinds'
    BY <1>33 DEF CallbackDestroys
  <2>3. Owned'
    BY <1>33 DEF CallbackDestroys
  <2>4. Shared'
    BY <1>33 DEF CallbackDestroys
  <2>5. ReadAhead'
    BY <1>33 DEF CallbackDestroys
  <2>6. SocketsAccounted'
    BY <1>33 DEF CallbackDestroys
  <2>7. UsersOwn'
    BY <1>33 DEF CallbackDestroys
  <2> QED  BY <2>1, <2>2, <2>3, <2>4, <2>5, <2>6, <2>7 DEF IInv
<1>32. CASE UNCHANGED vars
  BY <1>32 DEF vars
<1> QED  BY <1>1, <1>2, <1>3, <1>4, <1>5, <1>6, <1>7, <1>8, <1>9, <1>10, <1>11, <1>12, <1>13, <1>14, <1>15, <1>16, <1>17, <1>18, <1>19, <1>20, <1>21, <1>22, <1>23, <1>24, <1>25, <1>26, <1>27, <1>28, <1>29, <1>30, <1>31, <1>32, <1>33 DEF Next, AppStep, RxStep

(* Each step leaves the bytes alone, or hands out the next ones.           *)
LEMMA BytesUnchanged ==
  ASSUME Bytes, UNCHANGED <<received, delivered, buffered>>, "SHUTDOWN" \in flags => "SHUTDOWN" \in flags',
         rx' = rx \/ rx \notin {"none", "exiting", "exited"} \/ rx' \in {"none", "exiting", "exited"}
  PROVE  Bytes'
BY DEF Bytes

(* A byte is read and handed out behind the others.                        *)
LEMMA BytesAppended ==
  ASSUME SecureAssumption, Counts, Bytes, rx \notin {"none", "exiting", "exited"}
  PROVE  /\ HandOut \in Seq(1..MaxBytes) /\ Len(HandOut) = received
         /\ \A i \in 1..Len(HandOut) : HandOut[i] = i
         /\ received < MaxBytes =>
              LET more == Append(HandOut, received + 1)
              IN  /\ more \in Seq(1..MaxBytes) /\ Len(more) = received + 1
                  /\ \A i \in 1..Len(more) : more[i] = i
<1> USE DEF Counts, Bytes
<1>1. HandOut \in Seq(1..MaxBytes) /\ Len(HandOut) = received
  <2>1. CASE buffered = 0
    BY <2>1 DEF HandOut
  <2>2. CASE buffered # 0
    <3>1. buffered \in 1..MaxBytes
      BY <2>2
    <3> QED  BY <2>2, <3>1 DEF HandOut
  <2> QED  BY <2>1, <2>2
<1>2. \A i \in 1..Len(HandOut) : HandOut[i] = i
  <2>1. CASE buffered = 0
    BY <2>1 DEF HandOut
  <2>2. CASE buffered # 0
    <3>1. buffered \in 1..MaxBytes /\ HandOut = Append(delivered, buffered)
      BY <2>2 DEF HandOut
    <3> QED  BY <2>2, <3>1
  <2> QED  BY <2>1, <2>2
<1>3. ASSUME received < MaxBytes
      PROVE  LET more == Append(HandOut, received + 1)
             IN  /\ more \in Seq(1..MaxBytes) /\ Len(more) = received + 1
                 /\ \A i \in 1..Len(more) : more[i] = i
  <2>1. received + 1 \in 1..MaxBytes
    BY <1>3, SecureAssumption
  <2> HIDE DEF Bytes, Counts
  <2> QED  BY <1>1, <1>2, <2>1
<1> QED  BY <1>1, <1>2, <1>3

LEMMA BytesStep == IInv /\ Bytes /\ [Next]_vars => Bytes'
<1> SUFFICES ASSUME IInv, Bytes, [Next]_vars PROVE Bytes'
  OBVIOUS
<1> USE SecureAssumption DEF task, socket, afr
<1>0. Counts /\ Kinds /\ Owned /\ Shared /\ ReadAhead
  BY DEF IInv
<1>1. CASE fault = "none" /\ AfrCreate
  BY <1>1 DEF AfrCreate, Bytes
<1>2. CASE fault = "none" /\ ReceiveTaskReads
  <2>1. buffered = 0 /\ received = Len(delivered) /\ delivered' = delivered /\ flags' = flags
    BY <1>0, <1>2 DEF ReceiveTaskReads, ReadAhead, Bytes
  <2>2. \/ received' = received /\ buffered' = 0
        \/ received' = received + 1 /\ buffered' = received + 1
        \/ received' = received + 1 /\ buffered' = 0 /\ "SHUTDOWN" \in flags /\ rx' = "exiting"
    BY <1>0, <1>2 DEF ReceiveTaskReads, Counts
  <2> QED  BY <1>0, <2>1, <2>2 DEF Bytes, Counts
<1>3. CASE fault = "none" /\ Receive
  <2>1. delivered' = HandOut /\ buffered' = 0 /\ received' = received /\ rx = "callback"
    BY <1>3 DEF Receive
  <2>2. /\ delivered' \in Seq(1..MaxBytes) /\ Len(delivered') = received
        /\ \A i \in 1..Len(delivered') : delivered'[i] = i
    BY <1>0, <2>1, BytesAppended
  <2> QED  BY <1>0, <2>1, <2>2 DEF Bytes, Counts
<1>4. CASE fault = "none" /\ ReceiveRest
  <2>1. /\ rx = "receiving" /\ buffered = 0 /\ buffered' = 0 /\ flags' = flags
        /\ HandOut = delivered /\ rx' \in {"receiving", "callback"}
    BY <1>0, <1>4 DEF ReceiveRest, ReadAhead, HandOut
  <2>2. CASE UNCHANGED <<received, delivered>>
    BY <2>1, <2>2, BytesUnchanged
  <2>3. CASE received < MaxBytes /\ received' = received + 1 /\ delivered' = Append(delivered, received + 1)
    <3>1. /\ delivered' \in Seq(1..MaxBytes) /\ Len(delivered') = received + 1
          /\ \A i \in 1..Len(delivered') : delivered'[i] = i
      BY <1>0, <2>1, <2>3, BytesAppended
    <3> QED  BY <1>0, <2>1, <2>3, <3>1 DEF Bytes, Counts
  <2> QED  BY <1>4, <2>2, <2>3 DEF ReceiveRest
<1>5. CASE fault = "none" /\ ReceiveUpto
  <2>1. rx = "callback" /\ buffered' = 0
    BY <1>5 DEF ReceiveUpto
  <2>2. /\ delivered' \in Seq(1..MaxBytes) /\ Len(delivered') = received'
        /\ \A i \in 1..Len(delivered') : delivered'[i] = i
    <3>1. CASE received' = received /\ delivered' = HandOut
      BY <1>0, <2>1, <3>1, BytesAppended
    <3>2. CASE received < MaxBytes /\ received' = received + 1 /\ delivered' = Append(HandOut, received + 1)
      BY <1>0, <2>1, <3>2, BytesAppended
    <3> QED  BY <1>5, <3>1, <3>2 DEF ReceiveUpto
  <2> QED  BY <2>1, <2>2 DEF Bytes
<1>6. CASE UNCHANGED <<received, delivered, buffered, rx>> /\ flags \subseteq flags'
  BY <1>6, BytesUnchanged
<1>7. CASE /\ UNCHANGED <<received, delivered, buffered>> /\ flags \subseteq flags'
           /\ rx \notin {"none", "exiting", "exited"} \/ rx' \in {"none", "exiting", "exited"}
  BY <1>7, BytesUnchanged
<1>8. CASE fault = "none" /\ SetReceiveCallback
  <2>1. received = Len(delivered) + (IF buffered # 0 THEN 1 ELSE 0)
    BY <1>8 DEF SetReceiveCallback, Bytes
  <2>2. UNCHANGED <<received, delivered, buffered>>
    BY <1>8 DEF SetReceiveCallback
  <2> QED  BY <2>1, <2>2 DEF Bytes
<1>9. CASE UNCHANGED vars
  BY <1>6, <1>9 DEF vars
<1>10. CASE fault = "none" /\ AppStep
  <2>1. CASE TransportConnect \/ OpenSocket \/ SetOption \/ TransportTimeoutSetup \/ ConnectToServer
             \/ SocketsConnect \/ TLSInit \/ Seed \/ TrustedCertificates \/ InitializeClientCredential
             \/ Handshake \/ Cleanup \/ Established \/ Send
    BY <1>6, <2>1 DEF TransportConnect, OpenSocket, SetOption, TransportTimeoutSetup, ConnectToServer,
         SocketsConnect, TLSInit, Seed, TrustedCertificates, InitializeClientCredential, Handshake,
         Cleanup, Established, Send
  <2>2. CASE SendReturns \/ TransportRecv \/ TransportDisconnect \/ Close \/ CloseReturned
    BY <1>6, <2>2 DEF SendReturns, TransportRecv, TransportDisconnect, Close, CloseReturned
  <2>3. CASE Destroy
    BY <1>6, <1>7, <2>3 DEF Destroy
  <2> QED  BY <1>1, <1>8, <1>10, <2>1, <2>2, <2>3 DEF AppStep
<1>11. CASE fault = "none" /\ RxStep
  <2>1. CASE ReceiveTaskPolls \/ CallbackReturns
    BY <1>7, <2>1 DEF ReceiveTaskPolls, CallbackReturns
  <2>2. CASE ReceiveTaskExits \/ DestroyConnection
    BY <1>7, <2>2 DEF ReceiveTaskExits, DestroyConnection
  <2> QED  BY <1>2, <1>3, <1>4, <1>5, <1>11, <2>1, <2>2 DEF RxStep
<1>12. CASE fault = "none" /\ (CallbackCloses \/ CallbackDestroys)
  BY <1>6, <1>12 DEF CallbackCloses, CallbackDestroys
<1> QED  BY <1>9, <1>10, <1>11, <1>12 DEF Next

LEMMA InvAlways == Spec => [](IInv /\ Bytes)
<1>1. Init => Bytes
  BY DEF Init, Bytes
<1> QED  BY <1>1, InvInit, InvStep, BytesStep, PTL DEF Spec

(* Every variable keeps its type; the sockets that are left and the bytes  *)
(* read and handed out stay within their bounds.                           *)
THEOREM ConnectionTyped == Spec => []TypeOK
<1>1. IInv /\ Bytes => TypeOK
  BY SecureAssumption DEF IInv, Bytes, Counts, Kinds, TypeOK, Open, Options, Securing
<1> QED  BY <1>1, InvAlways, PTL

(* Whatever fails and whoever closes, a connection gives back its socket,  *)
(* its memory, its session and its task.                                   *)
THEOREM SocketsGivenBack == Spec => []SocketsAccounted
<1>1. IInv => SocketsAccounted
  BY DEF IInv
<1> QED  BY <1>1, InvAlways, PTL

(* A record is only begun with a context, and the application and the      *)
(* receive task only work on a connection that is allocated. Nothing is    *)
(* said of a context freed while the other task is inside mbedTLS.         *)
THEOREM UsersKeepOwning == Spec => []UsersOwn
<1>1. IInv => UsersOwn
  BY DEF IInv
<1> QED  BY <1>1, InvAlways, PTL

(* What the callback gets, and the byte read ahead behind it, are the      *)
(* bytes the peer has sent, in their order; at most the last one read is   *)
(* missing, when the connection is being closed.                           *)
THEOREM BytesKept == Spec => []NoByteLost
<1>1. ASSUME IInv, Bytes
      PROVE  NoByteLost
  <2>1. \A i \in DOMAIN HandOut : HandOut[i] = i
    <3>1. CASE buffered = 0
      BY <1>1, <3>1 DEF Bytes, HandOut
    <3>2. CASE buffered # 0
      <4>1. buffered = Len(delivered) + 1 /\ HandOut = Append(delivered, buffered)
        BY <1>1, <3>2 DEF Bytes, HandOut
      <4>2. DOMAIN HandOut = 1..(Len(delivered) + 1)
        BY <1>1, <4>1 DEF Bytes
      <4> QED  BY <1>1, <4>1, <4>2 DEF Bytes
    <3> QED  BY <3>1, <3>2
  <2>2. Len(HandOut) = Len(delivered) + (IF buffered # 0 THEN 1 ELSE 0) /\ Len(delivered) \in Nat
    BY <1>1 DEF Bytes, HandOut
  <2>3. received - Len(HandOut) \in (IF "SHUTDOWN" \in flags THEN {0, 1} ELSE {0})
    BY <1>1, <2>2 DEF Bytes, IInv, Counts
  <2> QED  BY <2>1, <2>3 DEF NoByteLost
<1> QED  BY <1>1, InvAlways, PTL
=============================================================================
