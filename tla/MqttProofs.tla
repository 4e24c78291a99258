----------------------------- MODULE MqttProofs -----------------------------
(***************************************************************************)
(* Proofs about the MQTT demos: the report of the defender demo, the       *)
(* connection and the results of the four demos of MqttDemos, and the      *)
(* commands and subscriptions of the coreMQTT Agent demo (Agent).          *)
(***************************************************************************)
EXTENDS MqttDemos, AgentCommands, WellFoundedInduction, SequenceTheorems, TLAPS

(* The report. What the builder computes by recursion over the entries is  *)
(* compared with their sum, for lists of any length.                       *)

(* Induction, from the theorems of the library that take no operator: a set of *)
(* numbers has a least one. *)
Below == {p \in Nat \X Nat : p[1] < p[2]}

LEMMA LeastNumber ==
  ASSUME NEW S, S \subseteq Nat, S # {}
  PROVE  \E x \in S : \A y \in S : x <= y
<1>1. IsWellFoundedOn(Below, Nat)
  BY NatLessThanWellFounded DEF OpToRel, Below
<1>2. PICK x \in S : \A y \in S : <<y, x>> \notin Below
  BY <1>1, WFMin
<1>3. \A y \in S : y \in Nat /\ x \in Nat /\ ~(y < x)
  BY <1>2 DEF Below
<1> QED  BY <1>3

(* A set with 0 and with the successor of each of its numbers has them all. *)
LEMMA Induction ==
  ASSUME NEW S, 0 \in S, \A n \in Nat : n \in S => n + 1 \in S
  PROVE  Nat \subseteq S
<1> SUFFICES ASSUME Nat \ S # {}
             PROVE  FALSE
  OBVIOUS
<1>1. PICK x \in Nat \ S : \A y \in Nat \ S : x <= y
  BY LeastNumber
<1>2. x # 0 /\ x - 1 \in Nat /\ ~(x <= x - 1)
  BY <1>1
<1>3. x - 1 \in S
  BY <1>1, <1>2
<1>4. (x - 1) + 1 \in S
  BY <1>2, <1>3
<1> QED  BY <1>1, <1>4

(* The sums of the first entries, as the recursive function of Total.          *)
Sums(t, e, k) == t = [n \in 0..k |-> IF n = 0 THEN 0 ELSE t[n - 1] + e[n]]

LEMMA SumsExist ==
  ASSUME NEW e
  PROVE  \A k \in Nat : \E t : Sums(t, e, k)
<1> DEFINE S == {k \in Nat : \E t : Sums(t, e, k)}
<1>1. 0 \in S
  <2>1. Sums([n \in 0..0 |-> 0], e, 0)
    BY DEF Sums
  <2> QED  BY <2>1
<1>2. ASSUME NEW k \in Nat, k \in S PROVE k + 1 \in S
  <2>1. PICK g : Sums(g, e, k)
    BY <1>2
  <2> DEFINE h == [n \in 0..(k + 1) |-> IF n = k + 1 THEN g[k] + e[k + 1] ELSE g[n]]
  <2>2. \A n \in 0..(k + 1) : h[n] = IF n = 0 THEN 0 ELSE h[n - 1] + e[n]
    <3> SUFFICES ASSUME NEW n \in 0..(k + 1)
                 PROVE  h[n] = IF n = 0 THEN 0 ELSE h[n - 1] + e[n]
      OBVIOUS
    <3>1. CASE n = k + 1
      BY <3>1
    <3>2. CASE n # k + 1
      <4>1. n \in 0..k /\ (n # 0 => n - 1 \in 0..(k + 1) /\ n - 1 # k + 1)
        BY <3>2
      <4>2. g[n] = IF n = 0 THEN 0 ELSE g[n - 1] + e[n]
        BY <2>1, <4>1 DEF Sums
      <4> QED  BY <4>1, <4>2, <3>2
    <3> QED  BY <3>1, <3>2
  <2>3. Sums(h, e, k + 1)
    BY <2>2 DEF Sums
  <2> HIDE DEF h
  <2> QED  BY <2>3
<1> HIDE DEF S
<1>3. Nat \subseteq S
  BY <1>1, <1>2, Induction
<1> QED  BY <1>3 DEF S

(* The parts and entries that are written, and what they come to.              *)
Lengths == Seq(Nat \ {0})

LEMMA TotalIsSum ==
  ASSUME NEW e \in Lengths
  PROVE  \E t : Sums(t, e, Len(e)) /\ Total(e) = t[Len(e)]
<1> DEFINE T == CHOOSE t : Sums(t, e, Len(e))
<1>1. Len(e) \in Nat
  BY DEF Lengths
<1>2. \E t : Sums(t, e, Len(e))
  BY <1>1, SumsExist
<1>3. Sums(T, e, Len(e))
  BY <1>2
<1>4. Total(e) = T[Len(e)]
  BY DEF Total, Sums
<1> QED  BY <1>3, <1>4

(* The first n entries come to at least n characters, and no less than fewer.  *)
LEMMA SumsGrow ==
  ASSUME NEW e \in Lengths, NEW t, Sums(t, e, Len(e)), NEW k \in 0..Len(e)
  PROVE  /\ t[k] \in Nat /\ t[k] >= k
         /\ k # 0 => t[k - 1] \in Nat /\ e[k] \in Nat /\ e[k] > 0 /\ t[k] = t[k - 1] + e[k]
<1>0. Len(e) \in Nat /\ \A n \in 1..Len(e) : e[n] \in Nat /\ e[n] > 0
  BY DEF Lengths
<1>1. t[0] = 0 /\ \A n \in 1..Len(e) : t[n] = t[n - 1] + e[n]
  BY <1>0 DEF Sums
<1> DEFINE S == {n \in Nat : n <= Len(e) => t[n] \in Nat /\ t[n] >= n}
<1>2. 0 \in S
  BY <1>1
<1>3. ASSUME NEW n \in Nat, n \in S PROVE n + 1 \in S
  <2>1. CASE n + 1 <= Len(e)
    <3>1. n + 1 \in 1..Len(e) /\ n <= Len(e) /\ (n + 1) - 1 = n
      BY <2>1, <1>0
    <3>2. t[n + 1] = t[n] + e[n + 1] /\ e[n + 1] \in Nat /\ e[n + 1] > 0
      BY <3>1, <1>0, <1>1
    <3>3. t[n] \in Nat /\ t[n] >= n
      BY <1>3, <3>1
    <3> QED  BY <3>2, <3>3
  <2>2. CASE ~(n + 1 <= Len(e))
    BY <2>2
  <2> QED  BY <2>1, <2>2
<1> HIDE DEF S
<1>4. Nat \subseteq S
  BY <1>2, <1>3, Induction
<1>5. \A n \in 0..Len(e) : t[n] \in Nat /\ t[n] >= n
  <2>1. \A n \in 0..Len(e) : n \in Nat /\ n <= Len(e)
    BY <1>0
  <2> QED  BY <1>4, <2>1 DEF S
<1>6. k # 0 => k - 1 \in 0..Len(e) /\ k \in 1..Len(e)
  BY <1>0
<1> QED  BY <1>0, <1>1, <1>5, <1>6

(* The loop over the entries writes all of them when they fit, and otherwise   *)
(* says that they do not.                                                      *)
LEMMA EntriesWritten ==
  ASSUME NEW e \in Lengths, NEW room \in Int, room > 0
  PROVE  WriteEntries(e, room) = IF Total(e) < room THEN Total(e) ELSE TooSmall
<1>0. Len(e) \in Nat
  BY DEF Lengths
<1>1. PICK t : Sums(t, e, Len(e)) /\ Total(e) = t[Len(e)]
  BY TotalIsSum
<1> DEFINE Fits(n) == IF t[n] < room THEN t[n] ELSE TooSmall
           Loop(w) == w = [n \in 0..Len(e) |->
                             IF n = 0 THEN 0
                             ELSE Then(w[n - 1], Snprintf(e[n], room - w[n - 1]))]
           W == CHOOSE w : Loop(w)
<1>2. t[0] = 0
  BY <1>0, <1>1 DEF Sums
<1>3. \A n \in 1..Len(e) : Fits(n) = Then(Fits(n - 1), Snprintf(e[n], room - Fits(n - 1)))
  <2> SUFFICES ASSUME NEW n \in 1..Len(e)
               PROVE  Fits(n) = Then(Fits(n - 1), Snprintf(e[n], room - Fits(n - 1)))
    OBVIOUS
  <2>1. /\ t[n] \in Nat /\ t[n - 1] \in Nat /\ e[n] \in Nat /\ e[n] > 0
        /\ t[n] = t[n - 1] + e[n]
    BY <1>0, <1>1, SumsGrow
  <2> QED  BY <2>1 DEF Then, Snprintf, TooSmall
<1>4. Loop([n \in 0..Len(e) |-> Fits(n)])
  <2> DEFINE f == [n \in 0..Len(e) |-> Fits(n)]
  <2>1. \A n \in 0..Len(e) :
          f[n] = IF n = 0 THEN 0 ELSE Then(f[n - 1], Snprintf(e[n], room - f[n - 1]))
    <3> SUFFICES ASSUME NEW n \in 0..Len(e)
                 PROVE  f[n] = IF n = 0 THEN 0
                               ELSE Then(f[n - 1], Snprintf(e[n], room - f[n - 1]))
      OBVIOUS
    <3>1. CASE n = 0
      BY <3>1, <1>2
    <3>2. CASE n # 0
      <4>1. n \in 1..Len(e) /\ n - 1 \in 0..Len(e)
        BY <3>2, <1>0
      <4>2. f[n] = Fits(n) /\ f[n - 1] = Fits(n - 1)
        BY <4>1
      <4> HIDE DEF f, Fits
      <4> QED  BY <4>1, <4>2, <3>2, <1>3
    <3> QED  BY <3>1, <3>2
  <2> HIDE DEF Fits
  <2> QED  BY <2>1
<1>5. Loop(W)
  <2>1. \E w : Loop(w)
    BY <1>4
  <2> HIDE DEF Loop
  <2> QED  BY <2>1
<1>6. \A n \in 0..Len(e) : W[n] = Fits(n)
  <2> DEFINE S == {n \in Nat : n <= Len(e) => W[n] = Fits(n)}
  <2> HIDE DEF W
  <2>1. 0 \in S
    BY <1>0, <1>2, <1>5
  <2>2. ASSUME NEW n \in Nat, n \in S PROVE n + 1 \in S
    <3>1. CASE n + 1 <= Len(e)
      <4>1. n + 1 \in 1..Len(e) /\ n + 1 \in 0..Len(e) /\ n <= Len(e) /\ (n + 1) - 1 = n
        BY <3>1, <1>0
      <4>2. W[n + 1] = Then(W[n], Snprintf(e[n + 1], room - W[n]))
        BY <1>5, <4>1
      <4>3. W[n] = Fits(n)
        BY <2>2, <4>1
      <4>4. Fits(n + 1) = Then(Fits(n), Snprintf(e[n + 1], room - Fits(n)))
        <5> HIDE DEF Fits
        <5> QED  BY <1>3, <4>1
      <4> HIDE DEF Fits
      <4> QED  BY <4>2, <4>3, <4>4
    <3>2. CASE ~(n + 1 <= Len(e))
      BY <3>2
    <3> QED  BY <3>1, <3>2
  <2> HIDE DEF S
  <2>3. Nat \subseteq S
    BY <2>1, <2>2, Induction
  <2>4. \A n \in 0..Len(e) : n \in Nat /\ n <= Len(e)
    BY <1>0
  <2> QED  BY <2>3, <2>4 DEF S
<1>7. WriteEntries(e, room) = W[Len(e)]
  BY DEF WriteEntries
<1>8. Len(e) \in 0..Len(e)
  BY <1>0
<1> HIDE DEF W
<1> QED  BY <1>1, <1>6, <1>7, <1>8

(* An array is written when it fits, with its bracket in place of the last     *)
(* comma.                                                                      *)
LEMMA ArrayWritten ==
  ASSUME NEW e \in Lengths, NEW room \in Int
  PROVE  /\ WritePortsArray(e, room) =
              IF ArrayLength(e) < room THEN ArrayLength(e) ELSE TooSmall
         /\ ArrayLength(e) \in Nat /\ ArrayLength(e) >= 2
<1>0. Len(e) \in Nat /\ (e = <<>> <=> Len(e) = 0)
  BY DEF Lengths
<1>1. PICK t : Sums(t, e, Len(e)) /\ Total(e) = t[Len(e)]
  BY TotalIsSum
<1>2. Total(e) \in Nat /\ Total(e) >= Len(e)
  BY <1>0, <1>1, SumsGrow
<1>3. e = <<>> => Total(e) = 0
  BY <1>0, <1>1 DEF Sums
<1>4. room - 1 > 0 =>
        WriteEntries(e, room - 1) = IF Total(e) < room - 1 THEN Total(e) ELSE TooSmall
  BY EntriesWritten
<1> DEFINE open == Then(Marker(room), WriteEntries(e, room - 1))
           end == IF open # TooSmall /\ e # <<>> THEN open - 1 ELSE open
<1>5. open = IF room > 1 /\ Total(e) < room - 1 THEN 1 + Total(e) ELSE TooSmall
  BY <1>2, <1>4 DEF Then, Marker, TooSmall
<1>6. end = IF room > 1 /\ Total(e) < room - 1
            THEN IF e # <<>> THEN Total(e) ELSE 1
            ELSE TooSmall
  BY <1>2, <1>3, <1>5 DEF TooSmall
<1>7. WritePortsArray(e, room) = Then(end, Marker(room - end))
  BY DEF WritePortsArray
<1> HIDE DEF end
<1>8. CASE e = <<>>
  BY <1>3, <1>6, <1>7, <1>8 DEF Then, Marker, TooSmall, ArrayLength
<1>9. CASE e # <<>>
  BY <1>0, <1>2, <1>6, <1>7, <1>9 DEF Then, Marker, TooSmall, ArrayLength
<1> QED  BY <1>8, <1>9

LEMMA PartsTotal ==
  /\ Total(Parts) = Parts[1] + Parts[2] + Parts[3] + Parts[4] + Parts[5]
  /\ \A i \in 1..5 : Parts[i] \in Nat /\ Parts[i] > 0
<1>1. Parts \in Lengths /\ Len(Parts) = 5
  BY ReportAssumption DEF Lengths
<1>2. \A i \in 1..5 : Parts[i] \in Nat /\ Parts[i] > 0
  <2>1. \A i \in 1..Len(Parts) : Parts[i] \in Nat \ {0}
    BY ReportAssumption
  <2> QED  BY <1>1, <2>1
<1>3. PICK t : Sums(t, Parts, 5) /\ Total(Parts) = t[5]
  BY <1>1, TotalIsSum
<1>4. /\ t[0] = 0 /\ t[1] = t[0] + Parts[1] /\ t[2] = t[1] + Parts[2]
      /\ t[3] = t[2] + Parts[3] /\ t[4] = t[3] + Parts[4] /\ t[5] = t[4] + Parts[5]
  BY <1>3 DEF Sums
<1> QED  BY <1>2, <1>3, <1>4

(* A step of the report: what comes next is written when there is room.        *)
UpTo(n) == IF n < Room THEN n ELSE TooSmall

LEMMA TextFollows ==
  ASSUME NEW n \in Nat, NEW k \in Nat
  PROVE  Then(UpTo(n), Snprintf(k, Room - UpTo(n))) = UpTo(n + k)
BY ReportAssumption DEF Then, UpTo, Snprintf, TooSmall

LEMMA ArrayFollows ==
  ASSUME NEW n \in Nat, NEW e \in Lengths
  PROVE  /\ Then(UpTo(n), WritePortsArray(e, Room - UpTo(n))) = UpTo(n + ArrayLength(e))
         /\ n + ArrayLength(e) \in Nat
<1>1. Room \in Nat /\ UpTo(n) \in Int
  BY ReportAssumption DEF UpTo, TooSmall
<1>2. /\ WritePortsArray(e, Room - UpTo(n)) =
           IF ArrayLength(e) < Room - UpTo(n) THEN ArrayLength(e) ELSE TooSmall
      /\ ArrayLength(e) \in Nat
  BY <1>1, ArrayWritten
<1> QED  BY <1>1, <1>2 DEF Then, UpTo, TooSmall

(* GenerateJsonReport writes the whole report or says that it does not fit,    *)
(* whatever was gathered.                                                      *)
THEOREM ReportWritten ==
  ASSUME NEW m,
         m.tcp \in Lengths, m.udp \in Lengths, m.connections \in Lengths, m.tasks \in Lengths
  PROVE  GenerateJsonReport(m) =
           IF ReportLength(m) < Room THEN ReportLength(m) ELSE TooSmall
<1> DEFINE n1 == Parts[1]
           n2 == n1 + ArrayLength(m.tcp)
           n3 == n2 + Parts[2]
           n4 == n3 + ArrayLength(m.udp)
           n5 == n4 + Parts[3]
           n6 == n5 + ArrayLength(m.connections)
           n7 == n6 + Parts[4]
           n8 == n7 + ArrayLength(m.tasks)
           n9 == n8 + Parts[5]
           a1 == Snprintf(Parts[1], Room)
           a2 == Then(a1, WritePortsArray(m.tcp, Room - a1))
           a3 == Then(a2, Snprintf(Parts[2], Room - a2))
           a4 == Then(a3, WritePortsArray(m.udp, Room - a3))
           a5 == Then(a4, Snprintf(Parts[3], Room - a4))
           a6 == Then(a5, WritePortsArray(m.connections, Room - a5))
           a7 == Then(a6, Snprintf(Parts[4], Room - a6))
           a8 == Then(a7, WritePortsArray(m.tasks, Room - a7))
           a9 == Then(a8, Snprintf(Parts[5], Room - a8))
<1>1. GenerateJsonReport(m) = a9
  BY DEF GenerateJsonReport, WriteConnectionsArray, WriteTaskIdsArray
<1>2. /\ ArrayLength(m.tcp) \in Nat /\ ArrayLength(m.udp) \in Nat
      /\ ArrayLength(m.connections) \in Nat /\ ArrayLength(m.tasks) \in Nat
  BY ArrayWritten, 0 \in Int
<1>3. /\ n1 \in Nat /\ n2 \in Nat /\ n3 \in Nat /\ n4 \in Nat /\ n5 \in Nat
      /\ n6 \in Nat /\ n7 \in Nat /\ n8 \in Nat
      /\ Parts[2] \in Nat /\ Parts[3] \in Nat /\ Parts[4] \in Nat /\ Parts[5] \in Nat
  BY <1>2, PartsTotal
<1>4. n9 = ReportLength(m)
  BY <1>2, PartsTotal DEF ReportLength
<1>5. a1 = UpTo(n1)
  BY DEF Snprintf, UpTo
<1> HIDE DEF n1, n2, n3, n4, n5, n6, n7, n8, n9, a1, a2, a3, a4, a5, a6, a7, a8, a9
<1>6. a2 = UpTo(n2)
  BY <1>3, <1>5, ArrayFollows DEF a2, n2
<1>7. a3 = UpTo(n3)
  BY <1>3, <1>6, TextFollows DEF a3, n3
<1>8. a4 = UpTo(n4)
  BY <1>3, <1>7, ArrayFollows DEF a4, n4
<1>9. a5 = UpTo(n5)
  BY <1>3, <1>8, TextFollows DEF a5, n5
<1>10. a6 = UpTo(n6)
  BY <1>3, <1>9, ArrayFollows DEF a6, n6
<1>11. a7 = UpTo(n7)
  BY <1>3, <1>10, TextFollows DEF a7, n7
<1>12. a8 = UpTo(n8)
  BY <1>3, <1>11, ArrayFollows DEF a8, n8
<1>13. a9 = UpTo(n9)
  BY <1>3, <1>12, TextFollows DEF a9, n9
<1> QED  BY <1>1, <1>4, <1>13 DEF UpTo

(* What the collector gathers is of that kind.                                 *)
LEMMA GatheredLengths ==
  ASSUME NEW m \in Metrics
  PROVE  /\ m.tcp \in Lengths /\ m.udp \in Lengths
         /\ m.connections \in Lengths /\ m.tasks \in Lengths
<1>1. ASSUME NEW s \in Seq(EntrySizes)
      PROVE  Gathered(s) \in Lengths
  <2> DEFINE k == IF Len(s) < ArraySize THEN Len(s) ELSE ArraySize
  <2>1. k \in Nat /\ k <= Len(s) /\ k \in 0..Len(s)
    BY ReportAssumption
  <2>2. \A i \in 1..k : s[i] \in EntrySizes
    BY <2>1
  <2> HIDE DEF k
  <2>3. SubSeq(s, 1, k) \in Seq(EntrySizes)
    BY <2>1, SubSeqProperties
  <2>4. Seq(EntrySizes) \subseteq Lengths
    <3> SUFFICES ASSUME NEW q \in Seq(EntrySizes)
                 PROVE  q \in Seq(Nat \ {0})
      BY DEF Lengths
    <3>1. \A i \in 1..Len(q) : q[i] \in Nat \ {0}
      <4>1. EntrySizes \subseteq Nat \ {0}
        BY ReportAssumption
      <4>2. \A i \in 1..Len(q) : q[i] \in EntrySizes
        OBVIOUS
      <4> QED  BY <4>1, <4>2
    <3>2. q = [i \in 1..Len(q) |-> q[i]] /\ Len(q) \in Nat
      OBVIOUS
    <3> QED  BY <3>1, <3>2
  <2> QED  BY <2>3, <2>4 DEF Gathered, k
<1>2. Lists \subseteq Seq(EntrySizes)
  <2>1. \A n \in Nat : [1..n -> EntrySizes] \subseteq Seq(EntrySizes)
    OBVIOUS
  <2> QED  BY <2>1, ReportAssumption DEF Lists
<1>3. <<>> \in Seq(EntrySizes)
  OBVIOUS
<1>4. PICK t \in Lists, c \in Lists, e \in EntrySizes :
        m = [tcp |-> Gathered(t), udp |-> Gathered(<<>>),
             connections |-> Gathered(c), tasks |-> <<e>>]
  BY DEF Metrics, GetOpenTcpPorts, GetOpenUdpPorts, GetEstablishedConnections
<1>5. <<e>> \in Lengths
  BY ReportAssumption DEF Lengths
<1> QED  BY <1>1, <1>2, <1>3, <1>4, <1>5

-----------------------------------------------------------------------------
(* The demos: what their steps, connection, exchange with the broker,      *)
(* handlers and globals always are.                                        *)

Last == Len(Script[demo])
Waits == {"subscribe", "unsubscribe", "unsubscribeFirst", "delete", "awaitDelete", "desired",
          "reported", "describe", "work", "report", "awaitReport", "mutualSubscribe", "echo",
          "mutualUnsubscribe"}

(* Where a demo stands while it waits, and when it has returned.           *)
Placed ==
  /\ phase = "wait" => Op \in Waits
  /\ phase = "mqtt" => Op = "establish"
  /\ phase = "check" => Op = "mutualSubscribe"
  /\ at = 1 => status
  /\ result # "none" => Op = "end"

(* The socket: open while the shadow and the defender demo have something  *)
(* to disconnect, broken when they have nothing to disconnect but left it  *)
(* open; not open when the others begin a run.                             *)
SocketInv ==
  /\ demo \in {"shadow", "defender"} /\ phase # "mqtt" /\ tcp = "open" =>
       /\ ~connected => link = "broken"
       /\ at \in {1, Last} => ~connected
  /\ demo = "shadow" =>
       /\ phase = "mqtt" \/ at \in 2..(Last - 1) => tcp = "open"
       /\ fault # "reclosed"
  /\ demo = "defender" =>
       /\ phase = "mqtt" \/ (connected /\ at < Last) => tcp = "open"
       /\ at = 1 => ~connected
       /\ fault # "reclosed"
  /\ demo = "jobs" =>
       /\ ~lost
       /\ (at = 1 /\ phase = "run") \/ at = Last => tcp # "open"
  /\ demo = "mutual" =>
       /\ ~lost
       /\ at \in {1, Last} => tcp # "open"
       /\ tcp = "open" => connected

Here == demo \in Demos /\ at \in 1..Last /\ {status, connected, lost} \subseteq BOOLEAN
        /\ phase \in {"run", "mqtt", "wait", "check"}

IPlace == Here /\ Placed /\ SocketInv

Wires ==
  /\ demo \in Demos /\ session \in BOOLEAN
  /\ result \in {"none", "success", "failure"} /\ fault \in {"none", "assert", "reclosed"}
  /\ tcp \in {"none", "open", "stale"} /\ link \in {"down", "up", "broken"}
  /\ losses \in 0..MaxLosses

Exchange ==
  /\ attempts \in 0..RetryMax /\ nextId \in Nat /\ subAck \in BOOLEAN
  /\ packetType \in {"none", "SUBACK", "UNSUBACK", "PUBLISH"}
  /\ slots \in [Slot -> Nat]
  /\ \A p \in owed : p.n \in Nat

Frames == [job : Nat, step : {"begin", "act", "report", "return"}, wait : BOOLEAN]
Handlers == stack \in Seq(Frames) /\ Len(stack) <= MaxNested

Globals ==
  /\ demo = "jobs" => {"offered", "retry"} \subseteq DOMAIN notes /\ notes.offered \in Nat
  /\ demo = "defender" => "id" \in DOMAIN notes /\ notes.id \in Nat
  /\ demo = "mutual" => "granted" \in DOMAIN notes /\ notes.granted \in BOOLEAN

(* There is a run left for the demo to begin, or to finish.                *)
RunsLeft ==
  /\ runs \in 0..MaxRuns
  /\ IF demo = "jobs" THEN at <= 5 \/ notes.retry => runs < MaxRuns
                      ELSE result = "none" => runs < MaxRuns

(* What the defender demo knows of its report is of the last one.          *)
Answered ==
  demo = "defender" =>
    /\ {"response", "answered", "id", "metrics", "length"} \subseteq DOMAIN notes
    /\ notes.response # "none" => notes.answered = notes.id
    /\ result = "success" => notes.response = "accepted"
    /\ notes.metrics \subseteq Metrics

IInv ==
  /\ Wires /\ Exchange /\ Handlers /\ Globals
  /\ IPlace /\ RunsLeft /\ Answered /\ ReportExact

LEMMA Scripts ==
  ASSUME NEW d \in Demos
  PROVE  /\ d \in {"mutual", "shadow", "jobs", "defender"}
         /\ Len(Script[d]) \in 7..18
         /\ d = "shadow" <=> Len(Script[d]) = 18
<1>1. Len(Script.mutual) = 7 /\ Len(Script.shadow) = 18 /\ Len(Script.jobs) = 8
      /\ Len(Script.defender) = 10
  BY DEF Script
<1>2. d \in {"mutual", "shadow", "jobs", "defender"}
  BY DemosAssumption
<1> QED  BY <1>1, <1>2

(* Where the steps are that the invariant is about.                        *)
LEMMA Steps ==
  ASSUME NEW d \in Demos, NEW last, last = Len(Script[d]),
         NEW k \in 1..last, NEW o, o = Script[d][k]
  PROVE  /\ last \in 7..18
         /\ o = "establish" <=> k = 1 /\ d # "mutual"
         /\ o = "connect" <=> k = 1 /\ d = "mutual"
         /\ o = "mqttConnect" <=> k = 2 /\ d = "mutual"
         /\ o = "disconnect" <=> k = last - 1 /\ d # "mutual"
         /\ o = "mutualDisconnect" <=> k = last - 1 /\ d = "mutual"
         /\ o = "end" <=> k = last
         /\ o = "count" <=> k = 5 /\ d = "jobs"
         /\ o = "unsubscribeFirst" => d = "defender" /\ k = 7 /\ last = 10
         /\ o = "checkReport" => d = "defender" /\ k = 6
         /\ o = "checkDeleted" => d = "shadow" /\ k = 8
         /\ o \in {"report", "awaitReport"} => d = "defender"
         /\ o = "mutualSubscribe" => d = "mutual"
         /\ o \in Waits => k > 1 /\ k < last - 1
         /\ "end" \in Always[d]
         /\ o \in {"disconnect", "mutualDisconnect"} => o \in Always[d]
         /\ d \in {"mutual", "shadow", "jobs", "defender"}
         /\ d = "shadow" <=> last = 18
<1>1. CASE d = "mutual"
  <2>1. Len(Script[d]) = 7 /\ o = Script.mutual[k] /\ Always[d] = Always.mutual
    BY <1>1 DEF Script, Always
  <2> QED  BY <1>1, <2>1 DEF Script, Always, Waits
<1>2. CASE d = "shadow"
  <2>1. Len(Script[d]) = 18 /\ o = Script.shadow[k] /\ Always[d] = Always.shadow
    BY <1>2 DEF Script, Always
  <2> QED  BY <1>2, <2>1 DEF Script, Always, Waits
<1>3. CASE d = "jobs"
  <2>1. Len(Script[d]) = 8 /\ o = Script.jobs[k] /\ Always[d] = Always.jobs
    BY <1>3 DEF Script, Always
  <2> QED  BY <1>3, <2>1 DEF Script, Always, Waits
<1>4. CASE d = "defender"
  <2>1. Len(Script[d]) = 10 /\ o = Script.defender[k] /\ Always[d] = Always.defender
    BY <1>4 DEF Script, Always
  <2> QED  BY <1>4, <2>1 DEF Script, Always, Waits
<1> QED  BY <1>1, <1>2, <1>3, <1>4, DemosAssumption

LEMMA Standing ==
  ASSUME IPlace
  PROVE  /\ Op = "count" <=> at = 5 /\ demo = "jobs"
         /\ Op \in {"report", "awaitReport"} => demo = "defender"
         /\ Op = "mutualSubscribe" => demo = "mutual"
         /\ at \in Nat /\ (Op = "end" <=> at = Last)
<1>1. at \in 1..Last /\ demo \in Demos /\ Op = Script[demo][at] /\ at \in Nat
  <2>1. Len(Script[demo]) \in Nat
    BY Scripts DEF IPlace, Here
  <2> QED  BY <2>1 DEF IPlace, Here, Op, Last
<1>2. Op = "count" <=> at = 5 /\ demo = "jobs"
  BY <1>1, Steps DEF Last
<1>3. /\ Op \in {"report", "awaitReport"} => demo = "defender"
      /\ Op = "mutualSubscribe" => demo = "mutual"
  BY <1>1, Steps DEF Last
<1>4. Op = "end" <=> at = Last
  <2>1. Last = Len(Script[demo])
    BY DEF Last
  <2> QED  BY <1>1, <2>1, Steps
<1> QED  BY <1>1, <1>2, <1>3, <1>4

-----------------------------------------------------------------------------
(* The place and the socket. Between connecting and disconnecting a step   *)
(* moves on, and leaves the socket as it is.                               *)

Edges == {"establish", "connect", "disconnect", "mutualDisconnect", "end"}

Moves ==
  /\ result = "none" /\ Op \notin Edges /\ status' \in BOOLEAN
  /\ \/ at' = at + 1 /\ phase' = "run"
     \/ Op = "unsubscribeFirst" /\ at' = at + 2 /\ phase' = "run"
     \/ at' = at /\ phase' = "run"
     \/ at' = at /\ phase' = "wait" /\ Op \in Waits
     \/ at' = at /\ phase' = "check" /\ Op = "mutualSubscribe"

Within ==
  /\ UNCHANGED <<demo, result, tcp, lost, connected>>
  /\ fault' \in {fault, "assert"} /\ link' \in {link, "broken"}
  /\ UNCHANGED place \/ Moves

LEMMA WithinKeeps ==
  ASSUME IPlace, Within
  PROVE  IPlace'
<1>1. demo' = demo /\ Last' = Last
  BY DEF Within, Last
<1>2. CASE UNCHANGED place
  <2>1. at' = at /\ phase' = phase /\ status' = status /\ Op' = Op
    BY <1>1, <1>2 DEF place, Op
  <2> QED  BY <1>1, <2>1 DEF Within, IPlace, Here, Placed, SocketInv, Last
<1>3. CASE Moves
  <2> DEFINE L == Len(Script[demo])
  <2>1. at \in 1..L /\ demo \in Demos /\ L = Last
    BY DEF IPlace, Here, Last
  <2>2. /\ L \in 7..18 /\ at > 1 /\ at < L - 1
        /\ Op = "unsubscribeFirst" => at = 7 /\ L = 10
        /\ demo \in {"mutual", "shadow", "jobs", "defender"}
        /\ demo = "shadow" => L = 18
    <3>1. Op = Script[demo][at]
      BY DEF Op
    <3>2. Op \notin Edges
      BY <1>3 DEF Moves
    <3> HIDE DEF L
    <3>3. /\ L \in 7..18
          /\ at = 1 => Op \in {"establish", "connect"}
          /\ at = L - 1 => Op \in {"disconnect", "mutualDisconnect"}
          /\ at = L => Op = "end"
          /\ Op = "unsubscribeFirst" => at = 7 /\ L = 10
          /\ demo \in {"mutual", "shadow", "jobs", "defender"}
          /\ demo = "shadow" => L = 18
      BY <2>1, <3>1, Steps DEF L
    <3> QED  BY <2>1, <3>2, <3>3 DEF Edges
  <2>3. at' \in 1..L /\ at' > 1 /\ at' < L /\ at' \in Int /\ phase' # "mqtt"
    BY <1>3, <2>1, <2>2 DEF Moves
  <2>4. Op' = Script[demo][at']
    BY <1>1 DEF Op
  <2>5. at' = at => Op' = Op
    BY <2>4 DEF Op
  <2>6. Placed'
    BY <1>1, <1>3, <2>2, <2>3, <2>5 DEF Placed, Moves, Within
  <2>7. Here'
    BY <1>1, <1>3, <2>1, <2>3 DEF Here, Moves, Within, IPlace
  <2>8. SocketInv'
    <3> HIDE DEF L
    <3>1. Last' = L /\ L \in Int
      BY <1>1, <2>1, <2>2
    <3>2. phase # "mqtt"
      BY <1>3 DEF IPlace, Placed, Moves, Edges
    <3> QED  BY <1>1, <2>1, <2>2, <2>3, <3>1, <3>2 DEF SocketInv, Within, IPlace, Here
  <2> QED  BY <2>6, <2>7, <2>8 DEF IPlace
<1> QED  BY <1>2, <1>3 DEF Within

LEMMA InnerSteps ==
  ASSUME Wires, Globals, IPlace,
         \/ Skip \/ SubscribeToTopic \/ Subscribed \/ NothingToUnsubscribe
         \/ UnsubscribeFromTopic \/ Unsubscribed \/ ReceiveAck
         \/ ReceivePublish \/ LoopTimedOut \/ LoopFailed \/ DeleteShadow
         \/ AwaitDelete \/ DeleteAnswered \/ CheckDeleted \/ UpdateDesired
         \/ UpdateReported \/ DescribeNextJob \/ Work \/ WorkEnds
         \/ ProcessJobDocument \/ CountRun \/ SendReport \/ AwaitReport
         \/ SecondOver \/ CheckReport \/ CreateMQTTConnectionWithBroker
         \/ MutualSubscribe \/ MutualWaited \/ MutualSubscribeAgain
         \/ MutualPublish \/ EchoWaited \/ MutualUnsubscribe
         \/ MutualUnsubscribed \/ MutualReceiveAck \/ OfferJob \/ LinkLost
         \/ Rest
  PROVE  Within
<1> USE DEF Within, Moves, Edges, place, connection, Running, Ready, Proceed, WaitOver
<1>0. phase = "wait" => Op \in Waits
  BY DEF IPlace, Placed
<1>s. status \in BOOLEAN /\ fault \in {fault, "assert"}
  BY DEF IPlace, Here
<1>1. CASE Skip
  <2>1. at \in 1..Last /\ demo \in Demos /\ Op = Script[demo][at]
    BY DEF IPlace, Here, Op
  <2>2. at # 1 /\ Op \notin Always[demo]
    BY <1>1 DEF Skip, IPlace, Placed
  <2>3. Op \notin Edges
    BY <2>1, <2>2, Steps DEF Last
  <2> QED  BY <1>1, <2>3 DEF Skip
<1>2. CASE SubscribeToTopic
  BY <1>2, <1>0, <1>s DEF SubscribeToTopic, Waits
<1>3. CASE Subscribed
  BY <1>3, <1>0, <1>s DEF Subscribed, BackoffForRetry, Waits
<1>4. CASE NothingToUnsubscribe
  BY <1>4, <1>0, <1>s DEF NothingToUnsubscribe
<1>5. CASE UnsubscribeFromTopic
  BY <1>5, <1>0, <1>s DEF UnsubscribeFromTopic, Waits
<1>6. CASE Unsubscribed
  BY <1>6 DEF Unsubscribed
<1>7. CASE ReceiveAck
  BY <1>7 DEF ReceiveAck, HandleOtherIncomingPacket, Checked, Waits
<1>8. CASE ReceivePublish
  BY <1>8 DEF ReceivePublish
<1>9. CASE LoopTimedOut
  BY <1>9 DEF LoopTimedOut, LoopOf, InLoop, Publishing, Waits
<1>10. CASE LoopFailed
  BY <1>0, <1>s, <1>10 DEF Waits, LoopFailed, InLoop
<1>11. CASE DeleteShadow
  BY <1>11, <1>0, <1>s DEF DeleteShadow, PublishToTopic, NotPublished, Waits
<1>12. CASE AwaitDelete
  BY <1>12, <1>0, <1>s DEF AwaitDelete, Waits
<1>13. CASE DeleteAnswered
  BY <1>13 DEF DeleteAnswered
<1>14. CASE CheckDeleted
  BY <1>14 DEF CheckDeleted
<1>15. CASE UpdateDesired
  BY <1>15, <1>0, <1>s DEF UpdateDesired, PublishToTopic, Waits
<1>16. CASE UpdateReported
  BY <1>16, <1>0, <1>s DEF UpdateReported, PublishToTopic, Waits
<1>17. CASE DescribeNextJob
  BY <1>17, <1>0, <1>s DEF DescribeNextJob, PublishToTopic, Waits
<1>18. CASE Work
  BY <1>18, <1>0, <1>s DEF Work, Waits
<1>19. CASE WorkEnds
  BY <1>19 DEF WorkEnds, LoopOf, InLoop, Waits
<1>20. CASE ProcessJobDocument
  BY <1>20 DEF ProcessJobDocument
<1>21. CASE CountRun
  BY <1>21, <1>0, <1>s DEF CountRun
<1>22. CASE SendReport
  BY <1>22, <1>0, <1>s DEF SendReport, PublishToTopic, Waits
<1>23. CASE AwaitReport
  BY <1>23, <1>0, <1>s DEF AwaitReport, Waits
<1>24. CASE SecondOver
  BY <1>0, <1>s, <1>24 DEF Waits, SecondOver, LoopOf, InLoop
<1>25. CASE CheckReport
  BY <1>25 DEF CheckReport
<1>26. CASE CreateMQTTConnectionWithBroker
  BY <1>26 DEF CreateMQTTConnectionWithBroker
<1>27. CASE MutualSubscribe
  BY <1>27, <1>0, <1>s DEF MutualSubscribe, Waits
<1>28. CASE MutualWaited
  BY <1>0, <1>s, <1>28 DEF Waits, MutualWaited, LoopOf, InLoop
<1>29. CASE MutualSubscribeAgain
  <2>1. Op = "mutualSubscribe" /\ at \in 1..Last /\ demo \in Demos /\ Op = Script[demo][at]
    BY <1>29 DEF MutualSubscribeAgain, IPlace, Placed, Here, Op
  <2>2. demo = "mutual"
    BY <2>1, Steps DEF Last
  <2>3. notes.granted \in BOOLEAN
    BY <2>2 DEF Globals
  <2> QED  BY <1>s, <1>29, <2>1, <2>3 DEF Waits, MutualSubscribeAgain, BackoffForRetry
<1>30. CASE MutualPublish
  BY <1>30, <1>0, <1>s DEF MutualPublish, Waits
<1>31. CASE EchoWaited
  BY <1>0, <1>s, <1>31 DEF Waits, EchoWaited, LoopOf, InLoop
<1>32. CASE MutualUnsubscribe
  BY <1>32, <1>0, <1>s DEF MutualUnsubscribe, Waits
<1>33. CASE MutualUnsubscribed
  BY <1>33 DEF MutualUnsubscribed, LoopOf, InLoop, Waits
<1>34. CASE MutualReceiveAck
  BY <1>34 DEF MutualReceiveAck, MutualProcessResponse, Checked, Waits
<1>35. CASE OfferJob
  BY <1>35 DEF OfferJob
<1>36. CASE LinkLost
  BY <1>36 DEF LinkLost
<1>37. CASE Rest
  BY <1>37 DEF Rest, vars, Waits
<1> QED  BY <1>1, <1>2, <1>3, <1>4, <1>5, <1>6, <1>7, <1>8, <1>9,
          <1>10, <1>11, <1>12, <1>13, <1>14, <1>15, <1>16, <1>17, <1>18, <1>19, <1>20, <1>21, <1>22, <1>23, <1>24, <1>25, <1>26, <1>27, <1>28, <1>29, <1>30, <1>31, <1>32, <1>33, <1>34, <1>35, <1>36, <1>37

(* The steps at the edges of a run: connecting, disconnecting, starting    *)
(* over.                                                                   *)
Outer ==
  \/ ConnectToServer \/ EstablishMqttSession \/ DisconnectMqttSession \/ MutualConnect
  \/ MutualDisconnect \/ ShadowRunEnds \/ DefenderRunEnds \/ JobsRunEnds \/ MutualRunEnds

LEMMA OuterSteps ==
  ASSUME Wires, Globals, IPlace, Outer
  PROVE  IPlace'
<1> DEFINE L == Len(Script[demo])
<1>1. demo' = demo /\ Last' = L /\ Last = L
  BY DEF Outer, ConnectToServer, EstablishMqttSession, DisconnectMqttSession, MutualConnect,
         MutualDisconnect, ShadowRunEnds, DefenderRunEnds, JobsRunEnds, MutualRunEnds, Last
<1>2. /\ demo \in Demos /\ at \in 1..L /\ status \in BOOLEAN /\ connected \in BOOLEAN
      /\ lost \in BOOLEAN /\ phase \in {"run", "mqtt", "wait", "check"}
      /\ link \in {"down", "up", "broken"}
  BY <1>1 DEF Wires, IPlace, Here
<1> DEFINE OpAt(k) == Script[demo][k]
<1>3. Op = OpAt(at) /\ Op' = OpAt(at')
  BY <1>1 DEF Op
<1>4. L \in 7..18 /\ demo \in {"mutual", "shadow", "jobs", "defender"}
      /\ (demo = "shadow" <=> L = 18)
  BY <1>2, Scripts
<1>5. \A k \in 1..L :
        /\ OpAt(k) = "establish" <=> k = 1 /\ demo # "mutual"
        /\ OpAt(k) = "connect" <=> k = 1 /\ demo = "mutual"
        /\ OpAt(k) = "disconnect" <=> k = L - 1 /\ demo # "mutual"
        /\ OpAt(k) = "mutualDisconnect" <=> k = L - 1 /\ demo = "mutual"
        /\ OpAt(k) = "end" <=> k = L
  BY <1>2, Steps
<1>6. /\ Op = "establish" => at = 1 /\ demo # "mutual"
      /\ Op = "connect" => at = 1 /\ demo = "mutual"
      /\ Op = "disconnect" => at = L - 1 /\ demo # "mutual"
      /\ Op = "mutualDisconnect" => at = L - 1 /\ demo = "mutual"
      /\ Op = "end" => at = L
  BY <1>2, <1>3, <1>5
(* What has to be seen of an outer step. *)
<1> DEFINE Shown ==
      /\ at' \in 1..L /\ status' \in BOOLEAN /\ connected' \in BOOLEAN /\ lost' \in BOOLEAN
      /\ phase' = "run" \/ (phase' = "mqtt" /\ at' = 1 /\ demo # "mutual")
      /\ at' = 1 => status'
      /\ result' # "none" => at' = L
      /\ SocketInv'
<1>7. ASSUME Shown PROVE IPlace'
  <2>1. /\ at' = 1 /\ demo # "mutual" => Op' = "establish"
        /\ at' = L => Op' = "end"
    BY <1>3, <1>4, <1>5, <1>7
  <2> QED  BY <1>1, <1>2, <1>7, <2>1 DEF IPlace, Here, Placed
<1> SUFFICES Shown
  BY <1>7
<1> HIDE DEF OpAt, L
<1> USE <1>1, <1>2, <1>4, <1>6 DEF Ready, Running, Proceed, place, connection
<1>8. /\ at = 1 => status
      /\ result = "none" /\ phase = "mqtt" => at = 1 /\ demo # "mutual"
  BY DEF IPlace, Placed
<1>9. SocketInv
  BY DEF IPlace
<1>10. CASE ConnectToServer
  <2>1. /\ at = 1 /\ demo # "mutual" /\ phase = "run" /\ result = "none" /\ result' = "none"
        /\ fault' = fault /\ fault = "none"
    BY <1>10 DEF ConnectToServer
  <2>2. \/ /\ tcp' = "open" /\ lost' = (lost \/ tcp = "open")
           /\ phase' = "mqtt" /\ at' = at /\ status' = status /\ connected' = connected
        \/ /\ tcp' = tcp /\ lost' = lost /\ link' = link
           /\ at' = at /\ phase' = phase /\ status' = status /\ connected' = connected
        \/ /\ tcp' = tcp /\ lost' = lost /\ link' = link /\ phase' = "run" /\ status' = FALSE
           /\ IF demo = "shadow" THEN at' = L /\ connected' = FALSE
                                 ELSE at' = at + 1 /\ connected' = connected
    <3>1. Len(Script.shadow) = 18
      BY DEF Script
    <3> QED  BY <1>10, <3>1 DEF ConnectToServer, SocketOpened, BackoffForRetry, EstablishFails
  <2>3. SocketInv'
    BY <1>9, <2>1, <2>2 DEF SocketInv
  <2>4. lost' \in BOOLEAN /\ connected' \in BOOLEAN /\ status' \in BOOLEAN
    BY <2>1, <2>2
  <2>5. at' \in 1..L
    BY <2>1, <2>2
  <2>7. at' = 1 => status'
    <3>1. status
      BY <1>8, <2>1
    <3>2. status' \/ (status' = FALSE /\ at' \in {at + 1, L})
      BY <2>2, <3>1
    <3>3. L # 1 /\ at + 1 # 1
      BY <2>1
    <3> QED  BY <3>2, <3>3
  <2>6. phase' = "run" \/ (phase' = "mqtt" /\ at' = 1 /\ demo # "mutual")
    BY <2>1, <2>2
  <2> QED  BY <2>1, <2>3, <2>4, <2>5, <2>6, <2>7
<1>11. CASE EstablishMqttSession
  <2>1. /\ at = 1 /\ demo # "mutual" /\ phase = "mqtt" /\ result = "none" /\ result' = "none"
        /\ fault' = fault /\ tcp' = tcp /\ lost' = lost
        /\ link' = "broken" \/ connected'
    BY <1>11 DEF EstablishMqttSession
  <2>2. /\ phase' = "run"
        /\ \/ at' = at + 1 /\ status' = TRUE /\ connected' = TRUE
           \/ /\ status' = FALSE
              /\ IF demo = "shadow" THEN at' = L /\ connected' = FALSE
                                    ELSE at' = at + 1 /\ connected' = connected
    <3>1. Len(Script.shadow) = 18
      BY DEF Script
    <3> QED  BY <1>11, <3>1 DEF EstablishMqttSession, EstablishFails
  <2>3. SocketInv'
    BY <1>9, <2>1, <2>2 DEF SocketInv
  <2>4. lost' \in BOOLEAN /\ connected' \in BOOLEAN /\ status' \in BOOLEAN
    BY <2>1, <2>2
  <2>5. at' \in 1..L
    BY <2>1, <2>2
  <2>7. at' = 1 => status'
    <3>1. status
      BY <1>8, <2>1
    <3> QED  BY <2>1, <2>2, <3>1
  <2>6. phase' = "run" \/ (phase' = "mqtt" /\ at' = 1 /\ demo # "mutual")
    BY <2>1, <2>2
  <2> QED  BY <2>1, <2>3, <2>4, <2>5, <2>6, <2>7
<1>12. CASE DisconnectMqttSession
  <2>1. /\ at = L - 1 /\ demo # "mutual" /\ result = "none" /\ result' = "none"
        /\ lost' = lost /\ connected' = connected
        /\ at' = at + 1 /\ phase' = "run" /\ status' \in BOOLEAN /\ phase = "run"
    BY <1>12 DEF DisconnectMqttSession
  <2>2. IF demo = "defender" /\ ~connected
        THEN tcp' = tcp /\ fault' = fault /\ link' = link
        ELSE /\ tcp' = IF tcp = "open" THEN "stale" ELSE tcp
             /\ fault' = IF tcp = "stale" THEN "reclosed" ELSE fault
    BY <1>12 DEF DisconnectMqttSession, CloseSocket
  <2>3. SocketInv'
    BY <1>9, <2>1, <2>2 DEF SocketInv
  <2> QED  BY <2>1, <2>3
<1>13. CASE MutualConnect
  <2>1. /\ at = 1 /\ demo = "mutual" /\ result = "none" /\ result' = "none" /\ phase = "run"
        /\ fault' = fault
    BY <1>13 DEF MutualConnect
  <2>2. \/ /\ tcp' = "open" /\ lost' = (lost \/ tcp = "open") /\ connected' = TRUE
           /\ at' = at + 1 /\ phase' = "run" /\ status' = TRUE
        \/ /\ tcp' = tcp /\ lost' = lost /\ connected' = connected
           /\ \/ at' = at /\ phase' = phase /\ status' = status
              \/ at' = at + 1 /\ phase' = "run" /\ status' = FALSE
    BY <1>13 DEF MutualConnect, SocketOpened, BackoffForRetry
  <2>3. SocketInv'
    BY <1>9, <2>1, <2>2 DEF SocketInv
  <2>4. lost' \in BOOLEAN /\ connected' \in BOOLEAN /\ status' \in BOOLEAN
    BY <2>1, <2>2
  <2>5. at' \in 1..L
    BY <2>1, <2>2
  <2>7. at' = 1 => status'
    <3>1. status
      BY <1>8, <2>1
    <3> QED  BY <2>1, <2>2, <3>1
  <2>6. phase' = "run" \/ (phase' = "mqtt" /\ at' = 1 /\ demo # "mutual")
    BY <2>1, <2>2
  <2> QED  BY <2>1, <2>3, <2>4, <2>5, <2>6, <2>7
<1>14. CASE MutualDisconnect
  <2>1. /\ at = L - 1 /\ demo = "mutual" /\ result = "none" /\ result' = "none"
        /\ lost' = lost /\ connected' = connected
        /\ at' = at + 1 /\ phase' = "run" /\ status' \in BOOLEAN
        /\ tcp' = IF connected /\ tcp = "open" THEN "stale" ELSE tcp
    BY <1>14 DEF MutualDisconnect, CloseSocket
  <2>2. SocketInv'
    BY <1>9, <2>1 DEF SocketInv
  <2> QED  BY <2>1, <2>2
<1>15. CASE ShadowRunEnds \/ DefenderRunEnds \/ JobsRunEnds \/ MutualRunEnds
  <2>1. /\ at = L /\ phase = "run" /\ phase' = "run" /\ lost' = lost /\ tcp' = tcp
        /\ fault' = fault /\ link' = link /\ result = "none"
        /\ \/ at' = at /\ status' = status /\ connected' = connected
           \/ /\ at' = 1 /\ status' = TRUE /\ result' = "none"
              /\ connected' = IF demo = "defender" THEN FALSE ELSE connected
    BY <1>15 DEF ShadowRunEnds, DefenderRunEnds, JobsRunEnds, MutualRunEnds
  <2>2. CASE at' = at /\ status' = status /\ connected' = connected
    <3>1. SocketInv'
      BY <1>9, <2>1, <2>2 DEF SocketInv
    <3> QED  BY <2>1, <2>2, <3>1
  <2>3. CASE /\ at' = 1 /\ status' = TRUE /\ result' = "none"
             /\ connected' = IF demo = "defender" THEN FALSE ELSE connected
    <3>1. SocketInv'
      BY <1>9, <2>1, <2>3 DEF SocketInv
    <3>2. connected' \in BOOLEAN /\ lost' \in BOOLEAN
      BY <2>1, <2>3
    <3>3. at' \in 1..L /\ status' /\ status' \in BOOLEAN
      BY <2>3
    <3> QED  BY <2>1, <2>3, <3>1, <3>2, <3>3
  <2> QED  BY <2>1, <2>2, <2>3
<1> QED  BY <1>10, <1>11, <1>12, <1>13, <1>14, <1>15 DEF Outer

LEMMA PlaceStep ==
  ASSUME Wires, Globals, IPlace, Next
  PROVE  IPlace'
<1>1. CASE Outer
  BY <1>1, OuterSteps
<1>2. CASE ~Outer
  <2>1. Within
    BY <1>2, InnerSteps DEF Next, Demo, Outer
  <2> QED  BY <2>1, WithinKeeps
<1> QED  BY <1>1, <1>2

-----------------------------------------------------------------------------
(* The connection, the exchange with the broker, handlers and globals.     *)

LEMMA WiresStep ==
  ASSUME Wires, Next
  PROVE  Wires'
<1> USE DEF Wires, connection
<1>1. CASE Skip
  BY <1>1 DEF Skip
<1>2. CASE ConnectToServer
  BY <1>2 DEF ConnectToServer, Ready, Running, SocketOpened, BackoffForRetry, EstablishFails,
        Proceed
<1>3. CASE EstablishMqttSession
  BY <1>3 DEF EstablishMqttSession
<1>4. CASE DisconnectMqttSession
  BY <1>4 DEF DisconnectMqttSession, Ready, Running, Proceed, CloseSocket
<1>5. CASE SubscribeToTopic
  BY <1>5 DEF SubscribeToTopic
<1>6. CASE Subscribed
  BY <1>6 DEF Subscribed
<1>7. CASE NothingToUnsubscribe
  BY <1>7 DEF NothingToUnsubscribe
<1>8. CASE UnsubscribeFromTopic
  BY <1>8 DEF UnsubscribeFromTopic
<1>9. CASE Unsubscribed
  BY <1>9 DEF Unsubscribed
<1>10. CASE ReceiveAck
  BY <1>10 DEF ReceiveAck, InLoop, Running, HandleOtherIncomingPacket, Checked,
        CleanupOutgoingPublish
<1>11. CASE ReceivePublish
  BY <1>11 DEF ReceivePublish
<1>12. CASE LoopTimedOut
  BY <1>12 DEF LoopTimedOut
<1>13. CASE LoopFailed
  BY <1>13 DEF LoopFailed
<1>14. CASE DeleteShadow
  BY <1>14 DEF DeleteShadow, Ready, Running, PublishToTopic, Published, Packet, NotPublished,
        Proceed, Message
<1>15. CASE AwaitDelete
  BY <1>15 DEF AwaitDelete
<1>16. CASE DeleteAnswered
  BY <1>16 DEF DeleteAnswered
<1>17. CASE CheckDeleted
  BY <1>17 DEF CheckDeleted
<1>18. CASE UpdateDesired
  BY <1>18 DEF UpdateDesired, Ready, Running, Message, PublishToTopic, Published, Packet,
        NotPublished, Proceed
<1>19. CASE UpdateReported
  BY <1>19 DEF UpdateReported, Ready, Running, PublishToTopic, Published, Packet, NotPublished,
        Proceed, Message
<1>20. CASE ShadowRunEnds
  BY <1>20 DEF ShadowRunEnds
<1>21. CASE DescribeNextJob
  BY <1>21 DEF DescribeNextJob, Ready, Running, PublishToTopic, Published, Packet, NotPublished,
        Proceed
<1>22. CASE Work
  BY <1>22 DEF Work
<1>23. CASE WorkEnds
  BY <1>23 DEF WorkEnds
<1>24. CASE ProcessJobDocument
  BY <1>24 DEF ProcessJobDocument
<1>25. CASE CountRun
  BY <1>25 DEF CountRun
<1>26. CASE JobsRunEnds
  BY <1>26 DEF JobsRunEnds
<1>27. CASE SendReport
  BY <1>27 DEF SendReport, Ready, Running, CollectDeviceMetrics, GenerateDeviceMetricsReport,
        Proceed, PublishToTopic, Published, Packet, NotPublished, Message
<1>28. CASE AwaitReport
  BY <1>28 DEF AwaitReport
<1>29. CASE SecondOver
  BY <1>29 DEF SecondOver
<1>30. CASE CheckReport
  BY <1>30 DEF CheckReport
<1>31. CASE DefenderRunEnds
  BY <1>31 DEF DefenderRunEnds
<1>32. CASE MutualConnect
  BY <1>32 DEF MutualConnect, Ready, Running, SocketOpened, Proceed, BackoffForRetry
<1>33. CASE CreateMQTTConnectionWithBroker
  BY <1>33 DEF CreateMQTTConnectionWithBroker
<1>34. CASE MutualSubscribe
  BY <1>34 DEF MutualSubscribe
<1>35. CASE MutualWaited
  BY <1>35 DEF MutualWaited
<1>36. CASE MutualSubscribeAgain
  BY <1>36 DEF MutualSubscribeAgain
<1>37. CASE MutualPublish
  BY <1>37 DEF MutualPublish
<1>38. CASE EchoWaited
  BY <1>38 DEF EchoWaited
<1>39. CASE MutualUnsubscribe
  BY <1>39 DEF MutualUnsubscribe
<1>40. CASE MutualUnsubscribed
  BY <1>40 DEF MutualUnsubscribed
<1>41. CASE MutualReceiveAck
  BY <1>41 DEF MutualReceiveAck, InLoop, Running, MutualProcessResponse, Checked
<1>42. CASE MutualDisconnect
  BY <1>42 DEF MutualDisconnect, Ready, Running, CloseSocket, Proceed
<1>43. CASE MutualRunEnds
  BY <1>43 DEF MutualRunEnds
<1>44. CASE OfferJob
  BY <1>44 DEF OfferJob
<1>45. CASE LinkLost
  BY <1>45, DemosAssumption DEF LinkLost
<1>46. CASE Rest
  BY <1>46 DEF Rest, vars, place, connection, exchange
<1> HIDE DEF Wires, connection
<1> QED  BY <1>1, <1>2, <1>3, <1>4, <1>5, <1>6, <1>7, <1>8, <1>9, <1>10, <1>11, <1>12, <1>13,
         <1>14, <1>15, <1>16, <1>17, <1>18, <1>19, <1>20, <1>21, <1>22, <1>23, <1>24, <1>25,
         <1>26, <1>27, <1>28, <1>29, <1>30, <1>31, <1>32, <1>33, <1>34, <1>35, <1>36, <1>37,
         <1>38, <1>39, <1>40, <1>41, <1>42, <1>43, <1>44, <1>45, <1>46 DEF Next, Demo

(* A publish that is sent takes an identifier and a slot.                  *)
LEMMA PublishedTyped ==
  ASSUME Exchange, NEW responses, \A p \in responses : p.n \in Nat, Published(responses),
         UNCHANGED <<attempts, packetType, subAck>>
  PROVE  Exchange'
<1>1. Packet("PUBACK", nextId).n \in Nat
  BY DemosAssumption DEF Packet, Exchange
<1>2. \A p \in owed' : p.n \in Nat
  BY <1>1 DEF Published, Exchange
<1>3. nextId \in Nat /\ slots \in [Slot -> Nat]
  BY DEF Exchange
<1>4. nextId' = nextId + 1 /\ slots' = [slots EXCEPT ![NextFree] = nextId]
  BY DEF Published
<1>5. slots' \in [Slot -> Nat]
  BY <1>3, <1>4
<1> QED  BY <1>2, <1>3, <1>4, <1>5 DEF Exchange

LEMMA ExchangeStep ==
  ASSUME Wires, Exchange, Globals, IPlace, Next
  PROVE  Exchange'
<1> USE DEF Exchange, exchange
<1>1. CASE Skip
  BY <1>1 DEF Skip
<1>2. CASE ConnectToServer
  <2>1. /\ attempts' \in {0, attempts, attempts + 1} /\ attempts' \in 0..RetryMax
        /\ UNCHANGED <<nextId, packetType, subAck, slots, owed>>
    BY <1>2, DemosAssumption
       DEF ConnectToServer, Ready, Running, SocketOpened, BackoffForRetry
  <2> QED  BY <2>1
<1>3. CASE EstablishMqttSession
  <2>1. /\ UNCHANGED <<attempts, packetType, subAck>>
        /\ nextId' \in {1, nextId} /\ owed' \subseteq owed
        /\ slots' \in {slots, [s \in Slot |-> None]}
    BY <1>3 DEF EstablishMqttSession, NewSession, ForLater
  <2>2. [s \in Slot |-> None] \in [Slot -> Nat]
    BY DEF None
  <2> QED  BY <2>1, <2>2
<1>4. CASE DisconnectMqttSession
  BY <1>4 DEF DisconnectMqttSession
<1>5. CASE SubscribeToTopic
  BY <1>5, DemosAssumption DEF SubscribeToTopic, Ready, Running, Packet, Proceed, connection
<1>6. CASE Subscribed
  BY <1>6, DemosAssumption DEF Subscribed, WaitOver, Proceed, BackoffForRetry, connection
<1>7. CASE NothingToUnsubscribe
  BY <1>7 DEF NothingToUnsubscribe
<1>8. CASE UnsubscribeFromTopic
  BY <1>8 DEF UnsubscribeFromTopic, Ready, Running, Packet, Proceed, connection
<1>9. CASE Unsubscribed
  BY <1>9 DEF Unsubscribed
<1>10. CASE ReceiveAck
  <2>1. /\ UNCHANGED <<attempts, nextId>> /\ owed' \subseteq owed
        /\ packetType' \in {packetType, "SUBACK", "UNSUBACK"}
        /\ subAck' = subAck \/ subAck' \in BOOLEAN
    BY <1>10 DEF ReceiveAck, HandleOtherIncomingPacket
  <2>2. slots' = slots \/ \E id : slots' = [s \in Slot |-> IF slots[s] = id THEN None ELSE slots[s]]
    BY <1>10 DEF ReceiveAck, HandleOtherIncomingPacket, CleanupOutgoingPublish
  <2>3. slots' \in [Slot -> Nat]
    BY <2>2 DEF None
  <2> QED  BY <2>1, <2>3
<1>11. CASE ReceivePublish
  BY <1>11 DEF ReceivePublish, InLoop, Running, ShadowCallback, UpdateDelta, DeltaVersion,
        UpdateAccepted, JobsCallback, NextJobHandler, Note, DefenderCallback,
        ValidateDefenderResponse, MutualCallback, connection
<1>12. CASE LoopTimedOut
  BY <1>12, DemosAssumption DEF LoopTimedOut
<1>13. CASE LoopFailed
  BY <1>13, DemosAssumption DEF LoopFailed
<1>14. CASE DeleteShadow
  BY <1>14 DEF DeleteShadow, Ready, Running, PublishToTopic, Published, Packet, NotPublished,
        Proceed, connection, Message
<1>15. CASE AwaitDelete
  BY <1>15 DEF AwaitDelete
<1>16. CASE DeleteAnswered
  BY <1>16 DEF DeleteAnswered
<1>17. CASE CheckDeleted
  BY <1>17 DEF CheckDeleted
<1>18. CASE UpdateDesired
  BY <1>18 DEF UpdateDesired, Ready, Running, Message, PublishToTopic, Published, Packet,
        NotPublished, Proceed, connection
<1>19. CASE UpdateReported
  BY <1>19 DEF UpdateReported, Ready, Running, PublishToTopic, Published, Packet, NotPublished,
        Proceed, connection, Message
<1>20. CASE ShadowRunEnds
  BY <1>20 DEF ShadowRunEnds
<1>21. CASE DescribeNextJob
  BY <1>21 DEF DescribeNextJob, Ready, Running, PublishToTopic, Published, Packet, NotPublished,
        Proceed, connection
<1>22. CASE Work
  BY <1>22 DEF Work
<1>23. CASE WorkEnds
  BY <1>23 DEF WorkEnds
<1>24. CASE ProcessJobDocument
  <2>1. UNCHANGED <<attempts, packetType, subAck>>
    BY <1>24 DEF ProcessJobDocument
  <2>2. \/ UNCHANGED <<nextId, slots, owed>>
        \/ NotPublished
        \/ \E responses \in {{}, {Message("updateFailed", 0)}} : Published(responses)
    BY <1>24 DEF ProcessJobDocument, SendUpdateForJob, Act, PublishForJob
  <2>3. CASE UNCHANGED <<nextId, slots, owed>>
    BY <2>1, <2>3
  <2>4. CASE NotPublished
    BY <2>1, <2>4 DEF NotPublished
  <2>5. CASE \E responses \in {{}, {Message("updateFailed", 0)}} : Published(responses)
    <3>1. PICK responses \in {{}, {Message("updateFailed", 0)}} : Published(responses)
      BY <2>5
    <3>2. \A p \in responses : p.n \in Nat
      BY DEF Message
    <3> QED  BY <2>1, <3>1, <3>2, PublishedTyped
  <2> QED  BY <2>2, <2>3, <2>4, <2>5
<1>25. CASE CountRun
  BY <1>25 DEF CountRun
<1>26. CASE JobsRunEnds
  BY <1>26 DEF JobsRunEnds
<1>27. CASE SendReport
  <2>1. demo = "defender"
    <3>1. at \in 1..Last /\ demo \in Demos /\ Op = Script[demo][at]
      BY DEF IPlace, Here, Op
    <3> QED  BY <1>27, <3>1, Steps DEF SendReport, Ready, Last
  <2>2. CASE UNCHANGED exchange
    BY <2>2
  <2>3. CASE \E verdict \in {"accepted", "rejected"} : PublishToTopic({Message(verdict, notes.id)})
    <3>1. PICK verdict \in {"accepted", "rejected"} : PublishToTopic({Message(verdict, notes.id)})
      BY <2>3
    <3>2. Message(verdict, notes.id).n \in Nat
      BY <2>1 DEF Message, Globals
    <3>3. CASE NotPublished
      BY <3>1, <3>3 DEF PublishToTopic, NotPublished
    <3>4. CASE Published({Message(verdict, notes.id)})
      BY <3>1, <3>2, <3>4, PublishedTyped DEF PublishToTopic
    <3> QED  BY <3>1, <3>3, <3>4 DEF PublishToTopic
  <2> QED  BY <1>27, <2>2, <2>3 DEF SendReport
<1>28. CASE AwaitReport
  BY <1>28 DEF AwaitReport
<1>29. CASE SecondOver
  BY <1>29 DEF SecondOver
<1>30. CASE CheckReport
  BY <1>30 DEF CheckReport
<1>31. CASE DefenderRunEnds
  BY <1>31 DEF DefenderRunEnds
<1>32. CASE MutualConnect
  BY <1>32, DemosAssumption DEF MutualConnect, Ready, SocketOpened, Proceed, BackoffForRetry
<1>33. CASE CreateMQTTConnectionWithBroker
  BY <1>33 DEF CreateMQTTConnectionWithBroker, Ready, Running, NewSession, ForLater, Proceed
<1>34. CASE MutualSubscribe
  BY <1>34 DEF MutualSubscribe, Ready, Running, Note, Packet, connection
<1>35. CASE MutualWaited
  BY <1>35 DEF MutualWaited
<1>36. CASE MutualSubscribeAgain
  BY <1>36, DemosAssumption DEF MutualSubscribeAgain, Proceed, BackoffForRetry, Note, connection
<1>37. CASE MutualPublish
  BY <1>37 DEF MutualPublish, Ready, Running, Proceed, Packet, Message, Note, connection
<1>38. CASE EchoWaited
  BY <1>38 DEF EchoWaited
<1>39. CASE MutualUnsubscribe
  BY <1>39 DEF MutualUnsubscribe, Ready, Running, Packet, Proceed, connection
<1>40. CASE MutualUnsubscribed
  BY <1>40 DEF MutualUnsubscribed
<1>41. CASE MutualReceiveAck
  BY <1>41 DEF MutualReceiveAck, InLoop, Running, MutualProcessResponse, Checked, connection
<1>42. CASE MutualDisconnect
  BY <1>42 DEF MutualDisconnect
<1>43. CASE MutualRunEnds
  <2>1. attempts' = 0 /\ subAck' = FALSE /\ UNCHANGED nextId /\ UNCHANGED packetType
        /\ UNCHANGED slots /\ UNCHANGED owed
    BY <1>43 DEF MutualRunEnds
  <2>2. 0 \in 0..RetryMax
    BY DemosAssumption
  <2> QED  BY <2>1, <2>2
<1>44. CASE OfferJob
  <2>1. /\ UNCHANGED <<attempts, nextId, packetType, subAck, slots>>
        /\ owed' = owed \cup {Message("next", notes.offered + 1)} /\ demo = "jobs"
    BY <1>44 DEF OfferJob
  <2>2. Message("next", notes.offered + 1).n \in Nat
    BY <2>1 DEF Message, Globals
  <2> QED  BY <2>1, <2>2
<1>45. CASE LinkLost
  BY <1>45 DEF LinkLost, Running, ForLater
<1>46. CASE Rest
  BY <1>46 DEF Rest, vars, place, connection, exchange
<1> HIDE DEF Exchange, exchange
<1> QED  BY <1>1, <1>2, <1>3, <1>4, <1>5, <1>6, <1>7, <1>8, <1>9, <1>10, <1>11, <1>12, <1>13,
         <1>14, <1>15, <1>16, <1>17, <1>18, <1>19, <1>20, <1>21, <1>22, <1>23, <1>24, <1>25,
         <1>26, <1>27, <1>28, <1>29, <1>30, <1>31, <1>32, <1>33, <1>34, <1>35, <1>36, <1>37,
         <1>38, <1>39, <1>40, <1>41, <1>42, <1>43, <1>44, <1>45, <1>46 DEF Next, Demo

(* The innermost handler goes on.                                          *)
LEMMA FrameKept ==
  ASSUME NEW s \in Seq(Frames), s # <<>>
  PROVE  /\ [s EXCEPT ![Len(s)].wait = FALSE] \in Seq(Frames)
         /\ Len([s EXCEPT ![Len(s)].wait = FALSE]) = Len(s)
         /\ \A step \in {"act", "report", "return"}, waits \in BOOLEAN :
              LET t == [s EXCEPT ![Len(s)].step = step, ![Len(s)].wait = waits] IN
              t \in Seq(Frames) /\ Len(t) = Len(s)
<1>1. Len(s) \in 1..Len(s) /\ s[Len(s)] \in Frames
  OBVIOUS
<1>2. \A f \in Frames : /\ [s EXCEPT ![Len(s)] = f] \in Seq(Frames)
                        /\ Len([s EXCEPT ![Len(s)] = f]) = Len(s)
                        /\ [s EXCEPT ![Len(s)] = f][Len(s)] = f
  BY <1>1
<1>3. \A f \in Frames, w \in BOOLEAN : [f EXCEPT !.wait = w] \in Frames
  BY DEF Frames
<1>4. \A f \in Frames, step \in {"act", "report", "return"} : [f EXCEPT !.step = step] \in Frames
  BY DEF Frames
<1>5. ASSUME NEW step \in {"act", "report", "return"}, NEW waits \in BOOLEAN
      PROVE  LET t == [s EXCEPT ![Len(s)].step = step, ![Len(s)].wait = waits] IN
             t \in Seq(Frames) /\ Len(t) = Len(s)
  <2> DEFINE u == [s EXCEPT ![Len(s)].step = step]
  <2>1. u \in Seq(Frames) /\ Len(u) = Len(s) /\ u[Len(s)] \in Frames
    BY <1>1, <1>2, <1>4
  <2>2. [s EXCEPT ![Len(s)].step = step, ![Len(s)].wait = waits] = [u EXCEPT ![Len(s)].wait = waits]
    OBVIOUS
  <2> HIDE DEF u
  <2>3. [u[Len(s)] EXCEPT !.wait = waits] \in Frames
    BY <1>3, <2>1
  <2>4. [u EXCEPT ![Len(s)].wait = waits] \in Seq(Frames) /\ Len([u EXCEPT ![Len(s)].wait = waits]) = Len(s)
    BY <1>1, <2>1, <2>3
  <2> QED  BY <2>2, <2>4
<1> QED  BY <1>1, <1>2, <1>3, <1>5

LEMMA FramesKept ==
  ASSUME Handlers, stack # <<>>,
         \/ stack' = [stack EXCEPT ![Len(stack)].wait = FALSE]
         \/ \E step \in {"act", "report", "return"}, waits \in BOOLEAN :
              stack' = [stack EXCEPT ![Len(stack)].step = step, ![Len(stack)].wait = waits]
  PROVE  Handlers'
<1>1. stack \in Seq(Frames) /\ Len(stack) <= MaxNested
  BY DEF Handlers
<1>2. CASE stack' = [stack EXCEPT ![Len(stack)].wait = FALSE]
  BY <1>1, <1>2, FrameKept DEF Handlers
<1>3. CASE \E step \in {"act", "report", "return"}, waits \in BOOLEAN :
             stack' = [stack EXCEPT ![Len(stack)].step = step, ![Len(stack)].wait = waits]
  <2>1. PICK step \in {"act", "report", "return"}, waits \in BOOLEAN :
          stack' = [stack EXCEPT ![Len(stack)].step = step, ![Len(stack)].wait = waits]
    BY <1>3
  <2>2. stack' \in Seq(Frames) /\ Len(stack') = Len(stack)
    BY <1>1, <2>1, FrameKept
  <2> QED  BY <1>1, <2>2 DEF Handlers
<1> QED  BY <1>2, <1>3

LEMMA HandlersStep ==
  ASSUME Wires, Exchange, Handlers, Next
  PROVE  Handlers'
<1> USE DEF Handlers
<1>1. CASE Skip
  BY <1>1 DEF Skip
<1>2. CASE ConnectToServer
  BY <1>2 DEF ConnectToServer
<1>3. CASE EstablishMqttSession
  BY <1>3 DEF EstablishMqttSession
<1>4. CASE DisconnectMqttSession
  BY <1>4 DEF DisconnectMqttSession
<1>5. CASE SubscribeToTopic
  BY <1>5 DEF SubscribeToTopic
<1>6. CASE Subscribed
  BY <1>6 DEF Subscribed
<1>7. CASE NothingToUnsubscribe
  BY <1>7 DEF NothingToUnsubscribe
<1>8. CASE UnsubscribeFromTopic
  BY <1>8 DEF UnsubscribeFromTopic
<1>9. CASE Unsubscribed
  BY <1>9 DEF Unsubscribed
<1>10. CASE ReceiveAck
  BY <1>10 DEF ReceiveAck
<1>11. CASE ReceivePublish
  <2>1. stack' = stack \/ \E p \in owed : p.what = "next" /\ JobsCallback(p)
    BY <1>11 DEF ReceivePublish, JobsCallback
  <2>2. ASSUME NEW p \in owed, NextJobHandler(p), Len(stack) < MaxNested
        PROVE  Handlers'
    <3>1. [job |-> p.n, step |-> "begin", wait |-> FALSE] \in Frames
      BY <2>2 DEF Exchange, Frames
    <3> QED  BY <2>2, <3>1, DemosAssumption DEF NextJobHandler
  <2> QED  BY <2>1, <2>2, <1>11 DEF ReceivePublish, JobsCallback
<1>12. CASE LoopTimedOut
  BY <1>12, FramesKept DEF LoopTimedOut
<1>13. CASE LoopFailed
  BY <1>13, FramesKept DEF LoopFailed
<1>14. CASE DeleteShadow
  BY <1>14 DEF DeleteShadow, Ready, Running, PublishToTopic, Published, Packet, NotPublished,
        Proceed, connection, Message
<1>15. CASE AwaitDelete
  BY <1>15 DEF AwaitDelete
<1>16. CASE DeleteAnswered
  BY <1>16 DEF DeleteAnswered
<1>17. CASE CheckDeleted
  BY <1>17 DEF CheckDeleted
<1>18. CASE UpdateDesired
  BY <1>18 DEF UpdateDesired, Ready, Running, Message, PublishToTopic, Published, Packet,
        NotPublished, Proceed, connection
<1>19. CASE UpdateReported
  BY <1>19 DEF UpdateReported, Ready, Running, PublishToTopic, Published, Packet, NotPublished,
        Proceed, connection, Message
<1>20. CASE ShadowRunEnds
  BY <1>20 DEF ShadowRunEnds
<1>21. CASE DescribeNextJob
  BY <1>21 DEF DescribeNextJob, Ready, Running, PublishToTopic, Published, Packet, NotPublished,
        Proceed, connection
<1>22. CASE Work
  BY <1>22 DEF Work
<1>23. CASE WorkEnds
  BY <1>23 DEF WorkEnds
<1>24. CASE ProcessJobDocument
  <2>1. stack # <<>> /\ Len(stack) \in Nat
    BY <1>24 DEF ProcessJobDocument
  <2>2. CASE \E step \in {"act", "report", "return"}, waits \in BOOLEAN : GoOn(step, waits)
    BY <2>1, <2>2, FramesKept DEF GoOn
  <2>3. CASE stack' = SubSeq(stack, 1, Len(stack) - 1)
    BY <2>1, <2>3, DemosAssumption
  <2> QED  BY <1>24, <2>2, <2>3 DEF ProcessJobDocument, SendUpdateForJob, Act, PublishForJob
<1>25. CASE CountRun
  BY <1>25 DEF CountRun
<1>26. CASE JobsRunEnds
  BY <1>26 DEF JobsRunEnds
<1>27. CASE SendReport
  BY <1>27 DEF SendReport, Ready, Running, CollectDeviceMetrics, GenerateDeviceMetricsReport,
        Proceed, connection, PublishToTopic, Published, Packet, NotPublished, Message
<1>28. CASE AwaitReport
  BY <1>28 DEF AwaitReport
<1>29. CASE SecondOver
  BY <1>29 DEF SecondOver
<1>30. CASE CheckReport
  BY <1>30 DEF CheckReport
<1>31. CASE DefenderRunEnds
  BY <1>31 DEF DefenderRunEnds
<1>32. CASE MutualConnect
  BY <1>32 DEF MutualConnect
<1>33. CASE CreateMQTTConnectionWithBroker
  BY <1>33 DEF CreateMQTTConnectionWithBroker
<1>34. CASE MutualSubscribe
  BY <1>34 DEF MutualSubscribe
<1>35. CASE MutualWaited
  BY <1>35 DEF MutualWaited
<1>36. CASE MutualSubscribeAgain
  BY <1>36 DEF MutualSubscribeAgain
<1>37. CASE MutualPublish
  BY <1>37 DEF MutualPublish
<1>38. CASE EchoWaited
  BY <1>38 DEF EchoWaited
<1>39. CASE MutualUnsubscribe
  BY <1>39 DEF MutualUnsubscribe
<1>40. CASE MutualUnsubscribed
  BY <1>40 DEF MutualUnsubscribed
<1>41. CASE MutualReceiveAck
  BY <1>41 DEF MutualReceiveAck
<1>42. CASE MutualDisconnect
  BY <1>42 DEF MutualDisconnect
<1>43. CASE MutualRunEnds
  BY <1>43 DEF MutualRunEnds
<1>44. CASE OfferJob
  BY <1>44 DEF OfferJob
<1>45. CASE LinkLost
  BY <1>45 DEF LinkLost
<1>46. CASE Rest
  BY <1>46 DEF Rest, vars, place, connection, exchange
<1> HIDE DEF Handlers
<1> QED  BY <1>1, <1>2, <1>3, <1>4, <1>5, <1>6, <1>7, <1>8, <1>9, <1>10, <1>11, <1>12, <1>13,
         <1>14, <1>15, <1>16, <1>17, <1>18, <1>19, <1>20, <1>21, <1>22, <1>23, <1>24, <1>25,
         <1>26, <1>27, <1>28, <1>29, <1>30, <1>31, <1>32, <1>33, <1>34, <1>35, <1>36, <1>37,
         <1>38, <1>39, <1>40, <1>41, <1>42, <1>43, <1>44, <1>45, <1>46 DEF Next, Demo

LEMMA GlobalsStep ==
  ASSUME Wires, Exchange, Globals, RunsLeft, Next
  PROVE  Globals'
<1> USE DEF Globals
<1>1. CASE Skip
  BY <1>1 DEF Skip
<1>2. CASE ConnectToServer
  BY <1>2 DEF ConnectToServer
<1>3. CASE EstablishMqttSession
  BY <1>3 DEF EstablishMqttSession
<1>4. CASE DisconnectMqttSession
  BY <1>4 DEF DisconnectMqttSession
<1>5. CASE SubscribeToTopic
  BY <1>5 DEF SubscribeToTopic
<1>6. CASE Subscribed
  BY <1>6 DEF Subscribed
<1>7. CASE NothingToUnsubscribe
  BY <1>7 DEF NothingToUnsubscribe
<1>8. CASE UnsubscribeFromTopic
  BY <1>8 DEF UnsubscribeFromTopic
<1>9. CASE Unsubscribed
  BY <1>9 DEF Unsubscribed
<1>10. CASE ReceiveAck
  BY <1>10 DEF ReceiveAck
<1>11. CASE ReceivePublish
  BY <1>11 DEF ReceivePublish, InLoop, Running, ShadowCallback, UpdateDelta, DeltaVersion,
        UpdateAccepted, JobsCallback, NextJobHandler, Note, DefenderCallback,
        ValidateDefenderResponse, MutualCallback, connection
<1>12. CASE LoopTimedOut
  BY <1>12 DEF LoopTimedOut
<1>13. CASE LoopFailed
  BY <1>13 DEF LoopFailed
<1>14. CASE DeleteShadow
  BY <1>14 DEF DeleteShadow, Ready, Running, PublishToTopic, Published, Packet, NotPublished,
        Proceed, connection, Message
<1>15. CASE AwaitDelete
  BY <1>15 DEF AwaitDelete
<1>16. CASE DeleteAnswered
  BY <1>16 DEF DeleteAnswered
<1>17. CASE CheckDeleted
  BY <1>17 DEF CheckDeleted
<1>18. CASE UpdateDesired
  BY <1>18 DEF UpdateDesired, Ready, Running, Message, PublishToTopic, Published, Packet,
        NotPublished, Proceed, connection
<1>19. CASE UpdateReported
  BY <1>19 DEF UpdateReported, Ready, Running, PublishToTopic, Published, Packet, NotPublished,
        Proceed, connection, Message
<1>20. CASE ShadowRunEnds
  BY <1>20 DEF ShadowRunEnds
<1>21. CASE DescribeNextJob
  BY <1>21 DEF DescribeNextJob, Ready, Running, PublishToTopic, Published, Packet, NotPublished,
        Proceed, connection
<1>22. CASE Work
  BY <1>22 DEF Work
<1>23. CASE WorkEnds
  BY <1>23 DEF WorkEnds
<1>24. CASE ProcessJobDocument
  BY <1>24 DEF ProcessJobDocument, Running, Top, SendUpdateForJob, Message, Published, Packet,
        GoOn, NotPublished, Act, PublishForJob, Note, connection
<1>25. CASE CountRun
  BY <1>25 DEF CountRun
<1>26. CASE JobsRunEnds
  BY <1>26 DEF JobsRunEnds, Ready, Running, Note, connection
<1>27. CASE SendReport
  BY <1>27 DEF SendReport, Ready, Running, CollectDeviceMetrics, GenerateDeviceMetricsReport,
        Proceed, connection, PublishToTopic, Published, Packet, NotPublished, Message
<1>28. CASE AwaitReport
  BY <1>28 DEF AwaitReport
<1>29. CASE SecondOver
  BY <1>29 DEF SecondOver
<1>30. CASE CheckReport
  BY <1>30 DEF CheckReport
<1>31. CASE DefenderRunEnds
  <2>1. demo = "defender" /\ demo' = demo
    BY <1>31 DEF DefenderRunEnds
  <2>2. notes' = notes \/ notes' = [Notes("defender") EXCEPT !.id = runs + 2]
    BY <1>31 DEF DefenderRunEnds
  <2>3. Notes("defender") = [response |-> "none", id |-> 1, tries |-> 0, metrics |-> {},
                             length |-> TooSmall, answered |-> None]
    BY DEF Notes
  <2>4. runs \in Nat
    BY DEF RunsLeft
  <2> QED  BY <2>1, <2>2, <2>3, <2>4
<1>32. CASE MutualConnect
  BY <1>32 DEF MutualConnect
<1>33. CASE CreateMQTTConnectionWithBroker
  BY <1>33 DEF CreateMQTTConnectionWithBroker
<1>34. CASE MutualSubscribe
  BY <1>34 DEF MutualSubscribe, Ready, Running, Note, Packet, connection
<1>35. CASE MutualWaited
  BY <1>35 DEF MutualWaited, LoopOf, InLoop, Running, WaitOver, Note, connection
<1>36. CASE MutualSubscribeAgain
  BY <1>36 DEF MutualSubscribeAgain, Running, Proceed, BackoffForRetry, Note, connection
<1>37. CASE MutualPublish
  BY <1>37 DEF MutualPublish, Ready, Running, Proceed, Packet, Message, Note, connection
<1>38. CASE EchoWaited
  BY <1>38 DEF EchoWaited
<1>39. CASE MutualUnsubscribe
  BY <1>39 DEF MutualUnsubscribe
<1>40. CASE MutualUnsubscribed
  BY <1>40 DEF MutualUnsubscribed
<1>41. CASE MutualReceiveAck
  BY <1>41 DEF MutualReceiveAck
<1>42. CASE MutualDisconnect
  BY <1>42 DEF MutualDisconnect
<1>43. CASE MutualRunEnds
  <2>1. demo = "mutual" /\ demo' = demo
    BY <1>43 DEF MutualRunEnds
  <2> DEFINE good == notes.successes + (IF status THEN 1 ELSE 0)
  <2>2. notes' = notes \/ notes' = [Notes("mutual") EXCEPT !.successes = good]
    BY <1>43 DEF MutualRunEnds
  <2> HIDE DEF good
  <2>3. Notes("mutual") = [published |-> 0, echoed |-> 0, granted |-> FALSE, rejected |-> FALSE,
                           successes |-> 0]
    BY DEF Notes
  <2>4. [Notes("mutual") EXCEPT !.successes = good].granted = FALSE
    BY <2>3
  <2>5. "granted" \in DOMAIN [Notes("mutual") EXCEPT !.successes = good]
    BY <2>3
  <2> QED  BY <2>1, <2>2, <2>4, <2>5
<1>44. CASE OfferJob
  BY <1>44 DEF OfferJob, InLoop, Running, Message, Note, connection
<1>45. CASE LinkLost
  BY <1>45 DEF LinkLost
<1>46. CASE Rest
  BY <1>46 DEF Rest, vars, place, connection, exchange
<1> HIDE DEF Globals
<1> QED  BY <1>1, <1>2, <1>3, <1>4, <1>5, <1>6, <1>7, <1>8, <1>9, <1>10, <1>11, <1>12, <1>13,
         <1>14, <1>15, <1>16, <1>17, <1>18, <1>19, <1>20, <1>21, <1>22, <1>23, <1>24, <1>25,
         <1>26, <1>27, <1>28, <1>29, <1>30, <1>31, <1>32, <1>33, <1>34, <1>35, <1>36, <1>37,
         <1>38, <1>39, <1>40, <1>41, <1>42, <1>43, <1>44, <1>45, <1>46 DEF Next, Demo

-----------------------------------------------------------------------------
(* Runs and reports.                                                       *)

LEMMA RunsLeftStep ==
  ASSUME Wires, Globals, IPlace, RunsLeft, Next
  PROVE  RunsLeft'
<1> USE DEF RunsLeft, place
<1>0. at \in Nat
  BY Standing
<1>1. CASE Skip
  BY <1>1, <1>0 DEF Skip, Proceed, connection
<1>2. CASE ConnectToServer
  <2>1. UNCHANGED <<demo, runs, result>>
    BY <1>2 DEF ConnectToServer, connection
  <2>2. at' \in {at, at + 1} \/ demo = "shadow"
    BY <1>2 DEF ConnectToServer, EstablishFails, Proceed, BackoffForRetry
  <2>3. demo = "jobs" => notes'.retry = notes.retry
    BY <1>2 DEF ConnectToServer, SocketOpened
  <2> QED  BY <1>0, <2>1, <2>2, <2>3
<1>3. CASE EstablishMqttSession
  <2>1. UNCHANGED <<demo, runs, result>>
    BY <1>3 DEF EstablishMqttSession, connection
  <2>2. at' \in {at, at + 1} \/ demo = "shadow"
    BY <1>3 DEF EstablishMqttSession, EstablishFails, Proceed
  <2>3. demo = "jobs" => notes'.retry = notes.retry
    BY <1>3 DEF EstablishMqttSession, StartsDeletion
  <2> QED  BY <1>0, <2>1, <2>2, <2>3
<1>4. CASE DisconnectMqttSession
  BY <1>4, <1>0 DEF DisconnectMqttSession, Ready, Proceed, CloseSocket
<1>5. CASE SubscribeToTopic
  BY <1>5, <1>0 DEF SubscribeToTopic, Ready, Proceed, connection
<1>6. CASE Subscribed
  BY <1>6, <1>0 DEF Subscribed, WaitOver, Proceed, BackoffForRetry, connection
<1>7. CASE NothingToUnsubscribe
  BY <1>7, <1>0 DEF NothingToUnsubscribe
<1>8. CASE UnsubscribeFromTopic
  BY <1>8, <1>0 DEF UnsubscribeFromTopic, Ready, Proceed, connection
<1>9. CASE Unsubscribed
  BY <1>9, <1>0 DEF Unsubscribed, WaitOver, Proceed, connection
<1>10. CASE ReceiveAck
  BY <1>10 DEF ReceiveAck
<1>11. CASE ReceivePublish
  <2>1. ASSUME demo = "jobs" PROVE notes'.retry = notes.retry
    <3>1. \E p \in owed : JobsCallback(p)
      BY <1>11, <2>1 DEF ReceivePublish
    <3> QED  BY <2>1, <3>1 DEF JobsCallback, NextJobHandler, Note, Globals
  <2>2. UNCHANGED <<runs, result, demo, at>>
    BY <1>11 DEF ReceivePublish
  <2> QED  BY <2>1, <2>2
<1>12. CASE LoopTimedOut
  BY <1>12, <1>0 DEF LoopTimedOut, LoopOf, Proceed, connection
<1>13. CASE LoopFailed
  <2>1. UNCHANGED <<demo, runs, result>>
    BY <1>13 DEF LoopFailed, connection
  <2>2. at' \in {at, at + 1} \/ demo = "shadow"
    BY <1>13 DEF LoopFailed, Proceed
  <2>3. demo = "jobs" => notes'.retry = notes.retry
    BY <1>13 DEF LoopFailed, Globals
  <2> QED  BY <1>0, <2>1, <2>2, <2>3
<1>14. CASE DeleteShadow
  BY <1>14, <1>0 DEF DeleteShadow, Ready, PublishToTopic, Published, NotPublished, Proceed,
        connection
<1>15. CASE AwaitDelete
  BY <1>15, <1>0 DEF AwaitDelete, Ready, Proceed, connection
<1>16. CASE DeleteAnswered
  BY <1>16, <1>0 DEF DeleteAnswered, WaitOver, Proceed, connection
<1>17. CASE CheckDeleted
  BY <1>17, <1>0 DEF CheckDeleted, Ready, Proceed, connection
<1>18. CASE UpdateDesired
  BY <1>18, <1>0 DEF UpdateDesired, Ready, PublishToTopic, Published, NotPublished, Proceed,
        connection
<1>19. CASE UpdateReported
  BY <1>19, <1>0 DEF UpdateReported, Ready, PublishToTopic, Published, NotPublished, Proceed,
        connection
<1>20. CASE ShadowRunEnds
  <2>1. /\ demo # "jobs" /\ demo' = demo /\ runs < MaxRuns /\ runs' = runs + 1
        /\ runs + 1 = MaxRuns \/ result' # "none" \/ (runs + 1 # MaxRuns /\ result' = "none")
        /\ runs + 1 = MaxRuns => result' # "none"
    BY <1>20 DEF ShadowRunEnds, Ready, Running
  <2> QED  BY <2>1, DemosAssumption
<1>21. CASE DescribeNextJob
  BY <1>21, <1>0 DEF DescribeNextJob, Ready, PublishToTopic, Published, NotPublished, Proceed,
        connection
<1>22. CASE Work
  BY <1>22, <1>0 DEF Work, Ready, Proceed, connection
<1>23. CASE WorkEnds
  BY <1>23, <1>0 DEF WorkEnds, LoopOf, Proceed, connection
<1>24. CASE ProcessJobDocument
  <2>1. UNCHANGED <<demo, runs, result>>
    BY <1>24 DEF ProcessJobDocument, connection
  <2>2. at' \in {at, at + 1} \/ demo = "shadow"
    BY <1>24 DEF ProcessJobDocument, place
  <2>3. demo = "jobs" => notes'.retry = notes.retry
    BY <1>24 DEF ProcessJobDocument, SendUpdateForJob, Act, PublishForJob, Note, Globals
  <2> QED  BY <1>0, <2>1, <2>2, <2>3
<1>25. CASE CountRun
  <2>1. demo = "jobs" /\ at = 5
    BY <1>25, Standing DEF CountRun, Ready
  <2>2. demo' = demo /\ at' = 6 /\ runs' = runs + 1 /\ runs < MaxRuns /\ runs \in Nat
    BY <1>25, <2>1 DEF CountRun
  <2>3. notes' = [notes EXCEPT !.retry = (~status \/ notes.error) /\ runs + 1 < MaxRuns]
    BY <1>25 DEF CountRun
  <2>4. notes'.retry => runs + 1 < MaxRuns
    BY <2>1, <2>3 DEF Globals
  <2> QED  BY <2>1, <2>2, <2>4, DemosAssumption
<1>26. CASE JobsRunEnds
  <2>1. demo = "jobs" /\ demo' = demo /\ runs' = runs
        /\ \/ at' = 1 /\ notes.retry
           \/ at' = at /\ notes' = notes
    BY <1>26 DEF JobsRunEnds
  <2> QED  BY <2>1
<1>27. CASE SendReport
  BY <1>27, <1>0 DEF SendReport, Ready, CollectDeviceMetrics, GenerateDeviceMetricsReport,
        Proceed, connection, PublishToTopic, Published, NotPublished
<1>28. CASE AwaitReport
  <2>1. UNCHANGED <<demo, runs, result>>
    BY <1>28 DEF AwaitReport, connection
  <2>2. at' \in {at, at + 1} \/ demo = "shadow"
    BY <1>28 DEF AwaitReport, Proceed
  <2>3. demo = "jobs" => notes'.retry = notes.retry
    BY <1>28, Standing DEF AwaitReport, Ready
  <2> QED  BY <1>0, <2>1, <2>2, <2>3
<1>29. CASE SecondOver
  BY <1>29 DEF SecondOver
<1>30. CASE CheckReport
  BY <1>30, <1>0 DEF CheckReport, Ready, Proceed, connection
<1>31. CASE DefenderRunEnds
  <2>1. /\ demo # "jobs" /\ demo' = demo /\ runs < MaxRuns /\ runs' = runs + 1
        /\ runs + 1 = MaxRuns \/ result' # "none" \/ (runs + 1 # MaxRuns /\ result' = "none")
        /\ runs + 1 = MaxRuns => result' # "none"
    BY <1>31 DEF DefenderRunEnds, Ready, Running
  <2> QED  BY <2>1, DemosAssumption
<1>32. CASE MutualConnect
  BY <1>32, <1>0 DEF MutualConnect, Ready, SocketOpened, Proceed, BackoffForRetry
<1>33. CASE CreateMQTTConnectionWithBroker
  BY <1>33, <1>0 DEF CreateMQTTConnectionWithBroker, Ready, NewSession, ForLater, Proceed
<1>34. CASE MutualSubscribe
  <2>1. UNCHANGED <<demo, runs, result>>
    BY <1>34 DEF MutualSubscribe, connection
  <2>2. at' \in {at, at + 1} \/ demo = "shadow"
    BY <1>34 DEF MutualSubscribe, Note
  <2>3. demo = "jobs" => notes'.retry = notes.retry
    BY <1>34 DEF MutualSubscribe, Note, Globals
  <2> QED  BY <1>0, <2>1, <2>2, <2>3
<1>35. CASE MutualWaited
  BY <1>35 DEF MutualWaited, LoopOf, InLoop, Running, WaitOver, Note, connection
<1>36. CASE MutualSubscribeAgain
  BY <1>36, <1>0 DEF MutualSubscribeAgain, Proceed, BackoffForRetry, Note, connection
<1>37. CASE MutualPublish
  <2>1. UNCHANGED <<demo, runs, result>>
    BY <1>37 DEF MutualPublish, connection
  <2>2. at' \in {at, at + 1} \/ demo = "shadow"
    BY <1>37 DEF MutualPublish, Proceed
  <2>3. demo = "jobs" => notes'.retry = notes.retry
    BY <1>37 DEF MutualPublish, Note, Globals
  <2> QED  BY <1>0, <2>1, <2>2, <2>3
<1>38. CASE EchoWaited
  BY <1>38, <1>0 DEF EchoWaited, WaitOver, LoopOf, Proceed, connection
<1>39. CASE MutualUnsubscribe
  BY <1>39, <1>0 DEF MutualUnsubscribe, Ready, Proceed, connection
<1>40. CASE MutualUnsubscribed
  BY <1>40, <1>0 DEF MutualUnsubscribed, WaitOver, Proceed, LoopOf, connection
<1>41. CASE MutualReceiveAck
  BY <1>41 DEF MutualReceiveAck
<1>42. CASE MutualDisconnect
  BY <1>42, <1>0 DEF MutualDisconnect, Ready, CloseSocket, Proceed
<1>43. CASE MutualRunEnds
  <2>1. /\ demo # "jobs" /\ demo' = demo /\ runs < MaxRuns /\ runs' = runs + 1
        /\ runs + 1 = MaxRuns \/ result' # "none" \/ (runs + 1 # MaxRuns /\ result' = "none")
        /\ runs + 1 = MaxRuns => result' # "none"
    BY <1>43 DEF MutualRunEnds, Ready, Running
  <2> QED  BY <2>1, DemosAssumption
<1>44. CASE OfferJob
  BY <1>44 DEF OfferJob, InLoop, Running, Message, Note, connection
<1>45. CASE LinkLost
  BY <1>45 DEF LinkLost
<1>46. CASE Rest
  BY <1>46 DEF Rest, vars, place
<1> HIDE DEF RunsLeft, place
<1> QED  BY <1>1, <1>2, <1>3, <1>4, <1>5, <1>6, <1>7, <1>8, <1>9, <1>10, <1>11, <1>12, <1>13,
         <1>14, <1>15, <1>16, <1>17, <1>18, <1>19, <1>20, <1>21, <1>22, <1>23, <1>24, <1>25,
         <1>26, <1>27, <1>28, <1>29, <1>30, <1>31, <1>32, <1>33, <1>34, <1>35, <1>36, <1>37,
         <1>38, <1>39, <1>40, <1>41, <1>42, <1>43, <1>44, <1>45, <1>46 DEF Next, Demo

LEMMA ReportStep ==
  ASSUME Wires, Globals, IPlace, Answered, ReportExact, Next
  PROVE  Answered' /\ ReportExact'
<1> USE DEF Answered, ReportExact
<1>1. CASE Skip
  BY <1>1 DEF Skip
<1>2. CASE ConnectToServer
  BY <1>2 DEF ConnectToServer
<1>3. CASE EstablishMqttSession
  BY <1>3 DEF EstablishMqttSession
<1>4. CASE DisconnectMqttSession
  BY <1>4 DEF DisconnectMqttSession
<1>5. CASE SubscribeToTopic
  BY <1>5 DEF SubscribeToTopic
<1>6. CASE Subscribed
  BY <1>6 DEF Subscribed
<1>7. CASE NothingToUnsubscribe
  BY <1>7 DEF NothingToUnsubscribe
<1>8. CASE UnsubscribeFromTopic
  BY <1>8 DEF UnsubscribeFromTopic
<1>9. CASE Unsubscribed
  BY <1>9 DEF Unsubscribed
<1>10. CASE ReceiveAck
  BY <1>10 DEF ReceiveAck
<1>11. CASE ReceivePublish
  <2>1. demo' = demo /\ result' = result /\ result = "none"
    BY <1>11 DEF ReceivePublish, InLoop, Running
  <2>2. demo = "defender" => \E p \in owed : DefenderCallback(p)
    BY <1>11 DEF ReceivePublish
  <2>3. ASSUME demo = "defender", NEW p \in owed, DefenderCallback(p)
        PROVE  Answered' /\ ReportExact'
    BY <2>1, <2>3 DEF DefenderCallback, ValidateDefenderResponse
  <2> QED  BY <2>1, <2>2, <2>3
<1>12. CASE LoopTimedOut
  BY <1>12 DEF LoopTimedOut
<1>13. CASE LoopFailed
  BY <1>13 DEF LoopFailed
<1>14. CASE DeleteShadow
  BY <1>14 DEF DeleteShadow, Ready, Running, PublishToTopic, Published, Packet, NotPublished,
        Proceed, connection, Message
<1>15. CASE AwaitDelete
  BY <1>15 DEF AwaitDelete
<1>16. CASE DeleteAnswered
  BY <1>16 DEF DeleteAnswered
<1>17. CASE CheckDeleted
  BY <1>17 DEF CheckDeleted
<1>18. CASE UpdateDesired
  BY <1>18 DEF UpdateDesired, Ready, Running, Message, PublishToTopic, Published, Packet,
        NotPublished, Proceed, connection
<1>19. CASE UpdateReported
  BY <1>19 DEF UpdateReported, Ready, Running, PublishToTopic, Published, Packet, NotPublished,
        Proceed, connection, Message
<1>20. CASE ShadowRunEnds
  BY <1>20 DEF ShadowRunEnds
<1>21. CASE DescribeNextJob
  BY <1>21 DEF DescribeNextJob, Ready, Running, PublishToTopic, Published, Packet, NotPublished,
        Proceed, connection
<1>22. CASE Work
  BY <1>22 DEF Work
<1>23. CASE WorkEnds
  BY <1>23 DEF WorkEnds
<1>24. CASE ProcessJobDocument
  BY <1>24 DEF ProcessJobDocument, Running, Top, SendUpdateForJob, Message, Published, Packet,
        GoOn, NotPublished, Act, PublishForJob, Note, connection
<1>25. CASE CountRun
  BY <1>25 DEF CountRun
<1>26. CASE JobsRunEnds
  BY <1>26 DEF JobsRunEnds
<1>27. CASE SendReport
  <2>1. demo = "defender" /\ demo' = demo /\ result' = result /\ result = "none"
    BY <1>27, Standing DEF SendReport, Ready, Running, PublishToTopic
  <2>2. PICK m \in CollectDeviceMetrics :
          notes' = [notes EXCEPT !.metrics = m, !.length = GenerateDeviceMetricsReport(m)]
    BY <1>27 DEF SendReport
  <2>3. /\ notes'.metrics = m /\ notes'.length = GenerateDeviceMetricsReport(m)
        /\ notes'.response = notes.response /\ notes'.answered = notes.answered
        /\ notes'.id = notes.id /\ DOMAIN notes' = DOMAIN notes
    BY <2>1, <2>2
  <2>4. m \subseteq Metrics
    BY DEF CollectDeviceMetrics
  <2>5. ASSUME NEW x \in m
        PROVE  notes'.length = IF ReportLength(x) < Room THEN ReportLength(x) ELSE TooSmall
    <3>1. m = {x} /\ x \in Metrics
      BY <2>5 DEF CollectDeviceMetrics
    <3>2. GenerateDeviceMetricsReport(m) = GenerateJsonReport(x)
      <4>1. (CHOOSE y \in {x} : TRUE) = x
        OBVIOUS
      <4> QED  BY <3>1, <4>1 DEF GenerateDeviceMetricsReport
    <3> QED  BY <2>3, <3>1, <3>2, GatheredLengths, ReportWritten
  <2>6. Answered'
    BY <2>1, <2>3, <2>4
  <2>7. ReportExact'
    BY <2>3, <2>5
  <2> QED  BY <2>6, <2>7
<1>28. CASE AwaitReport
  <2>1. demo = "defender" /\ demo' = demo /\ result' = result /\ result = "none"
    BY <1>28, Standing DEF AwaitReport, Ready, Running
  <2>2. CASE notes' = notes
    BY <2>1, <2>2
  <2>3. CASE notes' = [notes EXCEPT !.tries = @ + 1, !.metrics = {}, !.length = TooSmall]
    BY <2>1, <2>3
  <2> QED  BY <1>28, <2>2, <2>3 DEF AwaitReport
<1>29. CASE SecondOver
  BY <1>29 DEF SecondOver
<1>30. CASE CheckReport
  BY <1>30 DEF CheckReport
<1>31. CASE DefenderRunEnds
  <2>1. demo = "defender" /\ demo' = demo /\ result = "none"
    BY <1>31 DEF DefenderRunEnds, Ready, Running
  <2>2. CASE notes' = notes /\ (result' = "success" => notes.response = "accepted")
    BY <2>1, <2>2
  <2>3. CASE notes' = [Notes("defender") EXCEPT !.id = runs + 2] /\ result' = "none"
    <3>1. Notes("defender") = [response |-> "none", id |-> 1, tries |-> 0, metrics |-> {},
                               length |-> TooSmall, answered |-> None]
      BY DEF Notes
    <3> QED  BY <2>1, <2>3, <3>1
  <2> QED  BY <1>31, <2>1, <2>2, <2>3 DEF DefenderRunEnds
<1>32. CASE MutualConnect
  BY <1>32 DEF MutualConnect
<1>33. CASE CreateMQTTConnectionWithBroker
  BY <1>33 DEF CreateMQTTConnectionWithBroker
<1>34. CASE MutualSubscribe
  BY <1>34 DEF MutualSubscribe, Ready, Running, Note, Packet, connection
<1>35. CASE MutualWaited
  BY <1>35 DEF MutualWaited, LoopOf, InLoop, Running, WaitOver, Note, connection
<1>36. CASE MutualSubscribeAgain
  <2>1. Op = "mutualSubscribe"
    BY <1>36 DEF MutualSubscribeAgain, IPlace, Placed
  <2>2. demo = "mutual" /\ demo' = demo
    BY <1>36, <2>1, Standing DEF MutualSubscribeAgain
  <2> QED  BY <2>2
<1>37. CASE MutualPublish
  BY <1>37 DEF MutualPublish, Ready, Running, Proceed, Packet, Message, Note, connection
<1>38. CASE EchoWaited
  BY <1>38 DEF EchoWaited
<1>39. CASE MutualUnsubscribe
  BY <1>39 DEF MutualUnsubscribe
<1>40. CASE MutualUnsubscribed
  BY <1>40 DEF MutualUnsubscribed
<1>41. CASE MutualReceiveAck
  BY <1>41 DEF MutualReceiveAck
<1>42. CASE MutualDisconnect
  BY <1>42 DEF MutualDisconnect
<1>43. CASE MutualRunEnds
  BY <1>43 DEF MutualRunEnds
<1>44. CASE OfferJob
  BY <1>44 DEF OfferJob
<1>45. CASE LinkLost
  BY <1>45 DEF LinkLost
<1>46. CASE Rest
  BY <1>46 DEF Rest, vars
<1> HIDE DEF Answered, ReportExact
<1> QED  BY <1>1, <1>2, <1>3, <1>4, <1>5, <1>6, <1>7, <1>8, <1>9, <1>10, <1>11, <1>12, <1>13,
         <1>14, <1>15, <1>16, <1>17, <1>18, <1>19, <1>20, <1>21, <1>22, <1>23, <1>24, <1>25,
         <1>26, <1>27, <1>28, <1>29, <1>30, <1>31, <1>32, <1>33, <1>34, <1>35, <1>36, <1>37,
         <1>38, <1>39, <1>40, <1>41, <1>42, <1>43, <1>44, <1>45, <1>46 DEF Next, Demo

-----------------------------------------------------------------------------
LEMMA InitHolds ==
  ASSUME Init PROVE IInv
<1>0. /\ demo \in Demos /\ runs = 0 /\ at = 1 /\ phase = "run" /\ status = TRUE
      /\ result = "none" /\ tcp = "none" /\ lost = FALSE /\ link = "down" /\ session = FALSE
      /\ connected = FALSE /\ losses = 0 /\ fault = "none" /\ attempts = 0 /\ nextId = 1
      /\ packetType = "none" /\ subAck = FALSE /\ slots = [s \in Slot |-> None]
      /\ owed = {} /\ stack = <<>> /\ notes = Notes(demo)
  BY DEF Init
<1>b. {MaxRuns, RetryMax, MaxNested, MaxLosses} \subseteq Nat /\ MaxRuns # 0
  BY DemosAssumption
<1>1. demo \in {"mutual", "shadow", "jobs", "defender"}
  BY <1>0, DemosAssumption
<1>2. /\ demo = "jobs" => notes = [exit |-> FALSE, error |-> FALSE, retry |-> FALSE, buffer |-> None,
                                   action |-> "none", offered |-> 0, mixed |-> FALSE]
      /\ demo = "defender" => notes = [response |-> "none", id |-> 1, tries |-> 0, metrics |-> {},
                                       length |-> TooSmall, answered |-> None]
      /\ demo = "mutual" => notes = [published |-> 0, echoed |-> 0, granted |-> FALSE,
                                     rejected |-> FALSE, successes |-> 0]
  BY <1>0 DEF Notes
<1>3. Wires
  <2>1. losses = 0 /\ 0 \in 0..MaxLosses /\ session = FALSE /\ result = "none" /\ fault = "none"
        /\ tcp = "none" /\ link = "down" /\ demo \in Demos
    BY <1>b DEF Init
  <2> QED  BY <2>1 DEF Wires
<1>4. Exchange
  <2>1. [s \in Slot |-> None] \in [Slot -> Nat]
    BY DEF None
  <2>2. attempts = 0 /\ 0 \in 0..RetryMax /\ nextId = 1 /\ packetType = "none" /\ subAck = FALSE
        /\ slots = [s \in Slot |-> None] /\ owed = {}
    BY <1>b DEF Init
  <2> QED  BY <2>1, <2>2 DEF Exchange
<1>5. Handlers
  BY <1>0, <1>b DEF Handlers
<1>6. Globals
  <2>1. demo = "jobs" => {"offered", "retry"} \subseteq DOMAIN notes /\ notes.offered \in Nat
    BY <1>2
  <2>2. demo = "defender" => "id" \in DOMAIN notes /\ notes.id \in Nat
    BY <1>2
  <2>3. demo = "mutual" => "granted" \in DOMAIN notes /\ notes.granted \in BOOLEAN
    <3>1. ASSUME demo = "mutual" PROVE "granted" \in DOMAIN notes /\ notes.granted = FALSE
      BY <1>2, <3>1
    <3> QED  BY <3>1
  <2> QED  BY <2>1, <2>2, <2>3 DEF Globals
<1>7. Last \in 7..18
  BY <1>0, Scripts DEF Last
<1>8. IPlace
  <2>1. Placed
    BY <1>0 DEF Placed
  <2>2. Here
    <3>1. /\ demo \in Demos /\ at \in 1..Last /\ status = TRUE /\ connected = FALSE /\ lost = FALSE
          /\ phase = "run"
      BY <1>7 DEF Init
    <3> QED  BY <3>1 DEF Here
  <2>3. SocketInv
    BY <1>0, <1>7 DEF SocketInv
  <2> QED  BY <2>1, <2>2, <2>3 DEF IPlace
<1>9. RunsLeft
  BY <1>0, <1>b, <1>2, DemosAssumption DEF RunsLeft
<1>10. Answered /\ ReportExact
  <2>1. demo = "defender" =>
          /\ {"response", "answered", "id", "metrics", "length"} \subseteq DOMAIN notes
          /\ notes.response = "none" /\ notes.metrics = {} /\ result = "none"
    BY <1>2 DEF Init
  <2> QED  BY <2>1 DEF Answered, ReportExact
<1> QED  BY <1>3, <1>4, <1>5, <1>6, <1>8, <1>9, <1>10 DEF IInv

LEMMA StepHolds ==
  ASSUME IInv, [Next]_vars PROVE IInv'
<1>1. CASE Next
  <2>1. Wires' /\ Exchange' /\ Handlers' /\ Globals'
    BY <1>1, WiresStep, ExchangeStep, HandlersStep, GlobalsStep DEF IInv
  <2>2. IPlace' /\ RunsLeft'
    BY <1>1, PlaceStep, RunsLeftStep DEF IInv
  <2>3. Answered' /\ ReportExact'
    BY <1>1, ReportStep DEF IInv
  <2> QED  BY <2>1, <2>2, <2>3 DEF IInv
<1>2. CASE UNCHANGED vars
  <2>1. UNCHANGED <<demo, runs, at, phase, status, result, tcp, fault, lost, link, session, connected, losses, fault, attempts, nextId, packetType, subAck, slots, owed, stack, notes>>
    BY <1>2 DEF vars, place, connection, exchange
  <2>2. Wires' /\ Exchange' /\ Handlers' /\ Globals'
    BY <2>1 DEF IInv, Wires, Exchange, Handlers, Globals
  <2>3. IPlace' /\ RunsLeft'
    BY <2>1 DEF IInv, IPlace, Here, Placed, SocketInv, RunsLeft, Op, Last
  <2>4. Answered' /\ ReportExact'
    BY <2>1 DEF IInv, Answered, ReportExact
  <2> QED  BY <2>2, <2>3, <2>4 DEF IInv
<1> QED  BY <1>1, <1>2

THEOREM Invariant == Spec => []IInv
  BY InitHolds, StepHolds, PTL DEF Spec

(* Type correctness of the four demos, for every number of runs, attempts, *)
(* slots and jobs.                                                         *)
THEOREM TypeCorrect == Spec => []TypeOK
<1>1. IInv => TypeOK
  BY DEF IInv, TypeOK, Wires, Exchange, Handlers, IPlace, Here, RunsLeft, Last
<1> QED  BY <1>1, Invariant, PTL

(* The shadow and the defender demo disconnect nothing that this run has   *)
(* not connected, and leave nothing open but a connection on which         *)
(* MQTT_Connect failed; the jobs and the mutual authentication demo leave  *)
(* nothing open. That nobody closes a socket twice does not hold.          *)
THEOREM SocketsStaySettled == Spec => []SocketsSettled
<1>1. ASSUME IInv PROVE SocketsSettled
  <2>1. result # "none" => at = Last /\ phase # "mqtt"
    BY <1>1, Standing DEF IInv, IPlace, Placed
  <2>2. Last \in 7..18 /\ demo \in {"mutual", "shadow", "jobs", "defender"}
    BY <1>1, Scripts DEF IInv, IPlace, Here, Last
  <2> QED  BY <1>1, <2>1, <2>2 DEF SocketsSettled, Begins, IInv, IPlace, Here, SocketInv
<1> QED  BY <1>1, Invariant, PTL

(* RunDeviceDefenderDemo succeeds only when the report of its last run was *)
(* accepted.                                                               *)
THEOREM SuccessIsAccepted == Spec => []SuccessMeansAccepted
<1>1. IInv => SuccessMeansAccepted
  BY DEF IInv, Answered, SuccessMeansAccepted
<1> QED  BY <1>1, Invariant, PTL

(* GenerateJsonReport makes the report whenever it fits the buffer, as     *)
(* long as its parts, whatever is open or connected on the device.         *)
THEOREM ReportsExact == Spec => []ReportExact
<1>1. IInv => ReportExact
  BY DEF IInv
<1> QED  BY <1>1, Invariant, PTL

-----------------------------------------------------------------------------
(* The coreMQTT Agent demo, in variables and constants of its own or       *)
(* those that have the same name.                                          *)
CONSTANTS Tasks, Qos1Tasks, PublishCount, MaxSubscriptions, MaxAttempts, MaxDemos, MaxFailures, TasksCreated
VARIABLES pc, ended, waited, failures, resubscribed, taskPc, n, successes, xSuccess, note

Agent == INSTANCE MqttAgentDemo

(* What the pool's queues range over, and CommandsDistinct with the        *)
(* elements of each sequence spelled out.                                  *)
PoolTyped == /\ free \in Seq(Commands) /\ queue \in Seq(Commands)
             /\ pending \subseteq Commands

Distinct(f, q, w) ==
  /\ \A i, k \in 1..Len(f) : f[i] = f[k] => i = k
  /\ \A i, k \in 1..Len(q) : q[i] = q[k] => i = k
  /\ \A i \in 1..Len(f), k \in 1..Len(q) : f[i] # q[k]
  /\ \A i \in 1..Len(f) : f[i] \notin w
  /\ \A i \in 1..Len(q) : q[i] \notin w

PoolInv == PoolTyped /\ Distinct(free, queue, pending)

LEMMA DistinctIsDistinct ==
  ASSUME PoolTyped
  PROVE  CommandsDistinct <=> Distinct(free, queue, pending)
<1>1. DOMAIN free = 1..Len(free) /\ DOMAIN queue = 1..Len(queue)
  BY DEF PoolTyped
<1>2. /\ IsInjective(free) <=> \A i, k \in 1..Len(free) : free[i] = free[k] => i = k
      /\ IsInjective(queue) <=> \A i, k \in 1..Len(queue) : queue[i] = queue[k] => i = k
  BY <1>1 DEF IsInjective
<1>3. Elements(free) \cap Elements(queue) = {}
        <=> \A i \in 1..Len(free), k \in 1..Len(queue) : free[i] # queue[k]
  BY <1>1 DEF Elements
<1>4. pending \cap (Elements(free) \cup Elements(queue)) = {}
        <=> /\ \A i \in 1..Len(free) : free[i] \notin pending
            /\ \A i \in 1..Len(queue) : queue[i] \notin pending
  BY <1>1 DEF Elements
<1> QED  BY <1>2, <1>3, <1>4 DEF CommandsDistinct, Distinct

-----------------------------------------------------------------------------
(* The three ways a structure travels.                                     *)

(* From the pool into the queue: Agent_GetCommand and Agent_MessageSend.   *)
LEMMA Sent ==
  ASSUME NEW f \in Seq(Commands), NEW q \in Seq(Commands), NEW w \in SUBSET Commands,
         Distinct(f, q, w), f # <<>>
  PROVE  /\ Tail(f) \in Seq(Commands) /\ Append(q, Head(f)) \in Seq(Commands)
         /\ Distinct(Tail(f), Append(q, Head(f)), w)
BY DEF Distinct

(* Out of the queue, into the hands of the agent task.                     *)
LEMMA Taken ==
  ASSUME NEW f \in Seq(Commands), NEW q \in Seq(Commands), NEW w \in SUBSET Commands,
         Distinct(f, q, w), q # <<>>
  PROVE  /\ Tail(q) \in Seq(Commands) /\ Head(q) \in Commands
         /\ Distinct(f, Tail(q), w)
         /\ Head(q) \notin w
         /\ \A i \in 1..Len(f) : f[i] # Head(q)
         /\ \A i \in 1..Len(Tail(q)) : Tail(q)[i] # Head(q)
BY DEF Distinct

(* Back to the pool, from the agent task's hands: Agent_ReleaseCommand.    *)
LEMMA GivenBack ==
  ASSUME NEW f \in Seq(Commands), NEW q \in Seq(Commands), NEW w \in SUBSET Commands,
         NEW c \in Commands, Distinct(f, q, w), c \notin w,
         \A i \in 1..Len(f) : f[i] # c, \A i \in 1..Len(q) : q[i] # c
  PROVE  Append(f, c) \in Seq(Commands) /\ Distinct(Append(f, c), q, w)
BY DEF Distinct

(* Out of the agent task's hands to wait for an acknowledgment.            *)
LEMMA Kept ==
  ASSUME NEW f \in Seq(Commands), NEW q \in Seq(Commands), NEW w \in SUBSET Commands,
         NEW c \in Commands, Distinct(f, q, w),
         \A i \in 1..Len(f) : f[i] # c, \A i \in 1..Len(q) : q[i] # c
  PROVE  Distinct(f, q, w \cup {c})
BY DEF Distinct

-----------------------------------------------------------------------------
(* The steps.                                                              *)

LEMMA SendStep ==
  ASSUME PoolInv, NEW content, Agent!Send(content)
  PROVE  PoolInv'
<1>1. /\ free' = Tail(free) /\ queue' = Append(queue, Head(free)) /\ pending' = pending
      /\ free # <<>>
  BY DEF Agent!Send
<1> QED  BY <1>1, Sent DEF PoolInv, PoolTyped

LEMMA SameStep ==
  ASSUME PoolInv, UNCHANGED <<free, queue, pending>>
  PROVE  PoolInv'
BY DEF PoolInv, PoolTyped, Distinct

(* A command that waited is concluded.                                     *)
LEMMA WaitedStep ==
  ASSUME PoolInv, NEW c \in pending, NEW ok, Agent!Conclude(c, ok),
         pending' = pending \ {c}, queue' = queue
  PROVE  PoolInv'
<1>1. free' = Append(free, c)
  BY DEF Agent!Conclude, Agent!Released
<1>2. /\ free \in Seq(Commands) /\ queue \in Seq(Commands) /\ pending \subseteq Commands
      /\ c \in Commands
  BY DEF PoolInv, PoolTyped
<1>3. Distinct(free, queue, pending \ {c})
  BY DEF PoolInv, Distinct
<1>4. /\ \A i \in 1..Len(free) : free[i] # c
      /\ \A i \in 1..Len(queue) : queue[i] # c
  BY DEF PoolInv, Distinct
<1> QED  BY <1>1, <1>2, <1>3, <1>4, GivenBack DEF PoolInv, PoolTyped

(* The head of the queue is concluded at once, or waits.                   *)
LEMMA ReceiveStep ==
  ASSUME PoolInv, NEW p, Agent!Receive(p)
  PROVE  PoolInv'
<1> DEFINE c == Head(queue)
<1>1. /\ free \in Seq(Commands) /\ queue \in Seq(Commands) /\ pending \in SUBSET Commands
      /\ Distinct(free, queue, pending)
  BY DEF PoolInv, PoolTyped
<1>2. queue # <<>> /\ queue' = Tail(queue)
  BY DEF Agent!Receive
<1>3. /\ Tail(queue) \in Seq(Commands) /\ c \in Commands
      /\ Distinct(free, Tail(queue), pending) /\ c \notin pending
      /\ \A i \in 1..Len(free) : free[i] # c
      /\ \A i \in 1..Len(Tail(queue)) : Tail(queue)[i] # c
  BY <1>1, <1>2, Taken
<1> HIDE DEF c
<1>4. \/ free' = Append(free, c) /\ pending' = pending
      \/ free' = free /\ pending' = pending \cup {c}
  BY DEF Agent!Receive, Agent!Conclude, Agent!Released, c
<1>5. CASE free' = Append(free, c) /\ pending' = pending
  BY <1>1, <1>2, <1>3, <1>5, GivenBack DEF PoolInv, PoolTyped
<1>6. CASE free' = free /\ pending' = pending \cup {c}
  BY <1>1, <1>2, <1>3, <1>6, Kept DEF PoolInv, PoolTyped
<1> QED  BY <1>4, <1>5, <1>6

(* A run of the demo makes the queue anew; the first one fills the pool,   *)
(* the others take it as it is.                                            *)
LEMMA InitializeStep ==
  ASSUME PoolInv, Agent!MQTTAgentInit, Agent!LimitsAssumption
  PROVE  PoolInv'
<1>1. queue' = <<>> /\ pending' = {} /\ free' = Agent!InitializedPool(demo = 0)
  BY DEF Agent!MQTTAgentInit
<1>2. PoolSize \in Nat
  BY DEF Agent!LimitsAssumption
<1>3. CASE demo = 0
  <2>1. free' = [i \in 1..PoolSize |-> i]
    BY <1>1, <1>3 DEF Agent!InitializedPool
  <2>2. free' \in Seq(Commands) /\ Len(free') = PoolSize
    BY <1>2, <2>1 DEF Commands
  <2> QED  BY <1>1, <1>2, <2>1, <2>2 DEF PoolInv, PoolTyped, Distinct
<1>4. CASE demo # 0
  BY <1>1, <1>4 DEF Agent!InitializedPool, PoolInv, PoolTyped, Distinct
<1> QED  BY <1>3, <1>4

LEMMA PoolStep ==
  ASSUME PoolInv, [Agent!Next]_(Agent!vars), Agent!LimitsAssumption
  PROVE  PoolInv'
<1> USE DEF Agent!pool, Agent!runner, Agent!lists, Agent!tasks, Agent!conn
<1>1. CASE Agent!RunnerStep
  <2>1. CASE Agent!MQTTAgentInit
    BY <2>1, InitializeStep
  <2>2. CASE Agent!ConnectStep(0)
    BY <2>2, SameStep DEF Agent!ConnectStep, Agent!SocketConnect, Agent!MQTTConnect, Agent!BackoffForRetry
  <2>3. CASE Agent!CreateDemoTasks
    BY <2>3, SameStep DEF Agent!CreateDemoTasks
  <2>4. CASE Agent!WaitForTask
    BY <2>4, SameStep DEF Agent!WaitForTask
  <2>5. CASE Agent!Terminate
    BY <2>5, SendStep, SameStep DEF Agent!Terminate, Agent!NoCommand
  <2>6. CASE Agent!RunAgain
    BY <2>6, SameStep DEF Agent!RunAgain
  <2> QED  BY <1>1, <2>1, <2>2, <2>3, <2>4, <2>5, <2>6 DEF Agent!RunnerStep
<1>2. ASSUME NEW p \in Agent!Agents, Agent!AgentStep(p)
      PROVE  PoolInv'
  <2>1. CASE Agent!ConnectStep(p)
    BY <2>1, SameStep DEF Agent!ConnectStep, Agent!SocketConnect, Agent!MQTTConnect, Agent!BackoffForRetry
  <2>2. CASE Agent!ResumeSession(p)
    <3>1. ASSUME NEW c \in Agent!Obsolete(p), Agent!Conclude(c, FALSE), pending' = pending \ {c},
                 queue' = queue
          PROVE  PoolInv'
      BY <3>1, WaitedStep DEF Agent!Obsolete
    <3> QED  BY <2>2, <3>1, SameStep DEF Agent!ResumeSession
  <2>3. CASE Agent!HandleResubscribe(p)
    BY <2>3, SendStep, SameStep DEF Agent!HandleResubscribe, Agent!NoCommand
  <2>4. CASE Agent!Receive(p)
    BY <2>4, ReceiveStep
  <2>5. CASE Agent!LoopError(p)
    BY <2>5, SameStep DEF Agent!LoopError
  <2>6. ASSUME NEW c \in Agent!Commands, NEW ok \in BOOLEAN, Agent!Ack(p, c, ok)
        PROVE  PoolInv'
    BY <2>6, WaitedStep DEF Agent!Ack
  <2> QED  BY <1>2, <2>1, <2>2, <2>3, <2>4, <2>5, <2>6 DEF Agent!AgentStep
<1>3. ASSUME NEW t \in Tasks, Agent!TaskStep(t)
      PROVE  PoolInv'
  <2>1. CASE Agent!SubscribeToTopic(t)
    BY <2>1, SendStep, SameStep DEF Agent!SubscribeToTopic, Agent!NoCommand
  <2>2. CASE Agent!SubscribeDone(t)
    BY <2>2, SameStep DEF Agent!SubscribeDone
  <2>3. CASE Agent!Publish(t)
    BY <2>3, SendStep, SameStep DEF Agent!Publish, Agent!NoCommand
  <2>4. CASE Agent!PublishDone(t)
    BY <2>4, SameStep DEF Agent!PublishDone
  <2>5. CASE Agent!TaskEnds(t)
    BY <2>5, SameStep DEF Agent!TaskEnds
  <2> QED  BY <1>3, <2>1, <2>2, <2>3, <2>4, <2>5 DEF Agent!TaskStep
<1>4. CASE UNCHANGED (Agent!vars)
  BY <1>4, SameStep DEF Agent!vars
<1> QED  BY <1>1, <1>2, <1>3, <1>4 DEF Agent!Next

(* No command structure is ever in two places, so that the pool has room   *)
(* for each one given back, across the runs of the demo as well.           *)
THEOREM CommandsStayDistinct ==
  ASSUME Agent!LimitsAssumption
  PROVE  Agent!Spec => []CommandsDistinct
<1>1. Agent!Init => PoolInv
  BY DEF Agent!Init, PoolInv, PoolTyped, Distinct
<1>2. PoolInv /\ [Agent!Next]_(Agent!vars) => PoolInv'
  BY PoolStep
<1>3. PoolInv => CommandsDistinct
  BY DistinctIsDistinct DEF PoolInv
<1> QED  BY <1>1, <1>2, <1>3, PTL DEF Agent!Spec

-----------------------------------------------------------------------------
(* The subscription list. It changes in the callbacks of SUBSCRIBE: a      *)
(* filter that is not in it is added in one place, and refused ones are    *)
(* removed.                                                                *)

Once(list) == \A i, j \in DOMAIN list : list[i] = list[j] /\ list[i] # NoTask => i = j

(* The scan of addSubscription over the last k cells, as the recursive         *)
(* function of AddSubscription.                                                *)
Scans(g, list, t, k) ==
  g = [j \in 0..k |->
         IF j = 0 THEN Len(list) + 1
         ELSE LET i == Len(list) - j + 1
              IN  CASE g[j - 1] # 0 /\ list[i] = NoTask -> i
                    [] g[j - 1] # 0 /\ list[i] = t      -> 0
                    [] OTHER                            -> g[j - 1]]

LEMMA ScansExist ==
  ASSUME NEW list, NEW t
  PROVE  \A k \in Nat : \E g : Scans(g, list, t, k)
<1> DEFINE S == {k \in Nat : \E g : Scans(g, list, t, k)}
<1> DEFINE Next1(p, j) == LET i == Len(list) - j + 1
                          IN  CASE p # 0 /\ list[i] = NoTask -> i
                                [] p # 0 /\ list[i] = t      -> 0
                                [] OTHER                     -> p
<1>1. 0 \in S
  <2>1. Scans([j \in 0..0 |-> Len(list) + 1], list, t, 0)
    BY DEF Scans
  <2> QED  BY <2>1
<1>2. ASSUME NEW k \in Nat, k \in S PROVE k + 1 \in S
  <2>1. PICK g : Scans(g, list, t, k)
    BY <1>2
  <2> DEFINE h == [j \in 0..(k + 1) |-> IF j = k + 1 THEN Next1(g[k], k + 1) ELSE g[j]]
  <2> HIDE DEF Next1
  <2>2. \A j \in 0..(k + 1) : h[j] = IF j = 0 THEN Len(list) + 1 ELSE Next1(h[j - 1], j)
    <3> SUFFICES ASSUME NEW j \in 0..(k + 1)
                 PROVE  h[j] = IF j = 0 THEN Len(list) + 1 ELSE Next1(h[j - 1], j)
      OBVIOUS
    <3>1. CASE j = k + 1
      BY <3>1
    <3>2. CASE j # k + 1
      <4>1. j \in 0..k /\ (j # 0 => j - 1 \in 0..(k + 1) /\ j - 1 # k + 1)
        BY <3>2
      <4>2. g[j] = IF j = 0 THEN Len(list) + 1 ELSE Next1(g[j - 1], j)
        BY <2>1, <4>1 DEF Scans, Next1
      <4> QED  BY <4>1, <4>2, <3>2
    <3> QED  BY <3>1, <3>2
  <2>3. h = [j \in 0..(k + 1) |-> IF j = 0 THEN Len(list) + 1 ELSE Next1(h[j - 1], j)]
    BY <2>2
  <2> HIDE DEF h
  <2>4. Scans(h, list, t, k + 1)
    BY <2>3 DEF Scans, Next1
  <2> QED  BY <2>4
<1> HIDE DEF S
<1>3. Nat \subseteq S
  BY <1>1, <1>2, Induction
<1> QED  BY <1>3 DEF S

(* What the scan has gone past without finding the filter does not hold it.    *)
LEMMA ScanFinds ==
  ASSUME NEW list, NEW t, NEW g, Len(list) \in Nat, Scans(g, list, t, Len(list)),
         g[Len(list)] # 0, t # NoTask
  PROVE  \A i \in 1..Len(list) : list[i] # t
<1> DEFINE m == Len(list)
           Gone(k) == k <= m /\ g[k] # 0 => \A i \in (m - k + 1)..m : list[i] # t
           S == {k \in Nat : Gone(k)}
<1>1. 0 \in S
  OBVIOUS
<1>2. ASSUME NEW k \in Nat, k \in S PROVE k + 1 \in S
  <2> SUFFICES ASSUME k + 1 <= m, g[k + 1] # 0
               PROVE  \A i \in (m - k)..m : list[i] # t
    OBVIOUS
  <2>1. k + 1 \in 0..m /\ k + 1 # 0 /\ (k + 1) - 1 = k /\ m - (k + 1) + 1 = m - k
    OBVIOUS
  <2>2. g[k + 1] = CASE g[k] # 0 /\ list[m - k] = NoTask -> m - k
                     [] g[k] # 0 /\ list[m - k] = t      -> 0
                     [] OTHER                            -> g[k]
    BY <2>1 DEF Scans
  <2>3. g[k] # 0 /\ list[m - k] # t
    BY <2>2
  <2>4. \A i \in (m - k + 1)..m : list[i] # t
    BY <1>2, <2>3
  <2> QED  BY <2>3, <2>4
<1> HIDE DEF S
<1>3. m \in S
  BY <1>1, <1>2, Induction
<1> QED  BY <1>3 DEF S

(* A list whose cells are 1 to MaxSubscriptions.                               *)
Listed(list) == list = [i \in 1..MaxSubscriptions |-> list[i]]

LEMMA ListedLength ==
  ASSUME MaxSubscriptions \in Nat, NEW list, Listed(list)
  PROVE  Len(list) = MaxSubscriptions /\ DOMAIN list = 1..Len(list)
<1> DEFINE S == {list[i] : i \in 1..MaxSubscriptions}
<1>1. list \in [1..MaxSubscriptions -> S]
  BY DEF Listed
<1>2. list \in Seq(S)
  BY <1>1, SeqDef
<1>3. DOMAIN list = 1..MaxSubscriptions
  BY DEF Listed
<1>4. Len(list) \in Nat /\ DOMAIN list = 1..Len(list)
  BY <1>2
<1> QED  BY <1>3, <1>4

LEMMA AddedOnce ==
  ASSUME MaxSubscriptions \in Nat, NEW list, NEW t, Listed(list), Once(list)
  PROVE  Once(Agent!AddSubscription(list, t)) /\ Listed(Agent!AddSubscription(list, t))
<1> DEFINE g == CHOOSE g : Scans(g, list, t, Len(list))
           cell == g[Len(list)]
<1>1. Len(list) \in Nat /\ DOMAIN list = 1..Len(list) /\ Len(list) = MaxSubscriptions
  BY ListedLength
<1>2. Scans(g, list, t, Len(list))
  BY <1>1, ScansExist
<1>3. Agent!AddSubscription(list, t) = IF cell \in DOMAIN list THEN [list EXCEPT ![cell] = t] ELSE list
  BY DEF Agent!AddSubscription, Scans
<1> HIDE DEF g
<1>4. CASE cell \in DOMAIN list
  <2>1. t = NoTask \/ \A i \in DOMAIN list : list[i] # t
    BY <1>1, <1>2, <1>4, ScanFinds
  <2>2. Agent!AddSubscription(list, t) = [list EXCEPT ![cell] = t]
    BY <1>3, <1>4
  <2>3. Once([list EXCEPT ![cell] = t])
    BY <1>4, <2>1 DEF Once
  <2>4. Listed([list EXCEPT ![cell] = t])
    BY <1>1 DEF Listed
  <2> QED  BY <2>2, <2>3, <2>4
<1> QED  BY <1>3, <1>4

(* The list as the invariant has it.                                       *)
ListInv == Listed(subs) /\ SubscriptionsOnce

LEMMA ConcludedOnce ==
  ASSUME MaxSubscriptions \in Nat, ListInv, NEW c, NEW ok, Agent!Conclude(c, ok)
  PROVE  ListInv'
<1> DEFINE k == cmd[c]
<1>1. \/ subs' = subs
      \/ \E t : subs' = Agent!AddSubscription(subs, t)
      \/ \E refused : subs' = Agent!RemoveSubscription(subs, refused)
  <2>1. CASE Agent!ResubscribeCallback(ok)
    BY <2>1 DEF Agent!ResubscribeCallback
  <2>2. CASE Agent!PublishCallback(k.task)
    BY <2>2 DEF Agent!PublishCallback, Agent!lists
  <2>3. CASE Agent!SubscribeCallback(k.task, k.id, ok)
    BY <2>3 DEF Agent!SubscribeCallback
  <2>4. CASE Agent!LateCallback(k.task, k.id)
    BY <2>4 DEF Agent!LateCallback, Agent!lists
  <2>5. CASE UNCHANGED <<Agent!lists, note, fault>>
    BY <2>5 DEF Agent!lists
  <2> QED  BY <2>1, <2>2, <2>3, <2>4, <2>5 DEF Agent!Conclude
<1>2. ASSUME NEW t, subs' = Agent!AddSubscription(subs, t)
      PROVE  ListInv'
  BY <1>2, AddedOnce DEF ListInv, SubscriptionsOnce, Once
<1>3. ASSUME NEW refused, subs' = Agent!RemoveSubscription(subs, refused)
      PROVE  ListInv'
  BY <1>3 DEF Agent!RemoveSubscription, ListInv, Listed, SubscriptionsOnce
<1>4. CASE subs' = subs
  BY <1>4 DEF ListInv, Listed, SubscriptionsOnce
<1> QED  BY <1>1, <1>2, <1>3, <1>4

LEMMA OnceStep ==
  ASSUME MaxSubscriptions \in Nat, ListInv, [Agent!Next]_(Agent!vars)
  PROVE  ListInv'
<1> USE DEF Agent!runner, Agent!lists, Agent!tasks, Agent!conn
<1>0. SUFFICES ASSUME subs' # subs PROVE ListInv'
  BY DEF ListInv, Listed, SubscriptionsOnce
<1>1. ~Agent!RunnerStep
  BY <1>0 DEF Agent!RunnerStep, Agent!MQTTAgentInit, Agent!ConnectStep, Agent!SocketConnect, Agent!MQTTConnect,
       Agent!BackoffForRetry, Agent!CreateDemoTasks, Agent!WaitForTask, Agent!Terminate, Agent!RunAgain
<1>2. ASSUME NEW p \in Agent!Agents, Agent!AgentStep(p)
      PROVE  \E c, ok : Agent!Conclude(c, ok)
  BY <1>0, <1>2 DEF Agent!AgentStep, Agent!ConnectStep, Agent!SocketConnect, Agent!MQTTConnect, Agent!BackoffForRetry,
       Agent!ResumeSession, Agent!HandleResubscribe, Agent!Receive, Agent!LoopError, Agent!Ack
<1>3. ASSUME NEW t \in Tasks, Agent!TaskStep(t)
      PROVE  FALSE
  BY <1>0, <1>3 DEF Agent!TaskStep, Agent!SubscribeToTopic, Agent!SubscribeDone, Agent!Publish, Agent!PublishDone, Agent!TaskEnds
<1> QED  BY <1>0, <1>1, <1>2, <1>3, ConcludedOnce DEF Agent!Next, Agent!vars

(* No filter is entered twice, whatever gaps removed ones have left: the    *)
(* scan of addSubscription looks at every cell before it fills one.        *)
THEOREM SubscribedOnce ==
  ASSUME Agent!LimitsAssumption
  PROVE  Agent!Spec => []SubscriptionsOnce
<1>0. MaxSubscriptions \in Nat
  BY DEF Agent!LimitsAssumption
<1>1. Agent!Init => ListInv
  BY DEF Agent!Init, ListInv, Listed, SubscriptionsOnce
<1>2. ListInv /\ [Agent!Next]_(Agent!vars) => ListInv'
  BY <1>0, OnceStep
<1>3. ListInv => SubscriptionsOnce
  BY DEF ListInv
<1> QED  BY <1>1, <1>2, <1>3, PTL DEF Agent!Spec
=============================================================================
