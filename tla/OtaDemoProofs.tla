---------------------------- MODULE OtaDemoProofs ----------------------------
(***************************************************************************)
(* Proofs about the OTA demos, for every size of the command pool, number  *)
(* of operations, retries and losses of the connection, and both demos.    *)
(***************************************************************************)
EXTENDS OtaDemo, FiniteSetTheorems, SequenceTheorems, TLAPS

-----------------------------------------------------------------------------
(* The commands. The OTA agent numbers its own, and the demo sends a single*)
(* one, the DISCONNECT, so that two commands that are under way differ     *)
(* whatever has been forgotten of them.                                    *)

OtaOps  == {"subscribe", "publish", "unsubscribe", "leave"}
Cmds    == [op : OtaOps \cup {"disconnect"}, filter : Filters \cup {"none"},
            by : {"ota", "demo"}, live : BOOLEAN, id : Nat]
OtaType == [state : {"stopped", "init", "ready", "suspended"}, task : BOOLEAN,
            op : OtaOps \cup {"idle"}, filter : Filters \cup {"none"},
            note : BOOLEAN, result : BOOLEAN, ops : Nat]

Proper(c, ops) ==
  /\ c.by = "demo" <=> c.op = "disconnect"
  /\ c.by = "ota" => c.id < ops
  /\ c.op = "subscribe" => c.filter \in {"notify", "data"}

Same(c, d) == c.by = d.by /\ (c.by = "ota" => c.id = d.id)

QueueOK(q, ops) ==
  /\ q \in Seq(Cmds)
  /\ \A i \in 1..Len(q) : Proper(q[i], ops)
  /\ \A i, k \in 1..Len(q) : Same(q[i], q[k]) => i = k

PendingOK(w, ops) ==
  /\ w \subseteq Cmds /\ IsFiniteSet(w)
  /\ \A c \in w : Proper(c, ops) /\ c.by = "ota"
  /\ \A c, d \in w : c.id = d.id => c = d

Apart(q, w) == \A i \in 1..Len(q), c \in w : ~Same(q[i], c)

CountsOK == free \in Nat /\ lost \in Nat /\ ota \in OtaType

CommandsInv ==
  /\ QueueOK(queue, ota.ops) /\ PendingOK(pending, ota.ops) /\ Apart(queue, pending)
  /\ CountsOK /\ CommandsAccounted

LEMMA Numbers ==
  ASSUME CommandsInv
  PROVE  /\ free \in Nat /\ lost \in Nat /\ ota.ops \in Nat
         /\ Len(queue) \in Nat /\ Cardinality(pending) \in Nat
         /\ free + Len(queue) + Cardinality(pending) + lost = PoolSize
BY FS_CardinalityType DEF CommandsInv, CountsOK, OtaType, QueueOK, PendingOK, CommandsAccounted

(* The number of operations only grows.                                    *)
LEMMA LaterOK ==
  ASSUME NEW q, NEW w, NEW m \in Nat, NEW k \in Nat, m <= k, QueueOK(q, m), PendingOK(w, m)
  PROVE  QueueOK(q, k) /\ PendingOK(w, k)
<1>1. ASSUME NEW c \in Cmds, Proper(c, m)
      PROVE  Proper(c, k)
  BY <1>1 DEF Proper, Cmds
<1>2. QueueOK(q, k)
  <2>1. q \in Seq(Cmds) /\ \A i \in 1..Len(q) : q[i] \in Cmds
    BY DEF QueueOK
  <2> QED  BY <1>1, <2>1 DEF QueueOK
<1>3. PendingOK(w, k)
  BY <1>1 DEF PendingOK
<1> QED  BY <1>2, <1>3

(* A step of somebody else.                                                *)
LEMMA NotACommand ==
  ASSUME CommandsInv, UNCHANGED commands, ota' \in OtaType, ota'.ops \in {ota.ops, ota.ops + 1}
  PROVE  CommandsInv'
<1>1. free' = free /\ queue' = queue /\ pending' = pending /\ lost' = lost
  BY DEF commands
<1>2. ota.ops \in Nat /\ ota'.ops \in Nat /\ ota.ops <= ota'.ops
  BY Numbers
<1>3. QueueOK(queue, ota'.ops) /\ PendingOK(pending, ota'.ops)
  BY <1>2, LaterOK DEF CommandsInv
<1> QED  BY <1>1, <1>3 DEF CommandsInv, CountsOK, CommandsAccounted

(* A command is sent: a fresh one.                                         *)
LEMMA CommandSent ==
  ASSUME CommandsInv, NEW c \in Cmds, SendCommand(c), ota' \in OtaType,
         ota'.ops \in {ota.ops, ota.ops + 1}, Proper(c, ota'.ops),
         c.by = "ota" => c.id = ota.ops,
         c.by = "demo" => \A i \in 1..Len(queue) : queue[i].by = "ota"
  PROVE  CommandsInv'
<1>1. CASE free = 0
  BY <1>1, NotACommand DEF SendCommand
<1>2. CASE free # 0
  <2>1. /\ queue' = Append(queue, c) /\ free' = free - 1
        /\ pending' = pending /\ lost' = lost
    BY <1>2 DEF SendCommand
  <2>2. /\ queue \in Seq(Cmds) /\ ota.ops \in Nat /\ ota'.ops \in Nat /\ ota.ops <= ota'.ops
    BY Numbers DEF CommandsInv, QueueOK
  <2>3. \A i \in 1..Len(queue) : queue[i] \in Cmds /\ Proper(queue[i], ota.ops)
    BY <2>2 DEF CommandsInv, QueueOK
  <2>4. \A i \in 1..Len(queue) : ~Same(queue[i], c) /\ ~Same(c, queue[i])
    BY <2>2, <2>3 DEF Same, Proper, Cmds
  <2>5. \A d \in pending : ~Same(c, d)
    BY <2>2 DEF CommandsInv, PendingOK, Same, Proper, Cmds
  <2>6. QueueOK(queue, ota'.ops) /\ PendingOK(pending, ota'.ops)
    BY <2>2, LaterOK DEF CommandsInv
  <2>7. QueueOK(Append(queue, c), ota'.ops)
    <3>1. Append(queue, c) \in Seq(Cmds) /\ Len(Append(queue, c)) = Len(queue) + 1
      BY <2>2
    <3>2. \A i \in 1..Len(Append(queue, c)) :
            Append(queue, c)[i] = IF i = Len(queue) + 1 THEN c ELSE queue[i]
      BY <2>2
    <3> QED  BY <2>2, <2>4, <2>6, <3>1, <3>2 DEF QueueOK
  <2>8. Apart(Append(queue, c), pending)
    BY <2>2, <2>5 DEF CommandsInv, Apart
  <2>9. free' \in Nat /\ Len(queue') = Len(queue) + 1
    BY <1>2, <2>1, <2>2, Numbers
  <2>10. CommandsAccounted'
    BY <2>1, <2>9, Numbers DEF CommandsAccounted
  <2> QED  BY <2>1, <2>6, <2>7, <2>8, <2>9, <2>10 DEF CommandsInv, CountsOK
<1> QED  BY <1>1, <1>2

(* The queue without its head.                                             *)
LEMMA WithoutHead ==
  ASSUME CommandsInv, queue # <<>>
  PROVE  /\ Head(queue) \in Cmds /\ Proper(Head(queue), ota.ops)
         /\ QueueOK(Tail(queue), ota.ops) /\ Apart(Tail(queue), pending)
         /\ Len(Tail(queue)) = Len(queue) - 1
         /\ \A d \in pending : ~Same(Head(queue), d)
         /\ \A i \in 1..Len(Tail(queue)) : ~Same(Tail(queue)[i], Head(queue))
<1>1. /\ queue \in Seq(Cmds)
      /\ \A i \in 1..Len(queue) : Proper(queue[i], ota.ops)
      /\ \A i, k \in 1..Len(queue) : Same(queue[i], queue[k]) => i = k
      /\ \A i \in 1..Len(queue), c \in pending : ~Same(queue[i], c)
  BY DEF CommandsInv, QueueOK, Apart
<1>2. /\ Len(queue) \in Nat \ {0} /\ Tail(queue) \in Seq(Cmds)
      /\ Len(Tail(queue)) = Len(queue) - 1
      /\ Head(queue) = queue[1] /\ Head(queue) \in Cmds
      /\ \A i \in 1..Len(Tail(queue)) : Tail(queue)[i] = queue[i + 1] /\ i + 1 \in 1..Len(queue)
  BY <1>1
<1>3. QueueOK(Tail(queue), ota.ops)
  BY <1>1, <1>2 DEF QueueOK
<1>4. Apart(Tail(queue), pending)
  BY <1>1, <1>2 DEF Apart
<1>5. \A i \in 1..Len(Tail(queue)) : ~Same(Tail(queue)[i], Head(queue))
  BY <1>1, <1>2
<1> QED  BY <1>1, <1>2, <1>3, <1>4, <1>5

(* The loop takes a command and waits for its acknowledgment.              *)
LEMMA CommandWaits ==
  ASSUME CommandsInv, queue # <<>>, Head(queue).op # "disconnect", queue' = Tail(queue),
         pending' = pending \cup {Head(queue)}, UNCHANGED <<free, lost, ota>>
  PROVE  CommandsInv'
<1> DEFINE c == Head(queue)
<1>1. /\ c \in Cmds /\ Proper(c, ota.ops) /\ c.by = "ota"
      /\ QueueOK(Tail(queue), ota.ops) /\ Apart(Tail(queue), pending)
      /\ Len(Tail(queue)) = Len(queue) - 1
      /\ \A d \in pending : ~Same(c, d)
      /\ \A i \in 1..Len(Tail(queue)) : ~Same(Tail(queue)[i], c)
  BY WithoutHead DEF Proper, Cmds
<1> HIDE DEF c
<1>2. c \notin pending
  BY <1>1 DEF Same
<1>3. IsFiniteSet(pending \cup {c}) /\ Cardinality(pending \cup {c}) = Cardinality(pending) + 1
  BY <1>2, FS_AddElement DEF CommandsInv, PendingOK
<1>4. PendingOK(pending \cup {c}, ota.ops)
  BY <1>1, <1>3 DEF CommandsInv, PendingOK, Same
<1>5. Apart(Tail(queue), pending \cup {c})
  BY <1>1 DEF Apart
<1>6. CommandsAccounted'
  BY <1>1, <1>3, Numbers DEF CommandsAccounted, c
<1> QED  BY <1>1, <1>4, <1>5, <1>6 DEF CommandsInv, CountsOK, c

(* The loop is done with a command at once.                                *)
LEMMA CommandDone ==
  ASSUME CommandsInv, queue # <<>>, queue' = Tail(queue), free' = free + 1,
         UNCHANGED <<pending, lost>>, ota' \in OtaType, ota'.ops = ota.ops
  PROVE  CommandsInv'
<1>1. /\ QueueOK(Tail(queue), ota.ops) /\ Apart(Tail(queue), pending)
      /\ Len(queue') = Len(queue) - 1
  BY WithoutHead
<1>2. Cardinality(pending') = Cardinality(pending) /\ lost' = lost
  OBVIOUS
<1>3. free' \in Nat /\ free' + Len(queue') + Cardinality(pending') + lost' = PoolSize
  <2> DEFINE n == Len(queue)  k == Len(queue')  w == Cardinality(pending)
  <2>1. /\ free \in Nat /\ lost \in Nat /\ n \in Nat /\ w \in Nat
        /\ k = n - 1 /\ Cardinality(pending') = w /\ free + n + w + lost = PoolSize
    BY <1>1, <1>2, Numbers
  <2> HIDE DEF n, k, w
  <2>2. (free + 1) + k + w + lost = PoolSize
    BY <2>1
  <2> QED  BY <2>1, <2>2 DEF k, w
<1> QED  BY <1>1, <1>3 DEF CommandsInv, CountsOK, CommandsAccounted

(* An acknowledgment.                                                      *)
LEMMA CommandAcknowledged ==
  ASSUME CommandsInv, NEW c \in pending, pending' = pending \ {c}, free' = free + 1,
         UNCHANGED <<queue, lost>>, ota' \in OtaType, ota'.ops = ota.ops
  PROVE  CommandsInv'
<1>1. /\ IsFiniteSet(pending \ {c})
      /\ Cardinality(pending \ {c}) = Cardinality(pending) - 1
  BY FS_RemoveElement DEF CommandsInv, PendingOK
<1>2. PendingOK(pending \ {c}, ota.ops) /\ Apart(queue, pending \ {c})
  BY <1>1 DEF CommandsInv, PendingOK, Apart
<1>3. CommandsAccounted' /\ free' \in Nat
  BY <1>1, Numbers DEF CommandsAccounted
<1> QED  BY <1>2, <1>3 DEF CommandsInv, CountsOK

(* The queue and what waits are emptied, into the pool or for good.        *)
LEMMA CommandsGone ==
  ASSUME CommandsInv, queue' = <<>>, pending' = {}, ota' \in OtaType, ota'.ops = ota.ops,
         \/ free' = free + Len(queue) + Cardinality(pending) /\ lost' = lost
         \/ free' = free /\ lost' = lost + Len(queue) /\ pending = {}
  PROVE  CommandsInv'
<1>1. /\ Len(<<>>) = 0 /\ <<>> \in Seq(Cmds)
      /\ Cardinality({}) = 0 /\ IsFiniteSet({})
  BY FS_EmptySet
<1>2. QueueOK(<<>>, ota.ops) /\ PendingOK({}, ota.ops) /\ Apart(<<>>, {})
  BY <1>1 DEF QueueOK, PendingOK, Apart
<1>3. Len(queue') = 0 /\ Cardinality(pending') = 0
  BY <1>1
<1>4. /\ free' \in Nat /\ lost' \in Nat
      /\ free' + Len(queue') + Cardinality(pending') + lost' = PoolSize
  <2>1. CASE free' = free + Len(queue) + Cardinality(pending) /\ lost' = lost
    BY <1>3, <2>1, Numbers
  <2>2. CASE free' = free /\ lost' = lost + Len(queue) /\ pending = {}
    <3>1. Cardinality(pending) = 0
      BY <1>1, <2>2
    <3> QED  BY <1>3, <2>2, <3>1, Numbers
  <2> QED  BY <2>1, <2>2
<1> QED  BY <1>2, <1>4 DEF CommandsInv, CountsOK, CommandsAccounted

(* A task has left the frame its commands' contexts were in: they are the  *)
(* same commands but for that.                                             *)
Forget(c, by) == IF c.by = by THEN [c EXCEPT !.live = FALSE] ELSE c

LEMMA ForgetsOnly ==
  ASSUME NEW c \in Cmds, NEW by
  PROVE  /\ Forget(c, by) \in Cmds
         /\ Forget(c, by).op = c.op /\ Forget(c, by).filter = c.filter
         /\ Forget(c, by).by = c.by /\ Forget(c, by).id = c.id
         /\ Forget(c, by).live <=> c.live /\ c.by # by
BY DEF Forget, Cmds

LEMMA CommandsForgotten ==
  ASSUME CommandsInv, NEW by, Forgotten(by), ota' \in OtaType, ota'.ops = ota.ops
  PROVE  CommandsInv'
<1> DEFINE w == {Forget(c, by) : c \in pending}
           q == [i \in DOMAIN queue |-> Forget(queue[i], by)]
           f == [c \in pending |-> Forget(c, by)]
<1>1. queue' = q /\ pending' = w /\ free' = free /\ lost' = lost
  BY DEF Forgotten, Forget
<1>2. /\ queue \in Seq(Cmds) /\ pending \subseteq Cmds /\ IsFiniteSet(pending)
      /\ \A c \in pending : Proper(c, ota.ops) /\ c.by = "ota"
      /\ \A c, d \in pending : c.id = d.id => c = d
      /\ \A i \in 1..Len(queue) : Proper(queue[i], ota.ops)
      /\ \A i, k \in 1..Len(queue) : Same(queue[i], queue[k]) => i = k
      /\ \A i \in 1..Len(queue), c \in pending : ~Same(queue[i], c)
  BY DEF CommandsInv, QueueOK, PendingOK, Apart
<1>3. q \in Seq(Cmds) /\ Len(q) = Len(queue) /\ \A i \in 1..Len(queue) : q[i] = Forget(queue[i], by)
  <2>1. \A i \in 1..Len(queue) : Forget(queue[i], by) \in Cmds
    BY <1>2, ForgetsOnly
  <2> QED  BY <1>2, <2>1
<1> HIDE DEF q
<1>4. QueueOK(q, ota.ops)
  <2>1. ASSUME NEW i \in 1..Len(queue)
        PROVE  /\ q[i].op = queue[i].op /\ q[i].filter = queue[i].filter
               /\ q[i].by = queue[i].by /\ q[i].id = queue[i].id
    BY <1>2, <1>3, ForgetsOnly
  <2> QED  BY <1>2, <1>3, <2>1 DEF QueueOK, Proper, Same
<1>5. \A c \in pending : /\ Forget(c, by) \in Cmds
                         /\ Forget(c, by).op = c.op /\ Forget(c, by).filter = c.filter
                         /\ Forget(c, by).by = c.by /\ Forget(c, by).id = c.id
  BY <1>2, ForgetsOnly
<1>6. IsFiniteSet(w) /\ Cardinality(w) = Cardinality(pending)
  <2>1. f \in Bijection(pending, w)
    <3>1. \A c, d \in pending : Forget(c, by) = Forget(d, by) => c = d
      BY <1>2, <1>5
    <3> QED  BY <3>1 DEF Bijection, Injection, Surjection, IsInjective
  <2> HIDE DEF f, w
  <2> QED  BY <1>2, <2>1, FS_Bijection DEF ExistsBijection
<1>7. PendingOK(w, ota.ops)
  BY <1>2, <1>5, <1>6 DEF PendingOK, Proper
<1>8. Apart(q, w)
  <2>1. ASSUME NEW i \in 1..Len(queue)
        PROVE  q[i].by = queue[i].by /\ q[i].id = queue[i].id
    BY <1>2, <1>3, ForgetsOnly
  <2> QED  BY <1>2, <1>3, <1>5, <2>1 DEF Apart, Same
<1> HIDE DEF w
<1>9. CommandsAccounted'
  BY <1>1, <1>3, <1>6, Numbers DEF CommandsAccounted
<1> QED  BY <1>1, <1>4, <1>7, <1>8, <1>9 DEF CommandsInv, CountsOK

-----------------------------------------------------------------------------
(* Types.                                                                  *)

Pairs     == {<<"notify", "job">>, <<"notify", "default">>, <<"data", "data">>,
              <<"default", "default">>}
HttpType  == [flag : BOOLEAN, sock : {"none", "open", "stale"}, url : Urls \cup {<<>>}]
EventSeqs == Seq({"suspend", "resume", "shutdown"})

TypeInv ==
  /\ ota \in OtaType /\ told \subseteq {"notify", "data"}
  /\ list \subseteq Pairs /\ Cardinality(list) <= MaxSubs
  /\ events \in EventSeqs /\ http \in HttpType /\ session \in BOOLEAN /\ acked \in Nat

(* What the callbacks and the fourth subscription add.                     *)
LEMMA PairsAre ==
  /\ IsFiniteSet(Pairs) /\ Cardinality(Pairs) = 4
  /\ \A l : l \subseteq Pairs => IsFiniteSet(l) /\ Cardinality(l) \in Nat /\ Cardinality(l) <= 4
<1> DEFINE a == <<"notify", "job">>  b == <<"notify", "default">>
           c == <<"data", "data">>   d == <<"default", "default">>
<1>1. a # b /\ a # c /\ a # d /\ b # c /\ b # d /\ c # d
  OBVIOUS
<1>2. Pairs = {a} \cup {b} \cup {c} \cup {d}
  BY DEF Pairs
<1> HIDE DEF a, b, c, d
<1>3. IsFiniteSet({a}) /\ Cardinality({a}) = 1
  BY FS_Singleton
<1>4. IsFiniteSet({a} \cup {b}) /\ Cardinality({a} \cup {b}) = 2
  BY <1>1, <1>3, FS_AddElement
<1>5. IsFiniteSet({a} \cup {b} \cup {c}) /\ Cardinality({a} \cup {b} \cup {c}) = 3
  BY <1>1, <1>4, FS_AddElement
<1>6. IsFiniteSet(Pairs) /\ Cardinality(Pairs) = 4
  BY <1>1, <1>2, <1>5, FS_AddElement
<1> QED  BY <1>6, FS_Subset, FS_CardinalityType

(* A registration keeps the list and its bound; and with room for all four *)
(* subscriptions there are, it adds what it is asked to.                   *)
LEMMA Registered ==
  ASSUME NEW filter \in Filters, list \subseteq Pairs, Cardinality(list) <= MaxSubs,
         RegisterOTACallback(filter)
  PROVE  /\ list' \subseteq Pairs /\ Cardinality(list') <= MaxSubs /\ list \subseteq list'
         /\ MaxSubs >= 4 => \E s \in list' : s[1] = filter
<1> DEFINE new == {<<filter, Callback[f]>> : f \in {f \in Filters : Matches(filter, f)}}
           wanted == list \cup new
<1>1. new \subseteq Pairs /\ \E s \in new : s[1] = filter
  <2>1. ASSUME NEW f \in Filters, Matches(filter, f)
        PROVE  <<filter, Callback[f]>> \in Pairs
    BY <2>1 DEF Filters, Matches, Callback, Pairs
  <2>2. Matches(filter, filter)
    BY DEF Matches
  <2>3. <<filter, Callback[filter]>>[1] = filter
    OBVIOUS
  <2> QED  BY <2>1, <2>2, <2>3
<1>2. /\ list \subseteq list' /\ list' \subseteq wanted /\ Cardinality(list') <= MaxSubs
      /\ list' = wanted \/ Cardinality(list') = MaxSubs
  BY DEF RegisterOTACallback, AddSubscription
<1> HIDE DEF new
<1>3. list' \subseteq Pairs /\ wanted \subseteq Pairs
  BY <1>1, <1>2
<1>4. ASSUME MaxSubs >= 4
      PROVE  list' = wanted
  <2>1. CASE Cardinality(list') = MaxSubs
    <3>1. IsFiniteSet(wanted) /\ Cardinality(wanted) <= 4 /\ Cardinality(wanted) \in Nat
      BY <1>3, PairsAre
    <3>2. Cardinality(list') <= Cardinality(wanted) /\ Cardinality(list') \in Nat
      BY <1>2, <3>1, FS_Subset, FS_CardinalityType
    <3>3. MaxSubs \in Nat
      BY OtaDemoAssumption
    <3>4. Cardinality(list') = Cardinality(wanted)
      BY <1>4, <2>1, <3>1, <3>2, <3>3
    <3> HIDE DEF wanted
    <3> QED  BY <1>2, <3>1, <3>4, FS_Subset
  <2> QED  BY <1>2, <2>1
<1> QED  BY <1>1, <1>2, <1>3, <1>4

LEMMA Removed ==
  ASSUME NEW filter, list \subseteq Pairs, Cardinality(list) <= MaxSubs,
         list' = {s \in list : s[1] # filter}
  PROVE  list' \subseteq Pairs /\ Cardinality(list') <= MaxSubs
<1>1. IsFiniteSet(list) /\ Cardinality(list) \in Nat
  BY PairsAre
<1>2. list' \subseteq list
  OBVIOUS
<1>3. Cardinality(list') <= Cardinality(list) /\ Cardinality(list') \in Nat
  BY <1>1, <1>2, FS_Subset, FS_CardinalityType
<1> QED  BY <1>1, <1>2, <1>3, OtaDemoAssumption

(* A command's callback: what it does to the OTA agent and to the demo,    *)
LEMMA Completed ==
  ASSUME TypeInv, NEW c \in Cmds, NEW ok \in BOOLEAN, CmdComplete(c, ok)
  PROVE  /\ ota' \in OtaType
         /\ ota' = IF c.by = "ota" THEN [ota EXCEPT !.note = TRUE, !.result = ok] ELSE ota
         /\ IF c.by = "ota" THEN UNCHANGED steps
            ELSE demo' = "closeMqtt" /\ UNCHANGED <<status, inited, mutex>>
         /\ fault' = IF c.live THEN fault ELSE "frame"
<1>1. c.by \in {"ota", "demo"}
  BY DEF Cmds
<1>2. /\ ota' = IF c.by = "ota" THEN [ota EXCEPT !.note = TRUE, !.result = ok] ELSE ota
      /\ IF c.by = "ota" THEN UNCHANGED steps
         ELSE demo' = "closeMqtt" /\ UNCHANGED <<status, inited, mutex>>
      /\ fault' = IF c.live THEN fault ELSE "frame"
  BY <1>1 DEF CmdComplete
<1>3. ota' \in OtaType
  BY <1>2 DEF TypeInv, OtaType
<1> QED  BY <1>2, <1>3

(* and, when it is called with success, to the list.                       *)
LEMMA ListChanged ==
  ASSUME TypeInv, NEW c \in Cmds, NEW m, Proper(c, m), c.by = "ota", Registers(c)
  PROVE  /\ list' \subseteq Pairs /\ Cardinality(list') <= MaxSubs
         /\ c.op = "subscribe" => list \subseteq list'
         /\ c.op = "publish" => list' = list
         /\ c.op = "subscribe" /\ MaxSubs >= 4 => \E s \in list' : s[1] = c.filter
         /\ list \ {s \in list : s[1] = c.filter} \subseteq list'
<1>1. /\ c.op \in OtaOps
      /\ c.op = "subscribe" => c.filter \in {"notify", "data"}
  BY DEF Proper, Cmds
<1>2. list \subseteq Pairs /\ Cardinality(list) <= MaxSubs /\ IsFiniteSet(list)
  BY PairsAre DEF TypeInv
<1>3. CASE c.op = "subscribe"
  BY <1>1, <1>2, <1>3, Registered DEF Registers, SubscribeComplete, Filters
<1>4. CASE c.op \in {"unsubscribe", "leave"}
  <2>1. list' = {s \in list : s[1] # c.filter}
    BY <1>4 DEF Registers, UnsubscribeComplete, RemoveSubscription
  <2> QED  BY <1>2, <1>4, <2>1, Removed
<1>5. CASE c.op = "publish"
  <2>1. list' = list
    BY <1>5 DEF Registers
  <2> QED  BY <1>2, <1>5, <2>1
<1> QED  BY <1>1, <1>3, <1>4, <1>5 DEF OtaOps

-----------------------------------------------------------------------------
(* Where the three tasks are when they share something.                    *)

Early == {"start", "connect", "mqttConnect", "register", "spawn"}
Late  == {"await", "closeMqtt", "closeHttp", "delete", "done"}

\* Nothing waits for an acknowledgment unless the loop runs or is being concluded; the
\* OTA agent's task is there only after the demo has created it, and the demo sends its
\* command last.
Staged ==
  /\ demo \in Early => agent = "none"
  /\ demo \in Early \cup {"init"} =>
       ~ota.task /\ ota.state = "stopped" /\ queue = <<>> /\ events = <<>>
  /\ demo = "init" =>
       agent \in {"loop", "report", "notify", "cancel", "suspend", "awaitSuspend"}
  /\ demo = "init" /\ agent = "awaitSuspend" => fault # "none"
  /\ ~ota.task => ota.op = "idle" /\ told = {} /\ ota.state \in {"stopped", "init"}
  /\ agent \notin {"loop", "report", "notify", "cancel", "cancelLast"} => pending = {}
  /\ demo \notin Late => \A i \in 1..Len(queue) : queue[i].by = "ota"

\* There is a HTTP connection only when the OTA agent's task was created, which needs the
\* connection to the broker; and the demo comes to its end when that task has stopped.
Closing ==
  /\ demo \in {"unregister", "disconnect"} \cup Late => ota.state = "stopped" \/ ~ota.task
  /\ ~ota.task => http.sock # "open" /\ ~http.flag
  /\ demo = "start" => ~status
  /\ ota.task \/ demo \in {"spawn", "init"} \/ (demo = "register" /\ status) => inited

\* A command whose context is still there is the one its task waits for.
OfNow(c, o, d) ==
  c.live => IF c.by = "ota" THEN c.op = o.op /\ c.filter = o.filter ELSE d = "await"

Current ==
  fault = "none" => /\ \A i \in 1..Len(queue) : OfNow(queue[i], ota, demo)
                    /\ \A c \in pending : OfNow(c, ota, demo)

\* What the OTA agent subscribes to, and gives up.
Asked ==
  /\ ota.op = "unsubscribe" => ota.filter \notin told
  /\ ota.op = "subscribe" => ota.filter \in {"notify", "data"}

\* The MQTT agent's task resumes the OTA agent only after having suspended it, and
\* suspends it only when it has resumed.
Dead      == ota.op = "leave" \/ ota.state = "stopped"
NoResume  == \A i \in 1..Len(events) : events[i] # "resume"
OneResume == \A i, k \in 1..Len(events) : events[i] = "resume" /\ events[k] = "resume" => i = k

Turns ==
  fault = "none" /\ ~Dead => /\ OneResume
                             /\ agent # "awaitResume" \/ ota.state # "suspended" => NoResume

IInv ==
  /\ TypeInv /\ CommandsInv /\ Staged /\ Closing /\ Current /\ Asked /\ Turns
  /\ QuietWhileReconnecting /\ HttpSocketAccounted

USE DEF commands, steps, conn, dispatch

LEMMA Operates ==
  ASSUME NEW o \in OtaType, NEW op \in OtaOps, NEW f \in Filters \cup {"none"}
  PROVE  [o EXCEPT !.op = op, !.filter = f, !.result = FALSE, !.ops = @ + 1] \in OtaType
<1> DEFINE n == o.ops + 1
<1>1. n \in Nat
  BY DEF OtaType
<1> HIDE DEF n
<1>2. [o EXCEPT !.op = op, !.filter = f, !.result = FALSE, !.ops = n] \in OtaType
  BY <1>1 DEF OtaType
<1> QED  BY <1>2 DEF n

LEMMA TypesStep ==
  ASSUME TypeInv, CommandsInv, Asked, Next
  PROVE  TypeInv'
<1>c. /\ \A i \in 1..Len(queue) : queue[i] \in Cmds /\ Proper(queue[i], ota.ops)
      /\ \A c \in pending : c \in Cmds /\ Proper(c, ota.ops)
      /\ queue \in Seq(Cmds)
  BY DEF CommandsInv, QueueOK, PendingOK
<1>h. ASSUME queue # <<>>
      PROVE  Head(queue) \in Cmds /\ Proper(Head(queue), ota.ops)
  BY <1>h, WithoutHead
<1>e. /\ \A e \in {"suspend", "resume", "shutdown"} : Append(events, e) \in EventSeqs
      /\ events # <<>> => Tail(events) \in EventSeqs
  BY DEF TypeInv, EventSeqs
<1>f. ASSUME NEW op \in {"subscribe", "publish", "unsubscribe"},
             NEW f \in {"notify", "data", "none"}, OtaCalls(op, f)
      PROVE  TypeInv'
  <2>1. ota' = [ota EXCEPT !.op = op, !.filter = f, !.result = FALSE, !.ops = @ + 1]
    BY <1>f DEF OtaCalls
  <2>2. ota' \in OtaType
    BY <2>1, Operates DEF TypeInv, OtaOps, Filters
  <2>3. told' \subseteq {"notify", "data"}
    BY <1>f DEF OtaCalls, TypeInv
  <2> QED  BY <1>f, <2>2, <2>3 DEF OtaCalls, TypeInv
<1>g. ASSUME OtaReturns
      PROVE  TypeInv'
  <2>1. ota' \in OtaType
    BY <1>g DEF OtaReturns, TypeInv, OtaType, Filters
  <2>2. told' \subseteq {"notify", "data"}
    BY <1>g DEF OtaReturns, TypeInv, Asked
  <2> QED  BY <1>g, <2>1, <2>2 DEF OtaReturns, TypeInv
<1>1. ASSUME DemoTask
      PROVE  TypeInv'
  <2>1. CASE DemoStarts
    BY <2>1 DEF DemoStarts, To, TypeInv
  <2>2. CASE DemoConnects
    BY <2>2 DEF DemoConnects, CreateSocketConnection, To, TypeInv
  <2>3. CASE ConnectToMQTTBroker
    BY <2>3 DEF ConnectToMQTTBroker, MqttAgentInit, MQTTConnect, To, TypeInv
  <2>4. CASE RegisterDefault
      <3>1. list' \subseteq Pairs /\ Cardinality(list') <= MaxSubs
        BY <2>4, Registered DEF RegisterDefault, TypeInv, Filters
      <3> QED  BY <2>4, <3>1 DEF RegisterDefault, TypeInv
  <2>5. CASE CreateAgentTask
    BY <2>5 DEF CreateAgentTask, To, TypeInv
  <2>6. CASE RunOTADemo
      <3>1. ota' \in OtaType
        BY <2>6 DEF RunOTADemo, TypeInv, OtaType
      <3> QED  BY <2>6, <3>1 DEF RunOTADemo, TypeInv
  <2>7. CASE OtaStopped
    BY <2>7 DEF OtaStopped, To, TypeInv
  <2>8. CASE UnregisterDefault
      <3>1. list' = {s \in list : s[1] # "default"}
        BY <2>8 DEF UnregisterDefault, RemoveSubscription
      <3>2. list' \subseteq Pairs /\ Cardinality(list') <= MaxSubs
        BY <3>1, Removed DEF TypeInv
      <3> QED  BY <2>8, <3>2 DEF UnregisterDefault, TypeInv
  <2>9. CASE DisconnectFromMQTTBroker
    BY <2>9 DEF DisconnectFromMQTTBroker, To, TypeInv
  <2>10. CASE DisconnectTimesOut
    BY <2>10 DEF DisconnectTimesOut, To, TypeInv
  <2>11. CASE DemoCloses
    BY <2>11 DEF DemoCloses, CloseTcp, To, TypeInv
  <2>12. CASE CloseHttp
      <3>1. http' \in HttpType
        BY <2>12 DEF CloseHttp, TypeInv, HttpType
      <3> QED  BY <2>12, <3>1 DEF CloseHttp, TypeInv
  <2>13. CASE DeleteMutex
    BY <2>13 DEF DeleteMutex, To, TypeInv
  <2> QED  BY <1>1, <2>1, <2>2, <2>3, <2>4, <2>5, <2>6, <2>7, <2>8, <2>9, <2>10, <2>11, <2>12, <2>13 DEF DemoTask
<1>2. ASSUME MQTTAgentTask
      PROVE  TypeInv'
  <2>1. CASE IncomingPublish
    BY <2>1, <1>e DEF IncomingPublish, TypeInv
  <2>2. CASE TakeCommand
      <3>1. CASE session
        BY <2>2, <3>1 DEF TakeCommand, TypeInv
      <3>2. CASE ~session
        <4>1. ota' \in OtaType
          BY <2>2, <1>h, <3>2, Completed DEF TakeCommand
        <4> QED  BY <2>2, <4>1 DEF TakeCommand, TypeInv
      <3> QED  BY <3>1, <3>2
  <2>3. CASE Acknowledge
      <3>1. PICK c \in pending : Registers(c) /\ acked' = c.id
        BY <2>3 DEF Acknowledge
      <3>2. c \in Cmds /\ Proper(c, ota.ops) /\ c.by = "ota"
        BY <3>1 DEF CommandsInv, PendingOK
      <3>3. list' \subseteq Pairs /\ Cardinality(list') <= MaxSubs
        BY <3>1, <3>2, ListChanged
      <3>4. acked' \in Nat
        BY <3>1, <3>2 DEF Cmds
      <3> QED  BY <2>3, <3>3, <3>4 DEF Acknowledge, TypeInv
  <2>4. CASE StoreStatus
      <3>1. ota' \in OtaType
        BY <2>4 DEF StoreStatus, TypeInv, OtaType
      <3> QED  BY <2>4, <3>1 DEF StoreStatus, TypeInv
  <2>5. CASE NotifyTask
      <3>1. ota' \in OtaType
        BY <2>5 DEF NotifyTask, TypeInv, OtaType
      <3> QED  BY <2>5, <3>1 DEF NotifyTask, TypeInv
  <2>6. CASE TakeDisconnect
      <3>1. session \in BOOLEAN /\ CmdComplete(Head(queue), session)
        BY <2>6 DEF TakeDisconnect, TypeInv
      <3>2. ota' \in OtaType
        BY <2>6, <1>h, <3>1, Completed DEF TakeDisconnect
      <3> QED  BY <2>6, <3>2 DEF TakeDisconnect, TypeInv
  <2>7. CASE LoopFails
    BY <2>7, <1>e DEF LoopFails, TypeInv
  <2>8. CASE CancelAll
      <3>1. ota' \in OtaType
        BY <2>8 DEF CancelAll, TypeInv, OtaType
      <3> QED  BY <2>8, <3>1 DEF CancelAll, TypeInv
  <2>9. CASE SuspendOTA
    BY <2>9, <1>e DEF SuspendOTA, Signals, Fails, TypeInv
  <2>10. CASE SuspendSeen
    BY <2>10, <1>e DEF SuspendSeen, TypeInv
  <2>11. CASE SuspendTimesOut
    BY <2>11, <1>e DEF SuspendTimesOut, TypeInv
  <2>12. CASE AgentCloses
    BY <2>12, <1>e DEF AgentCloses, CloseTcp, TypeInv
  <2>13. CASE AgentConnects
    BY <2>13, <1>e DEF AgentConnects, CreateSocketConnection, TypeInv
  <2>14. CASE AgentReconnects
    BY <2>14, <1>e DEF AgentReconnects, MqttAgentInit, MQTTConnect, TypeInv
  <2>15. CASE ResumeOTA
    BY <2>15, <1>e DEF ResumeOTA, Signals, Fails, TypeInv
  <2>16. CASE ResumeSeen
    BY <2>16, <1>e DEF ResumeSeen, TypeInv
  <2> QED  BY <1>2, <2>1, <2>2, <2>3, <2>4, <2>5, <2>6, <2>7, <2>8, <2>9, <2>10, <2>11, <2>12, <2>13, <2>14, <2>15, <2>16 DEF MQTTAgentTask
<1>3. ASSUME OTAAgentTask
      PROVE  TypeInv'
  <2>1. CASE OtaStarts
    BY <2>1, <1>e DEF OtaStarts, OtaIdle, TypeInv, OtaType, OtaOps, Filters
  <2>2. CASE OtaSuspends
    BY <2>2, <1>e DEF OtaSuspends, OtaHandles, OtaIdle, TypeInv, OtaType, OtaOps, Filters
  <2>3. CASE OtaResumes
    BY <2>3, <1>e DEF OtaResumes, OtaHandles, OtaIdle, TypeInv, OtaType, OtaOps, Filters
  <2>4. CASE OtaShutsDown
      <3>1. ota' \in OtaType
        BY <2>4, Operates DEF OtaShutsDown, TypeInv, OtaOps, Filters
      <3> QED  BY <2>4, <3>1, <1>e DEF OtaShutsDown, OtaHandles, TypeInv
  <2>5. CASE AppCallback
    BY <2>5, <1>e DEF AppCallback, OtaIdle, TypeInv, OtaType, OtaOps, Filters
  <2>6. CASE MqttSubscribe
      BY <2>6, <1>f DEF MqttSubscribe
  <2>7. CASE MqttPublish
      BY <2>7, <1>f DEF MqttPublish
  <2>8. CASE MqttUnsubscribe
      BY <2>8, <1>f DEF MqttUnsubscribe, TypeInv
  <2>9. CASE OtaNotified
      BY <2>9, <1>g DEF OtaNotified
  <2>10. CASE OtaTimesOut
      BY <2>10, <1>g DEF OtaTimesOut
  <2>11. CASE HttpInit
      <3>1. ota' \in OtaType
        BY <2>11 DEF HttpInit, HttpCalls, TypeInv, OtaType
      <3>2. PICK url \in Urls : ConnectToS3Server(url) \/ http' = Closed(FALSE)
        BY <2>11 DEF HttpInit
      <3>3. http' \in HttpType
        <4>1. CASE ConnectToS3Server(url)
          BY <4>1 DEF ConnectToS3Server, HttpType
        <4>2. CASE http' = Closed(FALSE)
          BY <4>2 DEF Closed, TypeInv, HttpType
        <4> QED  BY <3>2, <4>1, <4>2
      <3> QED  BY <2>11, <3>1, <3>3 DEF HttpInit, HttpCalls, TypeInv
  <2>12. CASE HttpRequest
      <3>1. ota' \in OtaType
        BY <2>12 DEF HttpRequest, HttpCalls, TypeInv, OtaType
      <3>2. http' \in HttpType
        BY <2>12 DEF HttpRequest, HandleHttpResponse, Closed, TypeInv, HttpType
      <3> QED  BY <2>12, <3>1, <3>2 DEF HttpRequest, HttpCalls, TypeInv
  <2> QED  BY <1>3, <2>1, <2>2, <2>3, <2>4, <2>5, <2>6, <2>7, <2>8, <2>9, <2>10, <2>11, <2>12 DEF OTAAgentTask
<1>4. CASE LinkLost \/ Rest
  BY <1>4 DEF LinkLost, Rest, vars, TypeInv
<1> QED  BY <1>1, <1>2, <1>3, <1>4 DEF Next

LEMMA CommandsStep ==
  ASSUME TypeInv, CommandsInv, Staged, Next, TypeInv'
  PROVE  CommandsInv'
<1>c. /\ \A i \in 1..Len(queue) : queue[i] \in Cmds /\ Proper(queue[i], ota.ops)
      /\ \A c \in pending : c \in Cmds /\ Proper(c, ota.ops)
  BY DEF CommandsInv, QueueOK, PendingOK
<1>h. ASSUME queue # <<>>
      PROVE  Head(queue) \in Cmds /\ Proper(Head(queue), ota.ops)
  BY <1>h, WithoutHead
<1>o. /\ ota \in OtaType /\ ota' \in OtaType /\ session \in BOOLEAN
      /\ ota.ops \in Nat /\ ota.ops + 1 \in Nat /\ ota.ops < ota.ops + 1
  BY DEF TypeInv, OtaType
<1>n. ASSUME UNCHANGED commands, ota'.ops \in {ota.ops, ota.ops + 1}
      PROVE  CommandsInv'
  BY <1>n, <1>o, NotACommand
<1>s. ASSUME NEW op \in OtaOps, NEW f \in Filters \cup {"none"},
             op = "subscribe" => f \in {"notify", "data"},
             SendCommand(Command(op, f, "ota")), ota'.ops = ota.ops + 1
      PROVE  CommandsInv'
  <2>1. Command(op, f, "ota") \in Cmds
    BY <1>o DEF Command, Cmds
  <2>2. Proper(Command(op, f, "ota"), ota'.ops) /\ Command(op, f, "ota").by = "ota"
        /\ Command(op, f, "ota").id = ota.ops
    BY <1>s, <1>o DEF Command, Proper, OtaOps
  <2> QED  BY <1>s, <1>o, <2>1, <2>2, CommandSent
<1>g. ASSUME OtaReturns
      PROVE  CommandsInv'
  <2>1. ota'.ops = ota.ops
    BY <1>g, <1>o DEF OtaReturns, OtaType
  <2> QED  BY <1>g, <1>o, <2>1, CommandsForgotten DEF OtaReturns
<1>1. ASSUME DemoTask
      PROVE  CommandsInv'
  <2>1. CASE DemoStarts
    BY <2>1, <1>n DEF DemoStarts, To
  <2>2. CASE DemoConnects
    BY <2>2, <1>n DEF DemoConnects, CreateSocketConnection, To
  <2>3. CASE ConnectToMQTTBroker
      <3>1. pending = {}
        BY <2>3 DEF ConnectToMQTTBroker, Staged, Early
      <3> QED  BY <2>3, <1>o, <3>1, CommandsGone DEF ConnectToMQTTBroker, MqttAgentInit
  <2>4. CASE RegisterDefault
    BY <2>4, <1>n DEF RegisterDefault, To
  <2>5. CASE CreateAgentTask
    BY <2>5, <1>n DEF CreateAgentTask, To
  <2>6. CASE RunOTADemo
      BY <2>6, <1>n, <1>o DEF RunOTADemo, OtaType
  <2>7. CASE OtaStopped
    BY <2>7, <1>n DEF OtaStopped, To
  <2>8. CASE UnregisterDefault
    BY <2>8, <1>n DEF UnregisterDefault, To
  <2>9. CASE DisconnectFromMQTTBroker
      <3>1. Command("disconnect", "none", "demo") \in Cmds
        BY <1>o DEF Command, Cmds
      <3>2. /\ Proper(Command("disconnect", "none", "demo"), ota.ops)
            /\ Command("disconnect", "none", "demo").by = "demo"
        BY DEF Command, Proper
      <3>3. \A i \in 1..Len(queue) : queue[i].by = "ota"
        BY <2>9 DEF DisconnectFromMQTTBroker, Staged, Late
      <3>4. SendCommand(Command("disconnect", "none", "demo")) /\ ota' = ota
        BY <2>9 DEF DisconnectFromMQTTBroker
      <3> QED  BY <1>o, <3>1, <3>2, <3>3, <3>4, CommandSent
  <2>10. CASE DisconnectTimesOut
      BY <2>10, <1>o, CommandsForgotten DEF DisconnectTimesOut
  <2>11. CASE DemoCloses
    BY <2>11, <1>n DEF DemoCloses, CloseTcp, To
  <2>12. CASE CloseHttp
    BY <2>12, <1>n DEF CloseHttp, To
  <2>13. CASE DeleteMutex
    BY <2>13, <1>n DEF DeleteMutex, To
  <2> QED  BY <1>1, <2>1, <2>2, <2>3, <2>4, <2>5, <2>6, <2>7, <2>8, <2>9, <2>10, <2>11, <2>12, <2>13 DEF DemoTask
<1>2. ASSUME MQTTAgentTask
      PROVE  CommandsInv'
  <2>1. CASE IncomingPublish
    BY <2>1, <1>n DEF IncomingPublish
  <2>2. CASE TakeCommand
      <3>1. CASE session
        BY <2>2, <3>1, CommandWaits DEF TakeCommand
      <3>2. CASE ~session
        <4>1. CmdComplete(Head(queue), FALSE) /\ queue # <<>>
          BY <2>2, <3>2 DEF TakeCommand
        <4>2. ota' = IF Head(queue).by = "ota"
                     THEN [ota EXCEPT !.note = TRUE, !.result = FALSE] ELSE ota
          BY <1>h, <4>1, Completed
        <4>3. ota'.ops = ota.ops
          BY <1>o, <4>2 DEF OtaType
        <4> QED  BY <2>2, <1>o, <3>2, <4>3, CommandDone DEF TakeCommand
      <3> QED  BY <3>1, <3>2
  <2>3. CASE Acknowledge
    BY <2>3, <1>n DEF Acknowledge
  <2>4. CASE StoreStatus
      BY <2>4, <1>n, <1>o DEF StoreStatus, OtaType
  <2>5. CASE NotifyTask
      <3>1. PICK c \in pending : pending' = pending \ {c} /\ free' = free + 1
        BY <2>5 DEF NotifyTask
      <3>2. ota'.ops = ota.ops
        BY <2>5, <1>o DEF NotifyTask, OtaType
      <3> QED  BY <2>5, <1>o, <3>1, <3>2, CommandAcknowledged DEF NotifyTask
  <2>6. CASE TakeDisconnect
      <3>1. CmdComplete(Head(queue), session) /\ queue # <<>>
        BY <2>6 DEF TakeDisconnect
      <3>2. ota' = IF Head(queue).by = "ota"
                   THEN [ota EXCEPT !.note = TRUE, !.result = session] ELSE ota
        BY <1>h, <1>o, <3>1, Completed
      <3>3. ota'.ops = ota.ops
        BY <1>o, <3>2 DEF OtaType
      <3> QED  BY <2>6, <1>o, <3>3, CommandDone DEF TakeDisconnect
  <2>7. CASE LoopFails
    BY <2>7, <1>n DEF LoopFails
  <2>8. CASE CancelAll
      <3>1. ota'.ops = ota.ops
        BY <2>8, <1>o DEF CancelAll, OtaType
      <3> QED  BY <2>8, <1>o, <3>1, CommandsGone DEF CancelAll
  <2>9. CASE SuspendOTA
    BY <2>9, <1>n DEF SuspendOTA, Signals, Fails
  <2>10. CASE SuspendSeen
    BY <2>10, <1>n DEF SuspendSeen
  <2>11. CASE SuspendTimesOut
    BY <2>11, <1>n DEF SuspendTimesOut
  <2>12. CASE AgentCloses
    BY <2>12, <1>n DEF AgentCloses, CloseTcp
  <2>13. CASE AgentConnects
    BY <2>13, <1>n DEF AgentConnects, CreateSocketConnection
  <2>14. CASE AgentReconnects
      <3>1. pending = {}
        BY <2>14 DEF AgentReconnects, Staged
      <3> QED  BY <2>14, <1>o, <3>1, CommandsGone DEF AgentReconnects, MqttAgentInit
  <2>15. CASE ResumeOTA
    BY <2>15, <1>n DEF ResumeOTA, Signals, Fails
  <2>16. CASE ResumeSeen
    BY <2>16, <1>n DEF ResumeSeen
  <2> QED  BY <1>2, <2>1, <2>2, <2>3, <2>4, <2>5, <2>6, <2>7, <2>8, <2>9, <2>10, <2>11, <2>12, <2>13, <2>14, <2>15, <2>16 DEF MQTTAgentTask
<1>3. ASSUME OTAAgentTask
      PROVE  CommandsInv'
  <2>1. CASE OtaStarts
    BY <2>1, <1>n, <1>o DEF OtaStarts, OtaIdle, OtaType
  <2>2. CASE OtaSuspends
    BY <2>2, <1>n, <1>o DEF OtaSuspends, OtaHandles, OtaIdle, OtaType
  <2>3. CASE OtaResumes
    BY <2>3, <1>n, <1>o DEF OtaResumes, OtaHandles, OtaIdle, OtaType
  <2>4. CASE OtaShutsDown
      <3>1. SendCommand(Command("leave", "notify", "ota"))
        BY <2>4 DEF OtaShutsDown
      <3>2. ota'.ops = ota.ops + 1
        BY <2>4, <1>o DEF OtaShutsDown, OtaType
      <3> QED  BY <1>s, <3>1, <3>2 DEF OtaOps, Filters
  <2>5. CASE AppCallback
    BY <2>5, <1>n, <1>o DEF AppCallback, OtaIdle, OtaType
  <2>6. CASE MqttSubscribe
      <3>1. PICK f \in {"notify", "data"} : OtaCalls("subscribe", f)
        BY <2>6 DEF MqttSubscribe
      <3>2. ota'.ops = ota.ops + 1
        BY <1>o, <3>1 DEF OtaCalls, OtaType
      <3> QED  BY <1>s, <3>1, <3>2 DEF OtaCalls, OtaOps, Filters
  <2>7. CASE MqttPublish
      <3>1. ota'.ops = ota.ops + 1
        BY <2>7, <1>o DEF MqttPublish, OtaCalls, OtaType
      <3> QED  BY <2>7, <1>s, <3>1 DEF MqttPublish, OtaCalls, OtaOps
  <2>8. CASE MqttUnsubscribe
      <3>1. PICK f \in {"notify", "data"} : OtaCalls("unsubscribe", f)
        BY <2>8 DEF MqttUnsubscribe, TypeInv
      <3>2. ota'.ops = ota.ops + 1
        BY <1>o, <3>1 DEF OtaCalls, OtaType
      <3> QED  BY <1>s, <3>1, <3>2 DEF OtaCalls, OtaOps, Filters
  <2>9. CASE OtaNotified
      BY <2>9, <1>g DEF OtaNotified
  <2>10. CASE OtaTimesOut
      BY <2>10, <1>g DEF OtaTimesOut
  <2>11. CASE HttpInit
    BY <2>11, <1>n, <1>o DEF HttpInit, HttpCalls, OtaIdle, ConnectToS3Server, Closed, OtaType
  <2>12. CASE HttpRequest
    BY <2>12, <1>n, <1>o DEF HttpRequest, HttpCalls, OtaIdle, HandleHttpResponse, Closed, OtaType
  <2> QED  BY <1>3, <2>1, <2>2, <2>3, <2>4, <2>5, <2>6, <2>7, <2>8, <2>9, <2>10, <2>11, <2>12 DEF OTAAgentTask
<1>4. CASE LinkLost \/ Rest
  BY <1>4, <1>n DEF LinkLost, Rest, vars
<1> QED  BY <1>1, <1>2, <1>3, <1>4 DEF Next

LEMMA StagedStep ==
  ASSUME TypeInv, CommandsInv, Staged, Next
  PROVE  Staged'
<1>c. /\ \A i \in 1..Len(queue) : queue[i] \in Cmds /\ Proper(queue[i], ota.ops)
      /\ \A c \in pending : c \in Cmds /\ Proper(c, ota.ops) /\ c.by = "ota"
      /\ queue \in Seq(Cmds)
  BY DEF CommandsInv, QueueOK, PendingOK
<1>h. ASSUME queue # <<>>
      PROVE  /\ Head(queue) \in Cmds /\ Proper(Head(queue), ota.ops) /\ Head(queue) = queue[1]
             /\ \A i \in 1..Len(Tail(queue)) : Tail(queue)[i] = queue[i + 1] /\ i + 1 \in 1..Len(queue)
             /\ 1 \in 1..Len(queue)
  BY <1>h, <1>c, WithoutHead
<1>o. ota \in OtaType /\ session \in BOOLEAN
  BY DEF TypeInv
<1>s. ASSUME NEW c, SendCommand(c)
      PROVE  \A i \in 1..Len(queue') :
               (i \in 1..Len(queue) /\ queue'[i] = queue[i]) \/ queue'[i] = c
  BY <1>s, <1>c DEF SendCommand
<1>f. ASSUME NEW by, Forgotten(by)
      PROVE  /\ Len(queue') = Len(queue)
             /\ \A i \in 1..Len(queue) : queue'[i].by = queue[i].by
             /\ pending = {} => pending' = {}
             /\ queue = <<>> => queue' = <<>>
  <2>1. DOMAIN queue = 1..Len(queue) /\ DOMAIN queue' = 1..Len(queue) /\ Len(queue) \in Nat
    BY <1>c, <1>f DEF Forgotten
  <2>2. Len(queue') = Len(queue)
    BY <1>c, <1>f, <2>1 DEF Forgotten
  <2>3. ASSUME NEW i \in 1..Len(queue)
        PROVE  queue'[i].by = queue[i].by
    <3>1. queue'[i] = Forget(queue[i], by)
      BY <1>f, <2>1 DEF Forgotten, Forget
    <3> QED  BY <1>c, <3>1, ForgetsOnly
  <2>4. pending = {} => pending' = {}
    BY <1>f DEF Forgotten
  <2>5. queue = <<>> => queue' = <<>>
    BY <1>f, <2>2 DEF Forgotten
  <2> QED  BY <2>2, <2>3, <2>4, <2>5
<1>a. ASSUME NEW c \in Cmds, Proper(c, ota.ops), NEW ok \in BOOLEAN, CmdComplete(c, ok)
      PROVE  /\ ota'.task = ota.task /\ ota'.state = ota.state /\ ota'.op = ota.op
             /\ demo' = IF c.by = "ota" THEN demo ELSE "closeMqtt"
             /\ fault' = fault \/ fault' # "none"
  <2>1. /\ ota' = IF c.by = "ota" THEN [ota EXCEPT !.note = TRUE, !.result = ok] ELSE ota
        /\ IF c.by = "ota" THEN UNCHANGED steps ELSE demo' = "closeMqtt"
        /\ fault' = IF c.live THEN fault ELSE "frame"
    BY <1>a, Completed
  <2> QED  BY <1>o, <2>1 DEF OtaType
<1>b. ASSUME NEW op, NEW f, SendCommand(Command(op, f, "ota")), ota.task, ota'.task,
             UNCHANGED <<demo, agent>>
      PROVE  Staged'
  <2>1. /\ UNCHANGED <<demo, agent>>
        /\ fault' = fault \/ fault' # "none"
        /\ pending' = pending
    BY <1>b DEF SendCommand, Fails
  <2>2. demo \notin Early \cup {"init"}
    BY <1>b DEF Staged
  <2>3. \A i \in 1..Len(queue') :
          queue'[i].by = "ota" \/ (i \in 1..Len(queue) /\ queue'[i] = queue[i])
    <3>1. Command(op, f, "ota").by = "ota"
      BY DEF Command
    <3> QED  BY <1>b, <1>s, <3>1
  <2> QED  BY <1>b, <2>1, <2>2, <2>3 DEF Staged, Early
<1>k. ASSUME NEW op, NEW f, OtaCalls(op, f)
      PROVE  Staged'
  <2>1. ota.task /\ ota'.task
    BY <1>k, <1>o DEF OtaCalls, OtaType
  <2> QED  BY <1>b, <1>k, <2>1 DEF OtaCalls
<1>t. ASSUME OtaReturns
      PROVE  Staged'
  <2>1. Forgotten("ota") /\ UNCHANGED <<demo, agent, fault, events>>
    BY <1>t DEF OtaReturns
  <2>2. ota'.task = ota.task /\ ota'.op = "idle" /\ ota.op # "idle"
    BY <1>t, <1>o DEF OtaReturns, OtaType
  <2>3. demo \notin Early \cup {"init"} /\ ota.task
    BY <2>2 DEF Staged
  <2> QED  BY <1>f, <2>1, <2>2, <2>3 DEF Staged, Early
<1>1. ASSUME DemoTask
      PROVE  Staged'
  <2>1. CASE DemoStarts
    BY <2>1 DEF DemoStarts, To, Staged, Early, Late, Running
  <2>2. CASE DemoConnects
    BY <2>2 DEF DemoConnects, CreateSocketConnection, To, Staged, Early, Late, Running
  <2>3. CASE ConnectToMQTTBroker
    BY <2>3 DEF ConnectToMQTTBroker, MqttAgentInit, MQTTConnect, To, Staged, Early, Late, Running
  <2>4. CASE RegisterDefault
    BY <2>4 DEF RegisterDefault, To, Staged, Early, Late, Running
  <2>5. CASE CreateAgentTask
    BY <2>5 DEF CreateAgentTask, To, Staged, Early, Late, Running
  <2>6. CASE RunOTADemo
      <3>1. /\ ota'.op = ota.op
            /\ \/ demo' = "poll" /\ ota'.task /\ ota'.state = "init"
               \/ /\ demo' = "unregister" /\ ota'.task = ota.task
                  /\ ota'.state \in {"init", "stopped"}
        BY <2>6, <1>o DEF RunOTADemo, To, OtaType
      <3> QED  BY <2>6, <3>1 DEF RunOTADemo, Staged, Early, Late
  <2>7. CASE OtaStopped
    BY <2>7 DEF OtaStopped, To, Staged, Early, Late, Running
  <2>8. CASE UnregisterDefault
    BY <2>8 DEF UnregisterDefault, To, Staged, Early, Late, Running
  <2>9. CASE DisconnectFromMQTTBroker
      BY <2>9 DEF DisconnectFromMQTTBroker, To, SendCommand, Staged, Early, Late
  <2>10. CASE DisconnectTimesOut
      <3>1. Forgotten("demo")
        BY <2>10 DEF DisconnectTimesOut
      <3> QED  BY <2>10, <3>1, <1>f DEF DisconnectTimesOut, To, Staged, Early, Late
  <2>11. CASE DemoCloses
    BY <2>11 DEF DemoCloses, CloseTcp, To, Staged, Early, Late, Running
  <2>12. CASE CloseHttp
    BY <2>12 DEF CloseHttp, To, Staged, Early, Late, Running
  <2>13. CASE DeleteMutex
    BY <2>13 DEF DeleteMutex, To, Staged, Early, Late, Running
  <2> QED  BY <1>1, <2>1, <2>2, <2>3, <2>4, <2>5, <2>6, <2>7, <2>8, <2>9, <2>10, <2>11, <2>12, <2>13 DEF DemoTask
<1>2. ASSUME MQTTAgentTask
      PROVE  Staged'
  <2>1. CASE IncomingPublish
    BY <2>1 DEF IncomingPublish, Staged, Early, Late, Running
  <2>2. CASE TakeCommand
      <3>1. CASE session
        BY <2>2, <1>h, <3>1 DEF TakeCommand, Staged, Early, Late
      <3>2. CASE ~session
        <4>1. CmdComplete(Head(queue), FALSE) /\ queue # <<>>
          BY <2>2, <3>2 DEF TakeCommand
        <4> QED  BY <2>2, <1>a, <1>h, <3>2, <4>1 DEF TakeCommand, Staged, Early, Late
      <3> QED  BY <3>1, <3>2
  <2>3. CASE Acknowledge
    BY <2>3 DEF Acknowledge, Staged, Early, Late, Running
  <2>4. CASE StoreStatus
      <3>1. ota'.task = ota.task /\ ota'.state = ota.state /\ ota'.op = ota.op
        BY <2>4, <1>o DEF StoreStatus, OtaType
      <3> QED  BY <2>4, <3>1 DEF StoreStatus, Staged, Early, Late, Running
  <2>5. CASE NotifyTask
      <3>1. ota'.task = ota.task /\ ota'.state = ota.state /\ ota'.op = ota.op
        BY <2>5, <1>o DEF NotifyTask, OtaType
      <3> QED  BY <2>5, <3>1 DEF NotifyTask, Staged, Early, Late, Running
  <2>6. CASE TakeDisconnect
      <3>1. CmdComplete(Head(queue), session) /\ queue # <<>>
        BY <2>6 DEF TakeDisconnect
      <3>2. demo' = "closeMqtt"
        BY <2>6, <1>a, <1>h, <1>o, <3>1 DEF TakeDisconnect, Proper, Cmds
      <3> QED  BY <2>6, <1>a, <1>h, <1>o, <3>1, <3>2 DEF TakeDisconnect, Staged, Early, Late
  <2>7. CASE LoopFails
    BY <2>7 DEF LoopFails, Staged, Early, Late, Running
  <2>8. CASE CancelAll
    BY <2>8 DEF CancelAll, Staged, Early, Late, Running
  <2>9. CASE SuspendOTA
    BY <2>9 DEF SuspendOTA, Signals, Fails, Staged, Early, Late, Running
  <2>10. CASE SuspendSeen
    BY <2>10 DEF SuspendSeen, Staged, Early, Late, Running
  <2>11. CASE SuspendTimesOut
    BY <2>11 DEF SuspendTimesOut, Staged, Early, Late, Running
  <2>12. CASE AgentCloses
    BY <2>12 DEF AgentCloses, CloseTcp, Staged, Early, Late, Running
  <2>13. CASE AgentConnects
    BY <2>13 DEF AgentConnects, CreateSocketConnection, Staged, Early, Late, Running
  <2>14. CASE AgentReconnects
    BY <2>14 DEF AgentReconnects, MqttAgentInit, MQTTConnect, Staged, Early, Late, Running
  <2>15. CASE ResumeOTA
    BY <2>15 DEF ResumeOTA, Signals, Fails, Staged, Early, Late, Running
  <2>16. CASE ResumeSeen
    BY <2>16 DEF ResumeSeen, Staged, Early, Late, Running
  <2> QED  BY <1>2, <2>1, <2>2, <2>3, <2>4, <2>5, <2>6, <2>7, <2>8, <2>9, <2>10, <2>11, <2>12, <2>13, <2>14, <2>15, <2>16 DEF MQTTAgentTask
<1>3. ASSUME OTAAgentTask
      PROVE  Staged'
  <2>1. CASE OtaStarts
    BY <2>1 DEF OtaStarts, OtaIdle, Staged, Early, Late, Running
  <2>2. CASE OtaSuspends
    BY <2>2 DEF OtaSuspends, OtaHandles, OtaIdle, Staged, Early, Late, Running
  <2>3. CASE OtaResumes
    BY <2>3 DEF OtaResumes, OtaHandles, OtaIdle, Staged, Early, Late, Running
  <2>4. CASE OtaShutsDown
      <3>1. /\ ota'.task /\ ota.task /\ SendCommand(Command("leave", "notify", "ota"))
        BY <2>4, <1>o DEF OtaShutsDown, OtaHandles, OtaIdle, OtaType
      <3> QED  BY <2>4, <1>b, <3>1 DEF OtaShutsDown
  <2>5. CASE AppCallback
    BY <2>5 DEF AppCallback, OtaIdle, Staged, Early, Late, Running
  <2>6. CASE MqttSubscribe
      BY <2>6, <1>k DEF MqttSubscribe
  <2>7. CASE MqttPublish
      BY <2>7, <1>k DEF MqttPublish
  <2>8. CASE MqttUnsubscribe
      BY <2>8, <1>k DEF MqttUnsubscribe
  <2>9. CASE OtaNotified
      BY <2>9, <1>t DEF OtaNotified
  <2>10. CASE OtaTimesOut
      BY <2>10, <1>t DEF OtaTimesOut
  <2>11. CASE HttpInit
    BY <2>11 DEF HttpInit, HttpCalls, OtaIdle, ConnectToS3Server, Closed, Staged, Early, Late, Running
  <2>12. CASE HttpRequest
    BY <2>12 DEF HttpRequest, HttpCalls, OtaIdle, HandleHttpResponse, Closed, Staged, Early, Late, Running
  <2> QED  BY <1>3, <2>1, <2>2, <2>3, <2>4, <2>5, <2>6, <2>7, <2>8, <2>9, <2>10, <2>11, <2>12 DEF OTAAgentTask
<1>4. CASE LinkLost \/ Rest
  BY <1>4 DEF LinkLost, Rest, vars, Staged
<1> QED  BY <1>1, <1>2, <1>3, <1>4 DEF Next

-----------------------------------------------------------------------------
(* What a callback finds is what the task that waits for it has asked for, *)
(* or an assertion about the frame fails.                                  *)

LEMMA Underway ==
  ASSUME CommandsInv
  PROVE  /\ queue \in Seq(Cmds)
         /\ \A i \in 1..Len(queue) : queue[i] \in Cmds /\ Proper(queue[i], ota.ops)
         /\ \A c \in pending : c \in Cmds /\ Proper(c, ota.ops) /\ c.by = "ota"
         /\ queue # <<>> =>
              /\ Head(queue) \in Cmds /\ Proper(Head(queue), ota.ops)
              /\ Head(queue) = queue[1] /\ 1 \in 1..Len(queue) /\ Tail(queue) \in Seq(Cmds)
              /\ \A i \in 1..Len(Tail(queue)) :
                   /\ i + 1 \in 1..Len(queue) /\ Tail(queue)[i] = queue[i + 1]
                   /\ ~Same(Tail(queue)[i], Head(queue))
<1>1. /\ queue \in Seq(Cmds)
      /\ \A i \in 1..Len(queue) : queue[i] \in Cmds /\ Proper(queue[i], ota.ops)
      /\ \A c \in pending : c \in Cmds /\ Proper(c, ota.ops) /\ c.by = "ota"
  BY DEF CommandsInv, QueueOK, PendingOK
<1>2. ASSUME queue # <<>>
      PROVE  /\ Head(queue) \in Cmds /\ Proper(Head(queue), ota.ops)
             /\ Head(queue) = queue[1] /\ 1 \in 1..Len(queue) /\ Tail(queue) \in Seq(Cmds)
             /\ \A i \in 1..Len(Tail(queue)) :
                  /\ i + 1 \in 1..Len(queue) /\ Tail(queue)[i] = queue[i + 1]
                  /\ ~Same(Tail(queue)[i], Head(queue))
  <2>1. /\ Head(queue) \in Cmds /\ Proper(Head(queue), ota.ops)
        /\ \A i \in 1..Len(Tail(queue)) : ~Same(Tail(queue)[i], Head(queue))
    BY <1>2, WithoutHead
  <2>2. /\ Head(queue) = queue[1] /\ 1 \in 1..Len(queue) /\ Tail(queue) \in Seq(Cmds)
        /\ \A i \in 1..Len(Tail(queue)) :
             i + 1 \in 1..Len(queue) /\ Tail(queue)[i] = queue[i + 1]
    BY <1>1, <1>2
  <2> QED  BY <2>1, <2>2
<1> QED  BY <1>1, <1>2

LEMMA ClosingStep ==
  ASSUME TypeInv, CommandsInv, Staged, Closing, Next
  PROVE  Closing'
<1>o. ota \in OtaType /\ session \in BOOLEAN
  BY DEF TypeInv
<1>k. ASSUME ota'.task = ota.task, ota'.state = ota.state,
             UNCHANGED <<status, inited, http>>,
             demo' = demo \/ (demo \in Late /\ demo' = "closeMqtt")
      PROVE  Closing'
  BY <1>k DEF Closing, Late
<1>a. ASSUME queue # <<>>, NEW ok \in BOOLEAN, CmdComplete(Head(queue), ok), UNCHANGED http
      PROVE  Closing'
  <2>1. Head(queue) \in Cmds /\ Head(queue) = queue[1] /\ 1 \in 1..Len(queue)
    BY <1>a, Underway
  <2>2. /\ ota'.task = ota.task /\ ota'.state = ota.state
        /\ IF Head(queue).by = "ota" THEN UNCHANGED steps
           ELSE demo' = "closeMqtt" /\ UNCHANGED <<status, inited>>
    BY <1>a, <1>o, <2>1, Completed DEF OtaType
  <2>3. Head(queue).by # "ota" => demo \in Late
    BY <2>1 DEF Staged
  <2> QED  BY <1>a, <1>k, <2>2, <2>3
<1>1. ASSUME DemoTask
      PROVE  Closing'
  <2>1. CASE DemoStarts
    BY <2>1 DEF DemoStarts, To, Closing, Staged, Early, Late
  <2>2. CASE DemoConnects
    BY <2>2 DEF DemoConnects, CreateSocketConnection, To, Closing, Staged, Early, Late
  <2>3. CASE ConnectToMQTTBroker
    BY <2>3 DEF ConnectToMQTTBroker, MqttAgentInit, MQTTConnect, To, Closing, Staged, Early, Late
  <2>4. CASE RegisterDefault
    BY <2>4 DEF RegisterDefault, To, Closing, Staged, Early, Late
  <2>5. CASE CreateAgentTask
    BY <2>5 DEF CreateAgentTask, To, Closing, Staged, Early, Late
  <2>6. CASE RunOTADemo
      <3>1. /\ UNCHANGED <<inited, http>> /\ demo = "init"
            /\ \/ demo' = "poll" /\ ota'.task
               \/ demo' = "unregister" /\ ota'.task = ota.task
        BY <2>6, <1>o DEF RunOTADemo, To, OtaType
      <3> QED  BY <3>1 DEF Closing, Staged, Early, Late
  <2>7. CASE OtaStopped
    BY <2>7 DEF OtaStopped, To, Closing, Staged, Early, Late
  <2>8. CASE UnregisterDefault
    BY <2>8 DEF UnregisterDefault, To, Closing, Staged, Early, Late
  <2>9. CASE DisconnectFromMQTTBroker
    BY <2>9 DEF DisconnectFromMQTTBroker, To, Closing, Staged, Early, Late
  <2>10. CASE DisconnectTimesOut
    BY <2>10 DEF DisconnectTimesOut, To, Closing, Staged, Early, Late
  <2>11. CASE DemoCloses
    BY <2>11 DEF DemoCloses, CloseTcp, To, Closing, Staged, Early, Late
  <2>12. CASE CloseHttp
      <3>1. http'.flag = http.flag /\ (http.sock # "open" => http'.sock # "open")
        BY <2>12 DEF CloseHttp, TypeInv, HttpType
      <3> QED  BY <2>12, <3>1 DEF CloseHttp, To, Closing, Late
  <2>13. CASE DeleteMutex
    BY <2>13 DEF DeleteMutex, To, Closing, Staged, Early, Late
  <2> QED  BY <1>1, <2>1, <2>2, <2>3, <2>4, <2>5, <2>6, <2>7, <2>8, <2>9, <2>10, <2>11, <2>12, <2>13 DEF DemoTask
<1>2. ASSUME MQTTAgentTask
      PROVE  Closing'
  <2>1. CASE IncomingPublish
    BY <2>1, <1>k, <1>o DEF IncomingPublish, OtaType
  <2>2. CASE TakeCommand
      <3>1. CASE session
        BY <2>2, <1>k, <3>1 DEF TakeCommand
      <3>2. CASE ~session
        BY <2>2, <1>a, <3>2 DEF TakeCommand
      <3> QED  BY <3>1, <3>2
  <2>3. CASE Acknowledge
    BY <2>3, <1>k, <1>o DEF Acknowledge, OtaType
  <2>4. CASE StoreStatus
    BY <2>4, <1>k, <1>o DEF StoreStatus, OtaType
  <2>5. CASE NotifyTask
    BY <2>5, <1>k, <1>o DEF NotifyTask, OtaType
  <2>6. CASE TakeDisconnect
      BY <2>6, <1>a, <1>o DEF TakeDisconnect
  <2>7. CASE LoopFails
    BY <2>7, <1>k, <1>o DEF LoopFails, OtaType
  <2>8. CASE CancelAll
      <3>1. demo' = demo \/ (demo \in Late /\ demo' = "closeMqtt")
        <4>1. SUFFICES ASSUME NEW c \in Range(queue) \cup pending, c.by = "demo"
                       PROVE  demo \in Late
          BY <2>8 DEF CancelAll
        <4>2. c \notin pending
          BY <4>1, Underway
        <4>3. \E i \in 1..Len(queue) : c = queue[i]
          BY <4>1, <4>2, Underway DEF Range
        <4> QED  BY <4>1, <4>3 DEF Staged
      <3>2. ota'.task = ota.task /\ ota'.state = ota.state
        BY <2>8, <1>o DEF CancelAll, OtaType
      <3> QED  BY <2>8, <1>k, <3>1, <3>2 DEF CancelAll
  <2>9. CASE SuspendOTA
    BY <2>9, <1>k, <1>o DEF SuspendOTA, Signals, OtaType
  <2>10. CASE SuspendSeen
    BY <2>10, <1>k, <1>o DEF SuspendSeen, OtaType
  <2>11. CASE SuspendTimesOut
    BY <2>11, <1>k, <1>o DEF SuspendTimesOut, OtaType
  <2>12. CASE AgentCloses
    BY <2>12, <1>k, <1>o DEF AgentCloses, CloseTcp, OtaType
  <2>13. CASE AgentConnects
    BY <2>13, <1>k, <1>o DEF AgentConnects, CreateSocketConnection, OtaType
  <2>14. CASE AgentReconnects
    BY <2>14, <1>k, <1>o DEF AgentReconnects, MqttAgentInit, MQTTConnect, OtaType
  <2>15. CASE ResumeOTA
    BY <2>15, <1>k, <1>o DEF ResumeOTA, Signals, OtaType
  <2>16. CASE ResumeSeen
    BY <2>16, <1>k, <1>o DEF ResumeSeen, OtaType
  <2> QED  BY <1>2, <2>1, <2>2, <2>3, <2>4, <2>5, <2>6, <2>7, <2>8, <2>9, <2>10, <2>11, <2>12, <2>13, <2>14, <2>15, <2>16 DEF MQTTAgentTask
<1>3. ASSUME OTAAgentTask
      PROVE  Closing'
  <2>1. CASE OtaStarts
      <3>1. ota.task /\ ota'.task /\ ota.state # "stopped" /\ UNCHANGED <<steps, http>>
        BY <2>1, <1>o DEF OtaStarts, OtaIdle, OtaType
      <3> QED  BY <3>1 DEF Closing
  <2>2. CASE OtaSuspends
      <3>1. ota.task /\ ota'.task /\ ota.state # "stopped" /\ UNCHANGED <<steps, http>>
        BY <2>2, <1>o DEF OtaSuspends, OtaHandles, OtaIdle, OtaType
      <3> QED  BY <3>1 DEF Closing
  <2>3. CASE OtaResumes
      <3>1. ota.task /\ ota'.task /\ ota.state # "stopped" /\ UNCHANGED <<steps, http>>
        BY <2>3, <1>o DEF OtaResumes, OtaHandles, OtaIdle, OtaType
      <3> QED  BY <3>1 DEF Closing
  <2>4. CASE OtaShutsDown
    BY <2>4, <1>k, <1>o DEF OtaShutsDown, OtaHandles, OtaIdle, OtaType
  <2>5. CASE AppCallback
    BY <2>5, <1>k, <1>o DEF AppCallback, OtaIdle, OtaType
  <2>6. CASE MqttSubscribe
    BY <2>6, <1>k, <1>o DEF MqttSubscribe, OtaCalls, OtaType
  <2>7. CASE MqttPublish
    BY <2>7, <1>k, <1>o DEF MqttPublish, OtaCalls, OtaType
  <2>8. CASE MqttUnsubscribe
    BY <2>8, <1>k, <1>o DEF MqttUnsubscribe, OtaCalls, OtaType
  <2>9. CASE OtaNotified
      <3>1. /\ ota'.task = ota.task /\ ota'.state \in {ota.state, "stopped"}
            /\ UNCHANGED <<steps, http>>
        BY <2>9, <1>o DEF OtaNotified, OtaReturns, OtaType
      <3> QED  BY <3>1 DEF Closing
  <2>10. CASE OtaTimesOut
      <3>1. /\ ota'.task = ota.task /\ ota'.state \in {ota.state, "stopped"}
            /\ UNCHANGED <<steps, http>>
        BY <2>10, <1>o DEF OtaTimesOut, OtaReturns, OtaType
      <3> QED  BY <3>1 DEF Closing
  <2>11. CASE HttpInit
      <3>1. ota.task /\ ota'.task /\ ota'.state = ota.state /\ UNCHANGED steps
        BY <2>11, <1>o DEF HttpInit, HttpCalls, OtaIdle, OtaType
      <3> QED  BY <3>1 DEF Closing
  <2>12. CASE HttpRequest
      <3>1. ota.task /\ ota'.task /\ ota'.state = ota.state /\ UNCHANGED steps
        BY <2>12, <1>o DEF HttpRequest, HttpCalls, OtaIdle, OtaType
      <3> QED  BY <3>1 DEF Closing
  <2> QED  BY <1>3, <2>1, <2>2, <2>3, <2>4, <2>5, <2>6, <2>7, <2>8, <2>9, <2>10, <2>11, <2>12 DEF OTAAgentTask
<1>4. CASE LinkLost \/ Rest
  BY <1>4 DEF LinkLost, Rest, vars, Closing
<1> QED  BY <1>1, <1>2, <1>3, <1>4 DEF Next

LEMMA Concluded ==
  ASSUME TypeInv, CommandsInv, Current, Running, fault' = "none",
         NEW c, c \in pending \/ (queue # <<>> /\ c = Head(queue)),
         NEW ok \in BOOLEAN, CmdComplete(c, ok)
  PROVE  /\ c \in Cmds /\ Proper(c, ota.ops) /\ c.live
         /\ c.by = "ota" =>
              /\ c.op = ota.op /\ c.filter = ota.filter /\ demo' = demo
              /\ ota' = [ota EXCEPT !.note = TRUE, !.result = ok]
         /\ c.by = "demo" =>
              demo = "await" /\ demo' = "closeMqtt" /\ ota' = ota
         /\ ota'.op = ota.op /\ ota'.filter = ota.filter /\ ota'.state = ota.state
         /\ ota'.result = IF c.by = "ota" THEN ok ELSE ota.result
<1>1. c \in Cmds /\ Proper(c, ota.ops) /\ OfNow(c, ota, demo)
  BY Underway DEF Current, Running
<1>2. /\ ota' = IF c.by = "ota" THEN [ota EXCEPT !.note = TRUE, !.result = ok] ELSE ota
      /\ IF c.by = "ota" THEN UNCHANGED steps ELSE demo' = "closeMqtt"
      /\ fault' = IF c.live THEN fault ELSE "frame"
  BY <1>1, Completed
<1>3. c.live
  BY <1>2
<1>4. /\ ota'.op = ota.op /\ ota'.filter = ota.filter /\ ota'.state = ota.state
      /\ ota'.result = IF c.by = "ota" THEN ok ELSE ota.result
  BY <1>2 DEF TypeInv, OtaType
<1> QED  BY <1>1, <1>2, <1>3, <1>4 DEF OfNow, Proper, Cmds

LEMMA CurrentStep ==
  ASSUME TypeInv, CommandsInv, Staged, Current, Next
  PROVE  Current'
<1> SUFFICES ASSUME fault' = "none"
             PROVE  Current'
  BY DEF Current
<1>o. ota \in OtaType /\ session \in BOOLEAN
  BY DEF TypeInv
<1>r. ASSUME Running
      PROVE  (\A i \in 1..Len(queue) : OfNow(queue[i], ota, demo)) /\ \A c \in pending : OfNow(c, ota, demo)
  BY <1>r DEF Current, Running
<1>k. ASSUME Running, UNCHANGED commands, ota'.op = ota.op, ota'.filter = ota.filter,
             demo' = demo \/ demo # "await"
      PROVE  Current'
  BY <1>k, <1>r DEF Current, OfNow
<1>f. ASSUME Running, NEW by, Forgotten(by), by = "demo" \/ demo' = demo,
             by = "ota" \/ (ota'.op = ota.op /\ ota'.filter = ota.filter)
      PROVE  Current'
  <2>1. /\ queue' = [i \in 1..Len(queue) |-> Forget(queue[i], by)]
        /\ pending' = {Forget(c, by) : c \in pending}
    BY <1>f, Underway DEF Forgotten, Forget
  <2>2. ASSUME NEW c \in Cmds, OfNow(c, ota, demo)
        PROVE  OfNow(Forget(c, by), ota', demo')
    <3>1. /\ Forget(c, by).op = c.op /\ Forget(c, by).filter = c.filter
          /\ Forget(c, by).by = c.by
          /\ Forget(c, by).live <=> c.live /\ c.by # by
      BY ForgetsOnly
    <3>2. c.by \in {"ota", "demo"}
      BY DEF Cmds
    <3> QED  BY <1>f, <2>2, <3>1, <3>2 DEF OfNow
  <2>3. \A i \in 1..Len(queue) : queue[i] \in Cmds /\ OfNow(queue[i], ota, demo)
    BY <1>f, <1>r, Underway
  <2>4. \A c \in pending : c \in Cmds /\ OfNow(c, ota, demo)
    BY <1>f, <1>r, Underway
  <2>5. Len(queue') = Len(queue) /\ \A i \in 1..Len(queue) : queue'[i] = Forget(queue[i], by)
    BY <2>1, Underway
  <2> QED  BY <2>1, <2>2, <2>3, <2>4, <2>5 DEF Current, OfNow
<1>s. ASSUME Running, NEW c, SendCommand(c), OfNow(c, ota', demo'),
             \A d \in Cmds : OfNow(d, ota, demo) => OfNow(d, ota', demo')
      PROVE  Current'
  <2>1. queue' = Append(queue, c) /\ pending' = pending
    BY <1>s DEF SendCommand, Fails
  <2>2. \A i \in 1..Len(queue') :
          (i \in 1..Len(queue) /\ queue'[i] = queue[i]) \/ queue'[i] = c
    BY <2>1, Underway
  <2>3. /\ \A i \in 1..Len(queue) : OfNow(queue[i], ota', demo')
        /\ \A d \in pending : OfNow(d, ota', demo')
    BY <1>r, <1>s, Underway
  <2> QED  BY <1>s, <2>1, <2>2, <2>3 DEF Current, OfNow
<1>t. ASSUME Running, NEW op \in OtaOps, NEW f, SendCommand(Command(op, f, "ota")),
             ota.op = "idle", ota'.op = op, ota'.filter = f, demo' = demo
      PROVE  Current'
  <2>1. OfNow(Command(op, f, "ota"), ota', demo')
    BY <1>t DEF OfNow, Command
  <2>2. ASSUME NEW d \in Cmds, OfNow(d, ota, demo)
        PROVE  OfNow(d, ota', demo')
    BY <1>t, <2>2 DEF OfNow, Cmds, OtaOps
  <2> QED  BY <1>s, <1>t, <2>1, <2>2
<1>c. ASSUME NEW op \in {"subscribe", "publish", "unsubscribe"}, NEW f, OtaCalls(op, f)
      PROVE  Current'
  <2>1. ota'.op = op /\ ota'.filter = f
    BY <1>c, <1>o DEF OtaCalls, OtaType
  <2> QED  BY <1>c, <1>t, <2>1 DEF OtaCalls, OtaOps
<1>q. ASSUME Running, queue # <<>>, NEW ok \in BOOLEAN, CmdComplete(Head(queue), ok),
             queue' = Tail(queue), pending' = pending
      PROVE  Current'
  <2> DEFINE c == Head(queue)
  <2>1. /\ ota'.op = ota.op /\ ota'.filter = ota.filter
        /\ c.by = "ota" => demo' = demo
        /\ c \in Cmds
    BY <1>q, Concluded
  <2>2. ASSUME NEW d \in Cmds, OfNow(d, ota, demo), d.by = "ota" \/ ~Same(d, c)
        PROVE  OfNow(d, ota', demo')
    BY <2>1, <2>2 DEF OfNow, Same, Cmds
  <2>3. ASSUME NEW i \in 1..Len(Tail(queue))
        PROVE  OfNow(Tail(queue)[i], ota', demo')
    <3>1. /\ i + 1 \in 1..Len(queue) /\ Tail(queue)[i] = queue[i + 1]
          /\ ~Same(Tail(queue)[i], c)
      BY <1>q, Underway
    <3> QED  BY <1>q, <1>r, <2>2, <3>1, Underway
  <2>4. ASSUME NEW d \in pending
        PROVE  OfNow(d, ota', demo')
    BY <1>q, <1>r, <2>2, Underway
  <2> QED  BY <1>q, <2>3, <2>4 DEF Current, OfNow
<1>1. ASSUME DemoTask
      PROVE  Current'
  <2>1. CASE DemoStarts
    BY <2>1, <1>k DEF DemoStarts, To
  <2>2. CASE DemoConnects
    BY <2>2, <1>k DEF DemoConnects, CreateSocketConnection, To
  <2>3. CASE ConnectToMQTTBroker
      BY <2>3 DEF ConnectToMQTTBroker, MqttAgentInit, Current
  <2>4. CASE RegisterDefault
    BY <2>4, <1>k DEF RegisterDefault, To
  <2>5. CASE CreateAgentTask
    BY <2>5, <1>k DEF CreateAgentTask, To
  <2>6. CASE RunOTADemo
      BY <2>6, <1>k, <1>o DEF RunOTADemo, To, OtaType
  <2>7. CASE OtaStopped
    BY <2>7, <1>k DEF OtaStopped, To
  <2>8. CASE UnregisterDefault
    BY <2>8, <1>k DEF UnregisterDefault, To
  <2>9. CASE DisconnectFromMQTTBroker
      <3>1. OfNow(Command("disconnect", "none", "demo"), ota', demo')
        BY <2>9 DEF DisconnectFromMQTTBroker, To, OfNow, Command
      <3>2. \A d \in Cmds : OfNow(d, ota, demo) => OfNow(d, ota', demo')
        BY <2>9 DEF DisconnectFromMQTTBroker, OfNow
      <3> QED  BY <2>9, <1>s, <3>1, <3>2 DEF DisconnectFromMQTTBroker
  <2>10. CASE DisconnectTimesOut
      BY <2>10, <1>f DEF DisconnectTimesOut
  <2>11. CASE DemoCloses
    BY <2>11, <1>k DEF DemoCloses, CloseTcp, To
  <2>12. CASE CloseHttp
    BY <2>12, <1>k DEF CloseHttp, To
  <2>13. CASE DeleteMutex
    BY <2>13, <1>k DEF DeleteMutex, To
  <2> QED  BY <1>1, <2>1, <2>2, <2>3, <2>4, <2>5, <2>6, <2>7, <2>8, <2>9, <2>10, <2>11, <2>12, <2>13 DEF DemoTask
<1>2. ASSUME MQTTAgentTask
      PROVE  Current'
  <2>1. CASE IncomingPublish
    BY <2>1, <1>k DEF IncomingPublish
  <2>2. CASE TakeCommand
      <3>1. CASE session
        <4>1. queue' = Tail(queue) /\ pending' = pending \cup {Head(queue)} /\ queue # <<>>
              /\ UNCHANGED <<ota, demo>> /\ Running
          BY <2>2, <3>1 DEF TakeCommand
        <4> QED  BY <1>r, <4>1, Underway DEF Current, OfNow
      <3>2. CASE ~session
        BY <2>2, <1>q, <3>2 DEF TakeCommand
      <3> QED  BY <3>1, <3>2
  <2>3. CASE Acknowledge
    BY <2>3, <1>k DEF Acknowledge
  <2>4. CASE StoreStatus
      BY <2>4, <1>k, <1>o DEF StoreStatus, OtaType
  <2>5. CASE NotifyTask
      <3>1. Running /\ queue' = queue /\ pending' \subseteq pending /\ demo' = demo
        BY <2>5 DEF NotifyTask
      <3>2. ota'.op = ota.op /\ ota'.filter = ota.filter
        BY <2>5, <1>o DEF NotifyTask, OtaType
      <3> QED  BY <1>r, <3>1, <3>2 DEF Current, OfNow
  <2>6. CASE TakeDisconnect
      BY <2>6, <1>o, <1>q DEF TakeDisconnect
  <2>7. CASE LoopFails
    BY <2>7, <1>k DEF LoopFails
  <2>8. CASE CancelAll
      BY <2>8 DEF CancelAll, Current
  <2>9. CASE SuspendOTA
    BY <2>9, <1>k DEF SuspendOTA, Signals, Fails
  <2>10. CASE SuspendSeen
    BY <2>10, <1>k DEF SuspendSeen
  <2>11. CASE SuspendTimesOut
    BY <2>11, <1>k DEF SuspendTimesOut
  <2>12. CASE AgentCloses
    BY <2>12, <1>k DEF AgentCloses, CloseTcp
  <2>13. CASE AgentConnects
    BY <2>13, <1>k DEF AgentConnects, CreateSocketConnection
  <2>14. CASE AgentReconnects
      BY <2>14 DEF AgentReconnects, MqttAgentInit, Current
  <2>15. CASE ResumeOTA
    BY <2>15, <1>k DEF ResumeOTA, Signals, Fails
  <2>16. CASE ResumeSeen
    BY <2>16, <1>k DEF ResumeSeen
  <2> QED  BY <1>2, <2>1, <2>2, <2>3, <2>4, <2>5, <2>6, <2>7, <2>8, <2>9, <2>10, <2>11, <2>12, <2>13, <2>14, <2>15, <2>16 DEF MQTTAgentTask
<1>3. ASSUME OTAAgentTask
      PROVE  Current'
  <2>1. CASE OtaStarts
    BY <2>1, <1>k, <1>o DEF OtaStarts, OtaIdle, OtaType
  <2>2. CASE OtaSuspends
    BY <2>2, <1>k, <1>o DEF OtaSuspends, OtaHandles, OtaIdle, OtaType
  <2>3. CASE OtaResumes
    BY <2>3, <1>k, <1>o DEF OtaResumes, OtaHandles, OtaIdle, OtaType
  <2>4. CASE OtaShutsDown
      <3>1. SendCommand(Command("leave", "notify", "ota")) /\ Running /\ demo' = demo /\ ota.op = "idle"
        BY <2>4 DEF OtaShutsDown, OtaHandles, OtaIdle
      <3>2. ota'.op = "leave" /\ ota'.filter = "notify"
        BY <2>4, <1>o DEF OtaShutsDown, OtaType
      <3> QED  BY <1>t, <3>1, <3>2 DEF OtaOps
  <2>5. CASE AppCallback
    BY <2>5, <1>k, <1>o DEF AppCallback, OtaIdle, OtaType
  <2>6. CASE MqttSubscribe
      BY <2>6, <1>c DEF MqttSubscribe
  <2>7. CASE MqttPublish
      BY <2>7, <1>c DEF MqttPublish
  <2>8. CASE MqttUnsubscribe
      BY <2>8, <1>c DEF MqttUnsubscribe
  <2>9. CASE OtaNotified
      BY <2>9, <1>f DEF OtaNotified, OtaReturns
  <2>10. CASE OtaTimesOut
      BY <2>10, <1>f DEF OtaTimesOut, OtaReturns
  <2>11. CASE HttpInit
    BY <2>11, <1>k, <1>o DEF HttpInit, HttpCalls, OtaIdle, ConnectToS3Server, Closed, OtaType
  <2>12. CASE HttpRequest
    BY <2>12, <1>k, <1>o DEF HttpRequest, HttpCalls, OtaIdle, HandleHttpResponse, Closed, OtaType
  <2> QED  BY <1>3, <2>1, <2>2, <2>3, <2>4, <2>5, <2>6, <2>7, <2>8, <2>9, <2>10, <2>11, <2>12 DEF OTAAgentTask
<1>4. CASE LinkLost \/ Rest
  BY <1>4 DEF LinkLost, Rest, vars, Current, OfNow
<1> QED  BY <1>1, <1>2, <1>3, <1>4 DEF Next

LEMMA AskedStep ==
  ASSUME TypeInv, CommandsInv, Asked, Next
  PROVE  Asked'
<1>o. ota \in OtaType /\ session \in BOOLEAN
  BY DEF TypeInv
<1>k. ASSUME UNCHANGED told, ota'.op = ota.op, ota'.filter = ota.filter
      PROVE  Asked'
  BY <1>k DEF Asked
<1>a. ASSUME NEW c, c \in pending \/ (queue # <<>> /\ c = Head(queue)), NEW ok \in BOOLEAN,
             CmdComplete(c, ok), UNCHANGED told
      PROVE  Asked'
  <2>1. c \in Cmds /\ Proper(c, ota.ops)
    BY <1>a, Underway
  <2>2. ota' = IF c.by = "ota" THEN [ota EXCEPT !.note = TRUE, !.result = ok] ELSE ota
    BY <1>a, <2>1, Completed
  <2>3. ota'.op = ota.op /\ ota'.filter = ota.filter
    BY <1>o, <2>2 DEF OtaType
  <2> QED  BY <1>a, <1>k, <2>3
<1>c. ASSUME NEW op \in {"subscribe", "publish", "unsubscribe"}, NEW f, OtaCalls(op, f),
             op = "subscribe" => f \in {"notify", "data"}
      PROVE  Asked'
  <2>1. ota'.op = op /\ ota'.filter = f
    BY <1>c, <1>o DEF OtaCalls, OtaType
  <2> QED  BY <1>c, <2>1 DEF OtaCalls, Asked
<1>t. ASSUME OtaReturns
      PROVE  Asked'
  BY <1>t, <1>o DEF OtaReturns, Asked, OtaType
<1>1. ASSUME DemoTask
      PROVE  Asked'
  <2>1. CASE DemoStarts
    BY <2>1, <1>k, <1>o DEF DemoStarts, To, OtaType
  <2>2. CASE DemoConnects
    BY <2>2, <1>k, <1>o DEF DemoConnects, CreateSocketConnection, To, OtaType
  <2>3. CASE ConnectToMQTTBroker
    BY <2>3, <1>k, <1>o DEF ConnectToMQTTBroker, MqttAgentInit, MQTTConnect, To, OtaType
  <2>4. CASE RegisterDefault
    BY <2>4, <1>k, <1>o DEF RegisterDefault, To, OtaType
  <2>5. CASE CreateAgentTask
    BY <2>5, <1>k, <1>o DEF CreateAgentTask, To, OtaType
  <2>6. CASE RunOTADemo
    BY <2>6, <1>k, <1>o DEF RunOTADemo, To, OtaType
  <2>7. CASE OtaStopped
    BY <2>7, <1>k, <1>o DEF OtaStopped, To, OtaType
  <2>8. CASE UnregisterDefault
    BY <2>8, <1>k, <1>o DEF UnregisterDefault, To, OtaType
  <2>9. CASE DisconnectFromMQTTBroker
    BY <2>9, <1>k, <1>o DEF DisconnectFromMQTTBroker, To, OtaType
  <2>10. CASE DisconnectTimesOut
    BY <2>10, <1>k, <1>o DEF DisconnectTimesOut, To, OtaType
  <2>11. CASE DemoCloses
    BY <2>11, <1>k, <1>o DEF DemoCloses, CloseTcp, To, OtaType
  <2>12. CASE CloseHttp
    BY <2>12, <1>k, <1>o DEF CloseHttp, To, OtaType
  <2>13. CASE DeleteMutex
    BY <2>13, <1>k, <1>o DEF DeleteMutex, To, OtaType
  <2> QED  BY <1>1, <2>1, <2>2, <2>3, <2>4, <2>5, <2>6, <2>7, <2>8, <2>9, <2>10, <2>11, <2>12, <2>13 DEF DemoTask
<1>2. ASSUME MQTTAgentTask
      PROVE  Asked'
  <2>1. CASE IncomingPublish
    BY <2>1, <1>k, <1>o DEF IncomingPublish, OtaType
  <2>2. CASE TakeCommand
      BY <2>2, <1>a, <1>k DEF TakeCommand
  <2>3. CASE Acknowledge
    BY <2>3, <1>k DEF Acknowledge
  <2>4. CASE StoreStatus
      BY <2>4, <1>k, <1>o DEF StoreStatus, OtaType
  <2>5. CASE NotifyTask
      BY <2>5, <1>k, <1>o DEF NotifyTask, OtaType
  <2>6. CASE TakeDisconnect
      BY <2>6, <1>a, <1>o DEF TakeDisconnect
  <2>7. CASE LoopFails
    BY <2>7, <1>k, <1>o DEF LoopFails, OtaType
  <2>8. CASE CancelAll
    BY <2>8, <1>k, <1>o DEF CancelAll, OtaType
  <2>9. CASE SuspendOTA
    BY <2>9, <1>k, <1>o DEF SuspendOTA, Signals, Fails, OtaType
  <2>10. CASE SuspendSeen
    BY <2>10, <1>k, <1>o DEF SuspendSeen, OtaType
  <2>11. CASE SuspendTimesOut
    BY <2>11, <1>k, <1>o DEF SuspendTimesOut, OtaType
  <2>12. CASE AgentCloses
    BY <2>12, <1>k, <1>o DEF AgentCloses, CloseTcp, OtaType
  <2>13. CASE AgentConnects
    BY <2>13, <1>k, <1>o DEF AgentConnects, CreateSocketConnection, OtaType
  <2>14. CASE AgentReconnects
    BY <2>14, <1>k, <1>o DEF AgentReconnects, MqttAgentInit, MQTTConnect, OtaType
  <2>15. CASE ResumeOTA
    BY <2>15, <1>k, <1>o DEF ResumeOTA, Signals, Fails, OtaType
  <2>16. CASE ResumeSeen
    BY <2>16, <1>k, <1>o DEF ResumeSeen, OtaType
  <2> QED  BY <1>2, <2>1, <2>2, <2>3, <2>4, <2>5, <2>6, <2>7, <2>8, <2>9, <2>10, <2>11, <2>12, <2>13, <2>14, <2>15, <2>16 DEF MQTTAgentTask
<1>3. ASSUME OTAAgentTask
      PROVE  Asked'
  <2>1. CASE OtaStarts
    BY <2>1, <1>k, <1>o DEF OtaStarts, OtaIdle, OtaType
  <2>2. CASE OtaSuspends
    BY <2>2, <1>k, <1>o DEF OtaSuspends, OtaHandles, OtaIdle, OtaType
  <2>3. CASE OtaResumes
    BY <2>3, <1>k, <1>o DEF OtaResumes, OtaHandles, OtaIdle, OtaType
  <2>4. CASE OtaShutsDown
      BY <2>4, <1>o DEF OtaShutsDown, Asked, OtaType
  <2>5. CASE AppCallback
    BY <2>5, <1>k, <1>o DEF AppCallback, OtaIdle, OtaType
  <2>6. CASE MqttSubscribe
      BY <2>6, <1>c DEF MqttSubscribe
  <2>7. CASE MqttPublish
      BY <2>7, <1>c DEF MqttPublish
  <2>8. CASE MqttUnsubscribe
      BY <2>8, <1>c DEF MqttUnsubscribe
  <2>9. CASE OtaNotified
      BY <2>9, <1>t DEF OtaNotified
  <2>10. CASE OtaTimesOut
      BY <2>10, <1>t DEF OtaTimesOut
  <2>11. CASE HttpInit
    BY <2>11, <1>k, <1>o DEF HttpInit, HttpCalls, OtaIdle, ConnectToS3Server, Closed, OtaType
  <2>12. CASE HttpRequest
    BY <2>12, <1>k, <1>o DEF HttpRequest, HttpCalls, OtaIdle, HandleHttpResponse, Closed, OtaType
  <2> QED  BY <1>3, <2>1, <2>2, <2>3, <2>4, <2>5, <2>6, <2>7, <2>8, <2>9, <2>10, <2>11, <2>12 DEF OTAAgentTask
<1>4. CASE LinkLost \/ Rest
  BY <1>4, <1>k DEF LinkLost, Rest, vars
<1> QED  BY <1>1, <1>2, <1>3, <1>4 DEF Next

-----------------------------------------------------------------------------
(* The turns of the MQTT agent's task and the OTA agent.                   *)

\* What a callback does to the OTA agent changes neither its state nor its operation.
LEMMA CallbackKeeps ==
  ASSUME TypeInv, CommandsInv, NEW c, c \in pending \/ (queue # <<>> /\ c = Head(queue)),
         NEW ok \in BOOLEAN, CmdComplete(c, ok)
  PROVE  /\ ota'.op = ota.op /\ ota'.filter = ota.filter /\ ota'.state = ota.state
         /\ fault' = "none" => fault = "none"
<1>1. c \in Cmds /\ Proper(c, ota.ops) /\ ota \in OtaType
  BY Underway DEF TypeInv
<1>2. /\ ota' = IF c.by = "ota" THEN [ota EXCEPT !.note = TRUE, !.result = ok] ELSE ota
      /\ fault' = IF c.live THEN fault ELSE "frame"
  BY <1>1, Completed
<1> QED  BY <1>1, <1>2 DEF OtaType

TurnsInv == Turns /\ QuietWhileReconnecting

LEMMA TurnsStep ==
  ASSUME TypeInv, CommandsInv, Staged, TurnsInv, Next
  PROVE  TurnsInv'
<1> SUFFICES ASSUME fault' = "none", ~Dead'
             PROVE  TurnsInv'
  BY DEF TurnsInv, Turns, QuietWhileReconnecting, Dead
<1>o. ota \in OtaType /\ session \in BOOLEAN /\ events \in EventSeqs
  BY DEF TypeInv
<1>k. ASSUME Running, UNCHANGED events, ota'.op = ota.op \/ ota.op # "leave",
             ota'.state = ota.state, agent' = agent
      PROVE  TurnsInv'
  BY <1>k DEF TurnsInv, Turns, QuietWhileReconnecting, Dead, OneResume, NoResume, Running
<1>q. ASSUME Running, UNCHANGED <<events, ota>>, agent \notin {"awaitResume"},
             agent' \in {"close", "connect", "mqttConnect", "resume"} =>
               \/ agent \in {"close", "connect", "mqttConnect", "resume"}
               \/ ota.state = "suspended"
      PROVE  TurnsInv'
  BY <1>q DEF TurnsInv, Turns, QuietWhileReconnecting, Dead, OneResume, NoResume, Running
<1>v. /\ events \in Seq({"suspend", "resume", "shutdown"}) /\ Len(events) \in Nat
      /\ \A e : /\ Len(Append(events, e)) = Len(events) + 1
                /\ \A i \in 1..Len(events) : Append(events, e)[i] = events[i]
                /\ Append(events, e)[Len(events) + 1] = e
      /\ events # <<>> =>
           /\ 1 \in 1..Len(events) /\ Head(events) = events[1]
           /\ \A i \in 1..Len(Tail(events)) :
                Tail(events)[i] = events[i + 1] /\ i + 1 \in 1..Len(events) /\ i + 1 # 1
  BY <1>o DEF EventSeqs
<1>e. ASSUME NEW e \in {"suspend", "shutdown"}, events' = Append(events, e)
      PROVE  (OneResume => OneResume') /\ (NoResume => NoResume')
  BY <1>e, <1>v DEF OneResume, NoResume
<1>d. ASSUME events # <<>>, events' = Tail(events)
      PROVE  (OneResume => OneResume') /\ (NoResume => NoResume')
             /\ (OneResume /\ Head(events) = "resume" => NoResume')
  BY <1>d, <1>v DEF OneResume, NoResume
<1>a. ASSUME Running, NEW c, c \in pending \/ (queue # <<>> /\ c = Head(queue)),
             NEW ok \in BOOLEAN, CmdComplete(c, ok), UNCHANGED events,
             agent' \in {agent, "cancel", "cancelLast"}, agent = "loop"
      PROVE  TurnsInv'
  <2>1. ota'.op = ota.op /\ ota'.state = ota.state
    BY <1>a, CallbackKeeps
  <2> QED  BY <1>a, <2>1 DEF TurnsInv, Turns, QuietWhileReconnecting, Dead, OneResume,
             NoResume, Running
<1>w. ASSUME Running, UNCHANGED events, ota'.op = ota.op, ota'.state = ota.state,
             agent \in {"report", "notify"}, agent' \in {"loop", "notify"}
      PROVE  TurnsInv'
  BY <1>w DEF TurnsInv, Turns, QuietWhileReconnecting, Dead, OneResume, NoResume, Running
<1>c. ASSUME NEW op \in {"subscribe", "publish", "unsubscribe"}, NEW f, OtaCalls(op, f)
      PROVE  TurnsInv'
  <2>1. ota'.op = op /\ ota'.state = ota.state /\ ota.op = "idle"
    BY <1>c, <1>o DEF OtaCalls, OtaType
  <2> QED  BY <1>c, <1>k, <2>1 DEF OtaCalls
<1>t. ASSUME OtaReturns
      PROVE  TurnsInv'
  <2>1. ota.op = "leave" => ota'.state = "stopped"
    BY <1>t, <1>o DEF OtaReturns, OtaType
  <2>2. ota.op # "leave" => ota'.state = ota.state
    BY <1>t, <1>o DEF OtaReturns, OtaType
  <2> QED  BY <1>t, <1>k, <2>1, <2>2 DEF OtaReturns, Dead
<1>1. ASSUME DemoTask
      PROVE  TurnsInv'
  <2>1. CASE DemoStarts
    BY <2>1, <1>k DEF DemoStarts, To
  <2>2. CASE DemoConnects
    BY <2>2, <1>k DEF DemoConnects, CreateSocketConnection, To
  <2>3. CASE ConnectToMQTTBroker
    BY <2>3, <1>k DEF ConnectToMQTTBroker, MqttAgentInit, MQTTConnect, To
  <2>4. CASE RegisterDefault
    BY <2>4, <1>k DEF RegisterDefault, To
  <2>5. CASE CreateAgentTask
      <3>1. agent = "none"
        BY <2>5 DEF CreateAgentTask, Staged, Early
      <3> QED  BY <2>5, <1>q, <3>1 DEF CreateAgentTask
  <2>6. CASE RunOTADemo
      <3>1. /\ events' = <<>>
            /\ agent' \in {"loop", "report", "notify", "cancel", "suspend", "awaitSuspend"}
        BY <2>6 DEF RunOTADemo, Staged
      <3> QED  BY <3>1 DEF TurnsInv, Turns, QuietWhileReconnecting, OneResume, NoResume
  <2>7. CASE OtaStopped
    BY <2>7, <1>k DEF OtaStopped, To
  <2>8. CASE UnregisterDefault
    BY <2>8, <1>k DEF UnregisterDefault, To
  <2>9. CASE DisconnectFromMQTTBroker
    BY <2>9, <1>k DEF DisconnectFromMQTTBroker, To
  <2>10. CASE DisconnectTimesOut
    BY <2>10, <1>k DEF DisconnectTimesOut, To
  <2>11. CASE DemoCloses
    BY <2>11, <1>k DEF DemoCloses, CloseTcp, To
  <2>12. CASE CloseHttp
    BY <2>12, <1>k DEF CloseHttp, To
  <2>13. CASE DeleteMutex
    BY <2>13, <1>k DEF DeleteMutex, To
  <2> QED  BY <1>1, <2>1, <2>2, <2>3, <2>4, <2>5, <2>6, <2>7, <2>8, <2>9, <2>10, <2>11, <2>12, <2>13 DEF DemoTask
<1>2. ASSUME MQTTAgentTask
      PROVE  TurnsInv'
  <2>1. CASE IncomingPublish
    BY <2>1, <1>q, <1>k DEF IncomingPublish, Fails
  <2>2. CASE TakeCommand
      BY <2>2, <1>a, <1>k DEF TakeCommand
  <2>3. CASE Acknowledge
    BY <2>3, <1>q DEF Acknowledge
  <2>4. CASE StoreStatus
      <3>1. ota'.op = ota.op /\ ota'.state = ota.state
        BY <2>4, <1>o DEF StoreStatus, OtaType
      <3> QED  BY <2>4, <1>w, <3>1 DEF StoreStatus
  <2>5. CASE NotifyTask
      <3>1. ota'.op = ota.op /\ ota'.state = ota.state
        BY <2>5, <1>o DEF NotifyTask, OtaType
      <3> QED  BY <2>5, <1>w, <3>1 DEF NotifyTask
  <2>6. CASE TakeDisconnect
      BY <2>6, <1>a, <1>o DEF TakeDisconnect
  <2>7. CASE LoopFails
    BY <2>7, <1>q, <1>k DEF LoopFails, Fails
  <2>8. CASE CancelAll
      <3>1. ota'.op = ota.op /\ ota'.state = ota.state
        BY <2>8, <1>o DEF CancelAll, OtaType
      <3> QED  BY <2>8, <3>1 DEF CancelAll, TurnsInv, Turns, QuietWhileReconnecting, Dead,
                 OneResume, NoResume, Running
  <2>9. CASE SuspendOTA
      <3>1. ota.state # "stopped" /\ events' = Append(events, "suspend") /\ ~Dead /\ Running
            /\ agent' = "awaitSuspend"
        BY <2>9 DEF SuspendOTA, Signals, Fails, Dead, Running
      <3>2. OneResume' /\ NoResume'
        BY <2>9, <1>e, <3>1 DEF SuspendOTA, TurnsInv, Turns, Running
      <3> QED  BY <3>1, <3>2 DEF TurnsInv, Turns, QuietWhileReconnecting
  <2>10. CASE SuspendSeen
    BY <2>10, <1>q, <1>k DEF SuspendSeen, Fails
  <2>11. CASE SuspendTimesOut
      BY <2>11 DEF SuspendTimesOut, Fails
  <2>12. CASE AgentCloses
    BY <2>12, <1>q, <1>k DEF AgentCloses, CloseTcp, Fails
  <2>13. CASE AgentConnects
    BY <2>13, <1>q, <1>k DEF AgentConnects, CreateSocketConnection, Fails
  <2>14. CASE AgentReconnects
    BY <2>14, <1>q, <1>k DEF AgentReconnects, MqttAgentInit, MQTTConnect, Fails
  <2>15. CASE ResumeOTA
      <3>1. /\ ota.state # "stopped" /\ events' = Append(events, "resume") /\ ~Dead /\ Running
            /\ agent = "resume" /\ agent' = "awaitResume" /\ ota' = ota
        BY <2>15 DEF ResumeOTA, Signals, Fails, Dead, Running
      <3>2. NoResume /\ ota.state = "suspended"
        BY <3>1 DEF TurnsInv, Turns, QuietWhileReconnecting, Running, Dead
      <3>3. OneResume'
        BY <1>v, <3>1, <3>2 DEF NoResume, OneResume
      <3> QED  BY <3>1, <3>2, <3>3 DEF TurnsInv, Turns, QuietWhileReconnecting
  <2>16. CASE ResumeSeen
      BY <2>16 DEF ResumeSeen, TurnsInv, Turns, QuietWhileReconnecting, Dead, OneResume, NoResume,
                Running
  <2> QED  BY <1>2, <2>1, <2>2, <2>3, <2>4, <2>5, <2>6, <2>7, <2>8, <2>9, <2>10, <2>11, <2>12, <2>13, <2>14, <2>15, <2>16 DEF MQTTAgentTask
<1>3. ASSUME OTAAgentTask
      PROVE  TurnsInv'
  <2>1. CASE OtaStarts
      <3>1. ~Dead /\ ota.state = "init" /\ Running /\ UNCHANGED <<events, agent>>
        BY <2>1 DEF OtaStarts, OtaIdle, Dead
      <3> QED  BY <3>1 DEF TurnsInv, Turns, QuietWhileReconnecting, OneResume, NoResume, Running,
                 Dead
  <2>2. CASE OtaSuspends
      <3>1. ~Dead /\ Running /\ events # <<>> /\ events' = Tail(events) /\ agent' = agent
        BY <2>2 DEF OtaSuspends, OtaHandles, OtaIdle, Dead
      <3>2. ota'.state = "suspended"
        BY <2>2, <1>o DEF OtaSuspends, OtaType
      <3> QED  BY <1>d, <3>1, <3>2 DEF TurnsInv, Turns, QuietWhileReconnecting, Running
  <2>3. CASE OtaResumes
      <3>1. /\ ~Dead /\ Running /\ events # <<>> /\ events' = Tail(events) /\ agent' = agent
            /\ Head(events) = "resume"
        BY <2>3 DEF OtaResumes, OtaHandles, OtaIdle, Dead
      <3>2. OneResume /\ ~NoResume
        BY <1>v, <3>1 DEF TurnsInv, Turns, Running, NoResume
      <3>3. agent = "awaitResume"
        BY <3>1, <3>2 DEF TurnsInv, Turns, Running
      <3>4. OneResume' /\ NoResume'
        BY <1>d, <3>1, <3>2
      <3> QED  BY <3>1, <3>3, <3>4 DEF TurnsInv, Turns, QuietWhileReconnecting
  <2>4. CASE OtaShutsDown
      <3>1. ota'.op = "leave"
        BY <2>4, <1>o DEF OtaShutsDown, OtaType
      <3> QED  BY <3>1 DEF Dead
  <2>5. CASE AppCallback
      <3>1. /\ ~Dead /\ Running /\ UNCHANGED <<agent, ota>>
            /\ events' = events \/ events' = Append(events, "shutdown")
        BY <2>5 DEF AppCallback, OtaIdle, Dead
      <3>2. (OneResume => OneResume') /\ (NoResume => NoResume')
        BY <1>e, <3>1 DEF OneResume, NoResume
      <3> QED  BY <3>1, <3>2 DEF TurnsInv, Turns, QuietWhileReconnecting, Running
  <2>6. CASE MqttSubscribe
      BY <2>6, <1>c DEF MqttSubscribe
  <2>7. CASE MqttPublish
      BY <2>7, <1>c DEF MqttPublish
  <2>8. CASE MqttUnsubscribe
      BY <2>8, <1>c DEF MqttUnsubscribe
  <2>9. CASE OtaNotified
      BY <2>9, <1>t DEF OtaNotified
  <2>10. CASE OtaTimesOut
      BY <2>10, <1>t DEF OtaTimesOut
  <2>11. CASE HttpInit
    BY <2>11, <1>k, <1>o DEF HttpInit, HttpCalls, OtaIdle, ConnectToS3Server, Closed, OtaType
  <2>12. CASE HttpRequest
    BY <2>12, <1>k, <1>o DEF HttpRequest, HttpCalls, OtaIdle, HandleHttpResponse, Closed, OtaType
  <2> QED  BY <1>3, <2>1, <2>2, <2>3, <2>4, <2>5, <2>6, <2>7, <2>8, <2>9, <2>10, <2>11, <2>12 DEF OTAAgentTask
<1>4. CASE LinkLost \/ Rest
  BY <1>4, <1>k DEF LinkLost, Rest, vars, TurnsInv, Turns, QuietWhileReconnecting, OneResume,
     NoResume, Dead
<1> QED  BY <1>1, <1>2, <1>3, <1>4 DEF Next

-----------------------------------------------------------------------------
(* The HTTP socket. No callback brings the demo back from its end, because *)
(* it waits for its command's callback or has withdrawn from it.           *)

LEMMA HttpStep ==
  ASSUME TypeInv, CommandsInv, Staged, Closing, Current, HttpSocketAccounted, Next
  PROVE  HttpSocketAccounted'
<1> SUFFICES ASSUME fault' = "none"
             PROVE  HttpSocketAccounted'
  BY DEF HttpSocketAccounted
<1>o. http \in HttpType /\ session \in BOOLEAN
  BY DEF TypeInv
<1>k. ASSUME Running, UNCHANGED http, demo' \in {"delete", "done"} <=> demo \in {"delete", "done"}
      PROVE  HttpSocketAccounted'
  BY <1>k DEF HttpSocketAccounted, Running
<1>a. ASSUME Running, NEW c, c \in pending \/ (queue # <<>> /\ c = Head(queue)),
             NEW ok \in BOOLEAN, CmdComplete(c, ok), UNCHANGED http
      PROVE  HttpSocketAccounted'
  <2>1. demo' = demo \/ (demo = "await" /\ demo' = "closeMqtt")
    <3>1. c \in Cmds /\ OfNow(c, ota, demo) /\ Proper(c, ota.ops)
      BY <1>a, Underway DEF Current, Running
    <3>3. /\ IF c.by = "ota" THEN UNCHANGED steps ELSE demo' = "closeMqtt"
          /\ c.live
      BY <1>a, <3>1, Completed
    <3>2. c.by \in {"ota", "demo"}
      BY <3>1 DEF Cmds
    <3> QED  BY <3>1, <3>2, <3>3 DEF OfNow
  <2> QED  BY <1>a, <1>k, <2>1
<1>1. ASSUME DemoTask
      PROVE  HttpSocketAccounted'
  <2>1. CASE DemoStarts
    BY <2>1, <1>k DEF DemoStarts, To, HttpSocketAccounted
  <2>2. CASE DemoConnects
    BY <2>2, <1>k DEF DemoConnects, CreateSocketConnection, To, HttpSocketAccounted
  <2>3. CASE ConnectToMQTTBroker
    BY <2>3, <1>k DEF ConnectToMQTTBroker, MqttAgentInit, MQTTConnect, To, HttpSocketAccounted
  <2>4. CASE RegisterDefault
    BY <2>4, <1>k DEF RegisterDefault, To, HttpSocketAccounted
  <2>5. CASE CreateAgentTask
    BY <2>5, <1>k DEF CreateAgentTask, To, HttpSocketAccounted
  <2>6. CASE RunOTADemo
    BY <2>6, <1>k DEF RunOTADemo, To, HttpSocketAccounted
  <2>7. CASE OtaStopped
    BY <2>7, <1>k DEF OtaStopped, To, HttpSocketAccounted
  <2>8. CASE UnregisterDefault
      <3>1. CASE inited
        BY <2>8, <1>k, <3>1 DEF UnregisterDefault, To
      <3>2. CASE ~inited
        <4>1. http.sock # "open" /\ http' = http
          BY <2>8, <3>2 DEF UnregisterDefault, Closing
        <4> QED  BY <2>8, <3>2, <4>1 DEF UnregisterDefault, To, HttpSocketAccounted
      <3> QED  BY <3>1, <3>2
  <2>9. CASE DisconnectFromMQTTBroker
    BY <2>9, <1>k DEF DisconnectFromMQTTBroker, To, HttpSocketAccounted
  <2>10. CASE DisconnectTimesOut
    BY <2>10, <1>k DEF DisconnectTimesOut, To, HttpSocketAccounted
  <2>11. CASE DemoCloses
    BY <2>11, <1>k DEF DemoCloses, CloseTcp, To, HttpSocketAccounted
  <2>12. CASE CloseHttp
      <3>1. http'.sock # "open"
        BY <2>12, <1>o DEF CloseHttp, HttpType
      <3> QED  BY <2>12, <3>1 DEF CloseHttp, To, HttpSocketAccounted
  <2>13. CASE DeleteMutex
    BY <2>13, <1>k DEF DeleteMutex, To, HttpSocketAccounted
  <2> QED  BY <1>1, <2>1, <2>2, <2>3, <2>4, <2>5, <2>6, <2>7, <2>8, <2>9, <2>10, <2>11, <2>12, <2>13 DEF DemoTask
<1>2. ASSUME MQTTAgentTask
      PROVE  HttpSocketAccounted'
  <2>1. CASE IncomingPublish
    BY <2>1, <1>k DEF IncomingPublish, Fails
  <2>2. CASE TakeCommand
      BY <2>2, <1>a, <1>k DEF TakeCommand
  <2>3. CASE Acknowledge
    BY <2>3, <1>k DEF Acknowledge
  <2>4. CASE StoreStatus
    BY <2>4, <1>k DEF StoreStatus
  <2>5. CASE NotifyTask
    BY <2>5, <1>k DEF NotifyTask
  <2>6. CASE TakeDisconnect
      BY <2>6, <1>a, <1>o DEF TakeDisconnect
  <2>7. CASE LoopFails
    BY <2>7, <1>k DEF LoopFails, Fails
  <2>8. CASE CancelAll
      <3>1. demo' = demo \/ (demo = "await" /\ demo' = "closeMqtt")
        <4>1. SUFFICES ASSUME NEW c \in Range(queue) \cup pending, c.by = "demo"
                       PROVE  demo = "await"
          BY <2>8 DEF CancelAll
        <4>2. /\ fault = "none" /\ \A d \in Range(queue) \cup pending : d.live
          BY <2>8 DEF CancelAll, Running
        <4>3. c \in pending \/ \E i \in 1..Len(queue) : c = queue[i]
          BY <4>1, Underway DEF Range
        <4>4. OfNow(c, ota, demo)
          BY <4>2, <4>3 DEF Current
        <4> QED  BY <4>1, <4>2, <4>4 DEF OfNow
      <3> QED  BY <2>8, <1>k, <3>1 DEF CancelAll
  <2>9. CASE SuspendOTA
    BY <2>9, <1>k DEF SuspendOTA, Signals, Fails
  <2>10. CASE SuspendSeen
    BY <2>10, <1>k DEF SuspendSeen, Fails
  <2>11. CASE SuspendTimesOut
    BY <2>11, <1>k DEF SuspendTimesOut, Fails
  <2>12. CASE AgentCloses
    BY <2>12, <1>k DEF AgentCloses, CloseTcp, Fails
  <2>13. CASE AgentConnects
    BY <2>13, <1>k DEF AgentConnects, CreateSocketConnection, Fails
  <2>14. CASE AgentReconnects
    BY <2>14, <1>k DEF AgentReconnects, MqttAgentInit, MQTTConnect, Fails
  <2>15. CASE ResumeOTA
    BY <2>15, <1>k DEF ResumeOTA, Signals, Fails
  <2>16. CASE ResumeSeen
    BY <2>16, <1>k DEF ResumeSeen, Fails
  <2> QED  BY <1>2, <2>1, <2>2, <2>3, <2>4, <2>5, <2>6, <2>7, <2>8, <2>9, <2>10, <2>11, <2>12, <2>13, <2>14, <2>15, <2>16 DEF MQTTAgentTask
<1>3. ASSUME OTAAgentTask
      PROVE  HttpSocketAccounted'
  <2>1. CASE OtaStarts
    BY <2>1, <1>k DEF OtaStarts, OtaIdle
  <2>2. CASE OtaSuspends
    BY <2>2, <1>k DEF OtaSuspends, OtaHandles, OtaIdle
  <2>3. CASE OtaResumes
    BY <2>3, <1>k DEF OtaResumes, OtaHandles, OtaIdle
  <2>4. CASE OtaShutsDown
    BY <2>4, <1>k DEF OtaShutsDown, OtaHandles, OtaIdle
  <2>5. CASE AppCallback
    BY <2>5, <1>k DEF AppCallback, OtaIdle
  <2>6. CASE MqttSubscribe
    BY <2>6, <1>k DEF MqttSubscribe, OtaCalls
  <2>7. CASE MqttPublish
    BY <2>7, <1>k DEF MqttPublish, OtaCalls
  <2>8. CASE MqttUnsubscribe
    BY <2>8, <1>k DEF MqttUnsubscribe, OtaCalls
  <2>9. CASE OtaNotified
    BY <2>9, <1>k DEF OtaNotified, OtaReturns
  <2>10. CASE OtaTimesOut
    BY <2>10, <1>k DEF OtaTimesOut, OtaReturns
  <2>11. CASE HttpInit
      <3>1. PICK url \in Urls : ConnectToS3Server(url) \/ http' = Closed(FALSE)
        BY <2>11 DEF HttpInit
      <3>2. Running /\ UNCHANGED demo /\ demo \notin {"delete", "done"}
        BY <2>11 DEF HttpInit, HttpCalls, OtaIdle, Closing, Late
      <3>3. CASE ConnectToS3Server(url)
        BY <3>2, <3>3 DEF ConnectToS3Server, HttpSocketAccounted
      <3>4. CASE http' = Closed(FALSE)
        BY <1>o, <3>2, <3>4 DEF Closed, HttpSocketAccounted, HttpType, Running
      <3> QED  BY <3>1, <3>3, <3>4
  <2>12. CASE HttpRequest
      <3>1. http' = http \/ http' = Closed(FALSE)
        BY <2>12 DEF HttpRequest, HandleHttpResponse
      <3>2. Running /\ UNCHANGED demo /\ demo \notin {"delete", "done"}
        BY <2>12 DEF HttpRequest, HttpCalls, OtaIdle, Closing, Late
      <3> QED  BY <1>o, <3>1, <3>2 DEF Closed, HttpSocketAccounted, HttpType, Running
  <2> QED  BY <1>3, <2>1, <2>2, <2>3, <2>4, <2>5, <2>6, <2>7, <2>8, <2>9, <2>10, <2>11, <2>12 DEF OTAAgentTask
<1>4. CASE LinkLost \/ Rest
  BY <1>4 DEF LinkLost, Rest, vars, HttpSocketAccounted
<1> QED  BY <1>1, <1>2, <1>3, <1>4 DEF Next

-----------------------------------------------------------------------------
(* What is told is subscribed. The table of the demos has ten places, the  *)
(* subscriptions there can be take four.                                   *)

ResultThere ==
  fault = "none" /\ ota.result /\ ota.op = "subscribe" => \E s \in list : s[1] = ota.filter
ToldListed ==
  fault = "none" /\ ~Dead => \A f \in told : \E s \in list : s[1] = f

DispatchInv == ResultThere /\ ToldListed /\ passed <= 1

LEMMA PassedOnce ==
  ASSUME NEW topic \in {"notify", "accepted", "data"}, list \subseteq Pairs
  PROVE  Cardinality(HandleIncomingPublishes(topic)) <= 1
<1> DEFINE one == CASE topic = "notify" -> <<"notify", "job">>
                    [] topic = "accepted" -> <<"default", "default">>
                    [] topic = "data" -> <<"data", "data">>
<1>1. ASSUME NEW s \in HandleIncomingPublishes(topic)
      PROVE  s = one
  <2>1. s \in Pairs /\ Matches(topic, s[1]) /\ Passes(s[2], topic)
    BY DEF HandleIncomingPublishes
  <2> QED  BY <2>1 DEF Pairs, Matches, Passes
<1> HIDE DEF one
<1>2. HandleIncomingPublishes(topic) \subseteq {one}
  BY <1>1
<1>3. IsFiniteSet({one}) /\ Cardinality({one}) = 1
  BY FS_Singleton
<1> QED  BY <1>2, <1>3, FS_Subset

\* Between the steps of the callback that has subscribed a topic, its pair is in the list.
AckedThere ==
  fault = "none" /\ agent \in {"report", "notify"} =>
    \A c \in pending : c.id = acked /\ c.op = "subscribe" => \E s \in list : s[1] = c.filter

LEMMA AckedStep ==
  ASSUME TypeInv, CommandsInv, Staged, AckedThere, MaxSubs >= 4, Next
  PROVE  AckedThere'
<1> SUFFICES ASSUME fault' = "none", agent' \in {"report", "notify"}
             PROVE  AckedThere'
  BY DEF AckedThere
<1>k. ASSUME Running, UNCHANGED <<pending, list, acked, agent>>
      PROVE  AckedThere'
  BY <1>k DEF AckedThere, Running
<1>f. ASSUME Running, NEW by, Forgotten(by), UNCHANGED <<list, acked, agent>>
      PROVE  AckedThere'
  <2>1. ASSUME NEW c \in pending', c.id = acked, c.op = "subscribe"
        PROVE  \E s \in list : s[1] = c.filter
    <3>1. PICK d \in pending : c = Forget(d, by)
      BY <1>f, <2>1 DEF Forgotten, Forget
    <3>2. d.id = c.id /\ d.op = c.op /\ d.filter = c.filter
      BY <3>1, ForgetsOnly, Underway
    <3> QED  BY <1>f, <2>1, <3>2 DEF AckedThere, Running
  <2> QED  BY <1>f, <2>1 DEF AckedThere
<1>1. ASSUME DemoTask
      PROVE  AckedThere'
  <2>1. CASE DemoStarts
    BY <2>1, <1>k DEF DemoStarts
  <2>2. CASE DemoConnects
    BY <2>2, <1>k DEF DemoConnects, CreateSocketConnection
  <2>3. CASE ConnectToMQTTBroker
      <3>1. agent = "none" /\ agent' = agent
        BY <2>3 DEF ConnectToMQTTBroker, Staged, Early
      <3> QED  BY <3>1
  <2>4. CASE RegisterDefault
      <3>1. agent = "none" /\ agent' = agent
        BY <2>4 DEF RegisterDefault, Staged, Early
      <3> QED  BY <3>1
  <2>5. CASE CreateAgentTask
      <3>1. agent = "none"
        BY <2>5 DEF CreateAgentTask, Staged, Early
      <3> QED  BY <2>5, <3>1 DEF CreateAgentTask
  <2>6. CASE RunOTADemo
    BY <2>6, <1>k DEF RunOTADemo
  <2>7. CASE OtaStopped
    BY <2>7, <1>k DEF OtaStopped
  <2>8. CASE UnregisterDefault
      <3>1. list' = {s \in list : s[1] # "default"} /\ UNCHANGED <<pending, acked, agent>> /\ Running
        BY <2>8 DEF UnregisterDefault, RemoveSubscription
      <3>2. ASSUME NEW c \in pending, c.id = acked, c.op = "subscribe"
            PROVE  \E s \in list' : s[1] = c.filter
        <4>1. c.filter \in {"notify", "data"}
          BY <3>2, Underway DEF Proper
        <4> QED  BY <3>1, <3>2, <4>1 DEF AckedThere, Running
      <3> QED  BY <3>1, <3>2 DEF AckedThere
  <2>9. CASE DisconnectFromMQTTBroker
    BY <2>9, <1>k DEF DisconnectFromMQTTBroker, SendCommand, Fails
  <2>10. CASE DisconnectTimesOut
    BY <2>10, <1>f DEF DisconnectTimesOut
  <2>11. CASE DemoCloses
    BY <2>11, <1>k DEF DemoCloses, CloseTcp
  <2>12. CASE CloseHttp
    BY <2>12, <1>k DEF CloseHttp
  <2>13. CASE DeleteMutex
    BY <2>13, <1>k DEF DeleteMutex
  <2> QED  BY <1>1, <2>1, <2>2, <2>3, <2>4, <2>5, <2>6, <2>7, <2>8, <2>9, <2>10, <2>11, <2>12, <2>13 DEF DemoTask
<1>2. ASSUME MQTTAgentTask
      PROVE  AckedThere'
  <2>1. CASE IncomingPublish
    BY <2>1 DEF IncomingPublish, Fails
  <2>2. CASE TakeCommand
    BY <2>2 DEF TakeCommand
  <2>3. CASE Acknowledge
      <3>1. PICK c \in pending : Registers(c) /\ acked' = c.id
        BY <2>3 DEF Acknowledge
      <3>2. pending' = pending
        BY <2>3 DEF Acknowledge
      <3>3. /\ c \in Cmds /\ Proper(c, ota.ops) /\ c.by = "ota"
            /\ \A d \in pending : d.id = c.id => d = c
        BY <3>1 DEF CommandsInv, PendingOK
      <3>4. c.op = "subscribe" => \E s \in list' : s[1] = c.filter
        BY <3>1, <3>3, ListChanged
      <3> QED  BY <3>1, <3>2, <3>3, <3>4 DEF AckedThere
  <2>4. CASE StoreStatus
    BY <2>4 DEF StoreStatus, AckedThere, Running
  <2>5. CASE NotifyTask
    BY <2>5 DEF NotifyTask, Fails
  <2>6. CASE TakeDisconnect
    BY <2>6 DEF TakeDisconnect
  <2>7. CASE LoopFails
    BY <2>7 DEF LoopFails, Fails
  <2>8. CASE CancelAll
    BY <2>8 DEF CancelAll
  <2>9. CASE SuspendOTA
    BY <2>9 DEF SuspendOTA, Signals, Fails
  <2>10. CASE SuspendSeen
    BY <2>10 DEF SuspendSeen, Fails
  <2>11. CASE SuspendTimesOut
    BY <2>11 DEF SuspendTimesOut, Fails
  <2>12. CASE AgentCloses
    BY <2>12 DEF AgentCloses, CloseTcp, Fails
  <2>13. CASE AgentConnects
    BY <2>13 DEF AgentConnects, CreateSocketConnection, Fails
  <2>14. CASE AgentReconnects
    BY <2>14 DEF AgentReconnects, MqttAgentInit, MQTTConnect, Fails
  <2>15. CASE ResumeOTA
    BY <2>15 DEF ResumeOTA, Signals, Fails
  <2>16. CASE ResumeSeen
    BY <2>16 DEF ResumeSeen, Fails
  <2> QED  BY <1>2, <2>1, <2>2, <2>3, <2>4, <2>5, <2>6, <2>7, <2>8, <2>9, <2>10, <2>11, <2>12, <2>13, <2>14, <2>15, <2>16 DEF MQTTAgentTask
<1>3. ASSUME OTAAgentTask
      PROVE  AckedThere'
  <2>1. CASE OtaStarts
    BY <2>1, <1>k DEF OtaStarts, OtaIdle
  <2>2. CASE OtaSuspends
    BY <2>2, <1>k DEF OtaSuspends, OtaHandles, OtaIdle
  <2>3. CASE OtaResumes
    BY <2>3, <1>k DEF OtaResumes, OtaHandles, OtaIdle
  <2>4. CASE OtaShutsDown
    BY <2>4, <1>k DEF OtaShutsDown, OtaHandles, OtaIdle, SendCommand, Fails
  <2>5. CASE AppCallback
    BY <2>5, <1>k DEF AppCallback, OtaIdle
  <2>6. CASE MqttSubscribe
    BY <2>6, <1>k DEF MqttSubscribe, OtaCalls, SendCommand, Fails
  <2>7. CASE MqttPublish
    BY <2>7, <1>k DEF MqttPublish, OtaCalls, SendCommand, Fails
  <2>8. CASE MqttUnsubscribe
    BY <2>8, <1>k DEF MqttUnsubscribe, OtaCalls, SendCommand, Fails
  <2>9. CASE OtaNotified
    BY <2>9, <1>f DEF OtaNotified, OtaReturns
  <2>10. CASE OtaTimesOut
    BY <2>10, <1>f DEF OtaTimesOut, OtaReturns
  <2>11. CASE HttpInit
    BY <2>11, <1>k DEF HttpInit, HttpCalls, OtaIdle
  <2>12. CASE HttpRequest
    BY <2>12, <1>k DEF HttpRequest, HttpCalls, OtaIdle
  <2> QED  BY <1>3, <2>1, <2>2, <2>3, <2>4, <2>5, <2>6, <2>7, <2>8, <2>9, <2>10, <2>11, <2>12 DEF OTAAgentTask
<1>4. CASE LinkLost \/ Rest
  BY <1>4, <1>k DEF LinkLost, Rest, vars, Running
<1> QED  BY <1>1, <1>2, <1>3, <1>4 DEF Next

LEMMA DispatchStep ==
  ASSUME TypeInv, CommandsInv, Staged, Current, Asked, AckedThere, DispatchInv, Next
  PROVE  DispatchInv'
<1>o. /\ ota \in OtaType /\ session \in BOOLEAN /\ list \subseteq Pairs
      /\ Cardinality(list) <= MaxSubs /\ told \subseteq {"notify", "data"}
  BY DEF TypeInv
<1>m. ASSUME Running, passed' <= 1, list \subseteq list',
             ota'.state = ota.state, ota'.result => ota.result,
             \/ ota'.op = ota.op /\ ota'.filter = ota.filter
             \/ ota.op # "leave" /\ ota'.op # "subscribe",
             told' \subseteq told
      PROVE  DispatchInv'
  BY <1>m DEF DispatchInv, ResultThere, ToldListed, Dead, Running
<1>k. ASSUME Running, passed' <= 1, UNCHANGED <<told, ota>>, list \subseteq list'
      PROVE  DispatchInv'
  BY <1>k, <1>m
<1>p. ASSUME passed' = passed
      PROVE  passed' <= 1
  BY <1>p DEF DispatchInv
<1>a. ASSUME Running, queue # <<>>, NEW ok \in BOOLEAN, CmdComplete(Head(queue), ok),
             ~ok \/ Head(queue).op = "disconnect", UNCHANGED <<told, list, passed>>
      PROVE  DispatchInv'
  <2> SUFFICES ASSUME fault' = "none"
               PROVE  DispatchInv'
    BY <1>a, <1>p DEF DispatchInv, ResultThere, ToldListed
  <2>1. /\ ota'.op = ota.op /\ ota'.filter = ota.filter /\ ota'.state = ota.state
        /\ ota'.result = IF Head(queue).by = "ota" THEN ok ELSE ota.result
        /\ Head(queue).by = "demo" <=> Head(queue).op = "disconnect"
    BY <1>a, Concluded DEF Proper
  <2>2. ota'.result => ota.result
    BY <1>a, <2>1
  <2> QED  BY <1>a, <1>m, <1>p, <2>1, <2>2
<1>c. ASSUME NEW op \in {"subscribe", "publish", "unsubscribe"}, NEW f, OtaCalls(op, f)
      PROVE  DispatchInv'
  <2>1. /\ ota'.op = op /\ ota'.state = ota.state /\ ota.op = "idle" /\ ~ota'.result
        /\ Running /\ UNCHANGED <<list, passed>> /\ told' \subseteq told
    BY <1>c, <1>o DEF OtaCalls, OtaType
  <2> QED  BY <1>p, <2>1 DEF DispatchInv, ResultThere, ToldListed, Dead, Running
<1>t. ASSUME OtaReturns
      PROVE  DispatchInv'
  <2>1. /\ ota'.op = "idle" /\ Running /\ UNCHANGED <<list, passed>>
        /\ ota'.state = IF ota.op = "leave" THEN "stopped" ELSE ota.state
        /\ told' = IF ota.result /\ ota.op = "subscribe" THEN told \cup {ota.filter} ELSE told
    BY <1>t, <1>o DEF OtaReturns, OtaType
  <2> QED  BY <1>p, <2>1 DEF DispatchInv, ResultThere, ToldListed, Dead, Running
<1>1. ASSUME DemoTask
      PROVE  DispatchInv'
  <2>1. CASE DemoStarts
    BY <2>1, <1>k, <1>p DEF DemoStarts, To
  <2>2. CASE DemoConnects
    BY <2>2, <1>k, <1>p DEF DemoConnects, CreateSocketConnection, To
  <2>3. CASE ConnectToMQTTBroker
    BY <2>3, <1>k, <1>p DEF ConnectToMQTTBroker, MqttAgentInit, MQTTConnect, To
  <2>4. CASE RegisterDefault
      <3>1. list \subseteq list'
        BY <2>4, <1>o, Registered DEF RegisterDefault, Filters
      <3> QED  BY <2>4, <1>k, <1>p, <3>1 DEF RegisterDefault
  <2>5. CASE CreateAgentTask
    BY <2>5, <1>k, <1>p DEF CreateAgentTask, To
  <2>6. CASE RunOTADemo
      <3>1. /\ told' = {} /\ ota'.op = "idle" /\ passed' = passed
        BY <2>6, <1>o DEF RunOTADemo, Staged, OtaType
      <3> QED  BY <1>p, <3>1 DEF DispatchInv, ResultThere, ToldListed
  <2>7. CASE OtaStopped
    BY <2>7, <1>k, <1>p DEF OtaStopped, To
  <2>8. CASE UnregisterDefault
      <3>1. /\ list' = {s \in list : s[1] # "default"} /\ UNCHANGED <<told, ota, passed>>
            /\ Running
        BY <2>8 DEF UnregisterDefault, RemoveSubscription
      <3>2. \A f \in {"notify", "data"} : (\E s \in list : s[1] = f) => \E s \in list' : s[1] = f
        BY <3>1
      <3>3. ResultThere'
        BY <3>1, <3>2 DEF DispatchInv, ResultThere, Asked, Running
      <3>4. ToldListed'
        BY <1>o, <3>1, <3>2 DEF DispatchInv, ToldListed, Running, Dead
      <3> QED  BY <1>p, <3>1, <3>3, <3>4 DEF DispatchInv
  <2>9. CASE DisconnectFromMQTTBroker
    BY <2>9, <1>k, <1>p DEF DisconnectFromMQTTBroker, To
  <2>10. CASE DisconnectTimesOut
    BY <2>10, <1>k, <1>p DEF DisconnectTimesOut, To
  <2>11. CASE DemoCloses
    BY <2>11, <1>k, <1>p DEF DemoCloses, CloseTcp, To
  <2>12. CASE CloseHttp
    BY <2>12, <1>k, <1>p DEF CloseHttp, To
  <2>13. CASE DeleteMutex
    BY <2>13, <1>k, <1>p DEF DeleteMutex, To
  <2> QED  BY <1>1, <2>1, <2>2, <2>3, <2>4, <2>5, <2>6, <2>7, <2>8, <2>9, <2>10, <2>11, <2>12, <2>13 DEF DemoTask
<1>2. ASSUME MQTTAgentTask
      PROVE  DispatchInv'
  <2>1. CASE IncomingPublish
      <3>1. passed' <= 1
        BY <2>1, <1>o, PassedOnce DEF IncomingPublish
      <3> QED  BY <2>1, <1>k, <3>1 DEF IncomingPublish
  <2>2. CASE TakeCommand
      <3>1. CASE session
        BY <2>2, <1>k, <1>p, <3>1 DEF TakeCommand
      <3>2. CASE ~session
        BY <2>2, <1>a, <3>2 DEF TakeCommand
      <3> QED  BY <3>1, <3>2
  <2>3. CASE Acknowledge
      <3>1. PICK c \in pending : Registers(c) /\ fault' = IF c.live THEN fault ELSE "frame"
        BY <2>3 DEF Acknowledge
      <3>2. Running /\ UNCHANGED <<ota, told, passed>>
        BY <2>3 DEF Acknowledge
      <3>3. /\ c \in Cmds /\ Proper(c, ota.ops) /\ c.by = "ota"
            /\ fault' = "none" => c.op = ota.op /\ c.filter = ota.filter
        BY <3>1, <3>2, Underway DEF Current, OfNow, Running
      <3>4. /\ c.op \in {"subscribe", "publish"} => list \subseteq list'
            /\ list \ {s \in list : s[1] = c.filter} \subseteq list'
        BY <3>1, <3>3, ListChanged
      <3>5. c.op \in OtaOps
        BY <3>3 DEF Cmds, Proper
      <3>6. ASSUME fault' = "none", ota.result, ota.op = "subscribe"
            PROVE  \E s \in list' : s[1] = ota.filter
        BY <3>2, <3>3, <3>4, <3>6 DEF DispatchInv, ResultThere, Running
      <3>7. ASSUME fault' = "none", ~Dead, NEW f \in told
            PROVE  \E s \in list' : s[1] = f
        <4>1. PICK s \in list : s[1] = f
          BY <3>2, <3>7 DEF DispatchInv, ToldListed, Running
        <4>2. c.op = "unsubscribe" => c.filter # f
          BY <3>3, <3>7 DEF Asked
        <4>3. c.op # "leave"
          BY <3>3, <3>7 DEF Dead
        <4> QED  BY <3>4, <3>5, <4>1, <4>2, <4>3 DEF OtaOps
      <3> QED  BY <1>p, <3>2, <3>6, <3>7 DEF DispatchInv, ResultThere, ToldListed, Dead
  <2>4. CASE StoreStatus
      <3>1. PICK c \in pending : c.id = acked /\ fault' = IF c.live THEN fault ELSE "frame"
        BY <2>4 DEF StoreStatus
      <3>2. /\ Running /\ UNCHANGED <<list, told, passed>> /\ agent = "report"
            /\ ota'.op = ota.op /\ ota'.filter = ota.filter /\ ota'.state = ota.state
        BY <2>4, <1>o DEF StoreStatus, OtaType
      <3>3. ASSUME fault' = "none", ota.op = "subscribe"
            PROVE  \E s \in list : s[1] = ota.filter
        <4>1. c.op = ota.op /\ c.filter = ota.filter
          BY <3>1, <3>2, <3>3, Underway DEF Current, OfNow, Running
        <4> QED  BY <3>1, <3>2, <3>3, <4>1 DEF AckedThere, Running
      <3> QED  BY <1>p, <3>2, <3>3 DEF DispatchInv, ResultThere, ToldListed, Dead, Running
  <2>5. CASE NotifyTask
      <3>1. /\ ota'.op = ota.op /\ ota'.filter = ota.filter /\ ota'.state = ota.state
            /\ ota'.result = ota.result
        BY <2>5, <1>o DEF NotifyTask, OtaType
      <3> QED  BY <2>5, <1>m, <1>p, <3>1 DEF NotifyTask
  <2>6. CASE TakeDisconnect
      BY <2>6, <1>a, <1>o DEF TakeDisconnect
  <2>7. CASE LoopFails
    BY <2>7, <1>k, <1>p DEF LoopFails, Fails
  <2>8. CASE CancelAll
      <3>1. /\ ota'.op = ota.op /\ ota'.filter = ota.filter /\ ota'.state = ota.state
            /\ ota'.result = ota.result
        BY <2>8, <1>o DEF CancelAll, OtaType
      <3> QED  BY <2>8, <1>m, <1>p, <3>1 DEF CancelAll
  <2>9. CASE SuspendOTA
    BY <2>9, <1>k, <1>p DEF SuspendOTA, Signals, Fails
  <2>10. CASE SuspendSeen
    BY <2>10, <1>k, <1>p DEF SuspendSeen, Fails
  <2>11. CASE SuspendTimesOut
    BY <2>11, <1>k, <1>p DEF SuspendTimesOut, Fails
  <2>12. CASE AgentCloses
    BY <2>12, <1>k, <1>p DEF AgentCloses, CloseTcp, Fails
  <2>13. CASE AgentConnects
    BY <2>13, <1>k, <1>p DEF AgentConnects, CreateSocketConnection, Fails
  <2>14. CASE AgentReconnects
    BY <2>14, <1>k, <1>p DEF AgentReconnects, MqttAgentInit, MQTTConnect, Fails
  <2>15. CASE ResumeOTA
    BY <2>15, <1>k, <1>p DEF ResumeOTA, Signals, Fails
  <2>16. CASE ResumeSeen
    BY <2>16, <1>k, <1>p DEF ResumeSeen, Fails
  <2> QED  BY <1>2, <2>1, <2>2, <2>3, <2>4, <2>5, <2>6, <2>7, <2>8, <2>9, <2>10, <2>11, <2>12, <2>13, <2>14, <2>15, <2>16 DEF MQTTAgentTask
<1>3. ASSUME OTAAgentTask
      PROVE  DispatchInv'
  <2>1. CASE OtaStarts
      <3>1. /\ ota'.op = "idle" /\ ~Dead /\ Running /\ UNCHANGED <<list, told, passed>>
        BY <2>1, <1>o DEF OtaStarts, OtaIdle, OtaType, Dead
      <3> QED  BY <1>p, <3>1 DEF DispatchInv, ResultThere, ToldListed, Running
  <2>2. CASE OtaSuspends
      <3>1. /\ ota'.op = "idle" /\ ~Dead /\ Running /\ UNCHANGED <<list, told, passed>>
        BY <2>2, <1>o DEF OtaSuspends, OtaHandles, OtaIdle, OtaType, Dead
      <3> QED  BY <1>p, <3>1 DEF DispatchInv, ResultThere, ToldListed, Running
  <2>3. CASE OtaResumes
      <3>1. /\ ota'.op = "idle" /\ ~Dead /\ Running /\ UNCHANGED <<list, told, passed>>
        BY <2>3, <1>o DEF OtaResumes, OtaHandles, OtaIdle, OtaType, Dead
      <3> QED  BY <1>p, <3>1 DEF DispatchInv, ResultThere, ToldListed, Running
  <2>4. CASE OtaShutsDown
      <3>1. ota'.op = "leave" /\ passed' = passed
        BY <2>4, <1>o DEF OtaShutsDown, OtaType
      <3> QED  BY <1>p, <3>1 DEF DispatchInv, ResultThere, ToldListed, Dead
  <2>5. CASE AppCallback
    BY <2>5, <1>k, <1>p DEF AppCallback, OtaIdle
  <2>6. CASE MqttSubscribe
      BY <2>6, <1>c DEF MqttSubscribe
  <2>7. CASE MqttPublish
      BY <2>7, <1>c DEF MqttPublish
  <2>8. CASE MqttUnsubscribe
      BY <2>8, <1>c DEF MqttUnsubscribe
  <2>9. CASE OtaNotified
      BY <2>9, <1>t DEF OtaNotified
  <2>10. CASE OtaTimesOut
      BY <2>10, <1>t DEF OtaTimesOut
  <2>11. CASE HttpInit
      <3>1. /\ ota'.op = ota.op /\ ota'.filter = ota.filter /\ ota'.state = ota.state
            /\ ota'.result = ota.result /\ Running /\ UNCHANGED <<list, told, passed>>
        BY <2>11, <1>o DEF HttpInit, HttpCalls, OtaIdle, OtaType
      <3> QED  BY <1>m, <1>p, <3>1
  <2>12. CASE HttpRequest
      <3>1. /\ ota'.op = ota.op /\ ota'.filter = ota.filter /\ ota'.state = ota.state
            /\ ota'.result = ota.result /\ Running /\ UNCHANGED <<list, told, passed>>
        BY <2>12, <1>o DEF HttpRequest, HttpCalls, OtaIdle, OtaType
      <3> QED  BY <1>m, <1>p, <3>1
  <2> QED  BY <1>3, <2>1, <2>2, <2>3, <2>4, <2>5, <2>6, <2>7, <2>8, <2>9, <2>10, <2>11, <2>12 DEF OTAAgentTask
<1>4. CASE LinkLost \/ Rest
  BY <1>4 DEF LinkLost, Rest, vars, DispatchInv, ResultThere, ToldListed, Dead
<1> QED  BY <1>1, <1>2, <1>3, <1>4 DEF Next

-----------------------------------------------------------------------------
(* The theorems.                                                           *)

LEMMA InitOK ==
  ASSUME Init
  PROVE  IInv /\ DispatchInv /\ AckedThere
<1>1. TypeInv
  <2>1. ota \in OtaType
    BY DEF Init, OtaType
  <2>2. list = {} /\ Cardinality(list) = 0 /\ 0 <= MaxSubs
    BY FS_EmptySet, OtaDemoAssumption DEF Init
  <2>3. events \in EventSeqs
    BY DEF Init, EventSeqs
  <2>4. http \in HttpType
    BY DEF Init, HttpType
  <2> QED  BY <2>1, <2>2, <2>3, <2>4 DEF Init, TypeInv
<1>2. CommandsInv
  <2>1. IsFiniteSet({}) /\ Cardinality({}) = 0 /\ Len(<<>>) = 0 /\ <<>> \in Seq(Cmds)
    BY FS_EmptySet
  <2>2. QueueOK(queue, ota.ops) /\ PendingOK(pending, ota.ops) /\ Apart(queue, pending)
    BY <2>1 DEF Init, QueueOK, PendingOK, Apart
  <2>3. CountsOK /\ CommandsAccounted
    BY <1>1, <2>1, OtaDemoAssumption DEF Init, CountsOK, CommandsAccounted, TypeInv
  <2> QED  BY <2>2, <2>3 DEF CommandsInv
<1>3. Staged /\ Closing /\ Current /\ Asked /\ Turns
  BY DEF Init, Staged, Closing, Early, Late, Current, Asked, Turns, Dead
<1>4. QuietWhileReconnecting /\ HttpSocketAccounted
  BY DEF Init, QuietWhileReconnecting, HttpSocketAccounted
<1>5. DispatchInv /\ AckedThere
  BY DEF Init, DispatchInv, ResultThere, ToldListed, AckedThere
<1> QED  BY <1>1, <1>2, <1>3, <1>4, <1>5 DEF IInv

LEMMA StutterOK ==
  ASSUME UNCHANGED vars
  PROVE  (IInv => IInv') /\ (DispatchInv => DispatchInv') /\ (AckedThere => AckedThere')
BY DEF vars, IInv, TypeInv, CommandsInv, CountsOK, CommandsAccounted, Staged, Closing, Current,
       OfNow, Asked, AckedThere, Turns, OneResume, NoResume, Dead, QuietWhileReconnecting, HttpSocketAccounted,
       DispatchInv, ResultThere, ToldListed

LEMMA Invariant == Spec => []IInv
<1>1. Init => IInv
  BY InitOK
<1>2. IInv /\ [Next]_vars => IInv'
  <2> SUFFICES ASSUME IInv, [Next]_vars
               PROVE  IInv'
    OBVIOUS
  <2>1. CASE Next
    <3>1. TypeInv' /\ Staged' /\ Closing' /\ Current' /\ Asked'
      BY <2>1, TypesStep, StagedStep, ClosingStep, CurrentStep, AskedStep DEF IInv
    <3>2. CommandsInv'
      BY <2>1, <3>1, CommandsStep DEF IInv
    <3>3. Turns' /\ QuietWhileReconnecting'
      BY <2>1, TurnsStep DEF IInv, TurnsInv
    <3>4. HttpSocketAccounted'
      BY <2>1, HttpStep DEF IInv
    <3> QED  BY <3>1, <3>2, <3>3, <3>4 DEF IInv
  <2>2. CASE UNCHANGED vars
    BY <2>2, StutterOK
  <2> QED  BY <2>1, <2>2
<1> QED  BY <1>1, <1>2, PTL DEF Spec

\* No command structure is lost or used twice, for every size of the pool and whatever
\* times out, is cancelled or is overtaken by a reconnection: each is in the pool, in the
\* queue, awaiting its acknowledgment, or was in the queue when prvMqttAgentInit made that
\* anew. (MQTTAgent_CommandLoop, MQTTAgent_CancelAll, the completion callbacks)
THEOREM CommandsStayAccounted == Spec => []CommandsAccounted
<1>1. IInv => CommandsAccounted
  BY DEF IInv, CommandsInv
<1> QED  BY <1>1, Invariant, PTL

\* While prvMQTTAgentTask closes the connection and makes it again, the OTA agent is
\* suspended, has stopped or is leaving, unless an assertion has failed before.
THEOREM AgentQuiet == Spec => []QuietWhileReconnecting
<1>1. IInv => QuietWhileReconnecting
  BY DEF IInv
<1> QED  BY <1>1, Invariant, PTL

\* xHttpConnectionStatus says whether the HTTP socket is open, and at the demo's end none
\* is, until a socket is closed twice or used when closed, as after a reconnection that
\* failed. (prvHttpInit, prvHttpRequest, RunOtaCoreHttpDemo)
THEOREM SocketStaysAccounted == Spec => []HttpSocketAccounted
<1>1. IInv => HttpSocketAccounted
  BY DEF IInv
<1> QED  BY <1>1, Invariant, PTL

\* With room for the four subscriptions there can be (the demos have ten places), what
\* the OTA agent was told is subscribed is passed on to it, and nothing twice.
\* (SubscriptionManager_HandleIncomingPublishes, prvMQTTSubscribeCompleteCallback)
THEOREM DispatchedAlways ==
  ASSUME MaxSubs >= 4
  PROVE  Spec => []DispatchedOnce
<1>1. Init => IInv /\ DispatchInv /\ AckedThere
  BY InitOK
<1>2. IInv /\ DispatchInv /\ AckedThere /\ [Next]_vars => DispatchInv' /\ AckedThere'
  BY DispatchStep, AckedStep, StutterOK DEF IInv
<1>3. DispatchInv => DispatchedOnce
  BY DEF DispatchInv, ToldListed, DispatchedOnce, Dead
<1> QED  BY <1>1, <1>2, <1>3, Invariant, PTL DEF Spec

-----------------------------------------------------------------------------
(* The rest of the types.                                                  *)

Scalars ==
  /\ kind \in Kinds /\ agent \in {"none", "loop", "report", "notify", "cancel", "cancelLast",
       "suspend", "awaitSuspend", "close", "connect", "mqttConnect", "resume", "awaitResume",
       "gone"}
  /\ status \in BOOLEAN /\ inited \in BOOLEAN /\ session \in BOOLEAN /\ prepared \in BOOLEAN
  /\ mutex \in {"none", "alive", "deleted"} /\ tcp \in {"none", "open", "stale"}
  /\ attempts \in 0..RetryMax /\ losses \in 0..MaxLosses
  /\ fault \in {"none", "assert", "frame", "closed", "mutex"}

LEMMA ScalarsStep ==
  ASSUME TypeInv, CommandsInv, Scalars, Next
  PROVE  Scalars'
<1>b. RetryMax \in Nat /\ MaxLosses \in Nat
  BY OtaDemoAssumption
<1>o. session \in BOOLEAN
  BY DEF TypeInv
<1>a. ASSUME NEW c, c \in pending \/ (queue # <<>> /\ c = Head(queue)), NEW ok \in BOOLEAN,
             CmdComplete(c, ok)
      PROVE  UNCHANGED <<status, inited, mutex>> /\ fault' \in {fault, "frame"}
  <2>1. c \in Cmds /\ Proper(c, ota.ops)
    BY <1>a, Underway
  <2>2. /\ fault' = IF c.live THEN fault ELSE "frame"
        /\ IF c.by = "ota" THEN UNCHANGED steps
           ELSE demo' = "closeMqtt" /\ UNCHANGED <<status, inited, mutex>>
    BY <1>a, <2>1, Completed
  <2> QED  BY <2>2
<1>s. ASSUME NEW c, SendCommand(c)
      PROVE  fault' \in {fault, "assert"}
  BY <1>s DEF SendCommand, Fails
<1>1. ASSUME DemoTask
      PROVE  Scalars'
  <2>1. CASE DemoStarts
    BY <2>1, <1>b, <1>s DEF DemoStarts, To, Scalars, Fails
  <2>2. CASE DemoConnects
      <3>1. /\ UNCHANGED <<kind, inited, mutex, agent, session, losses, prepared, fault>>
            /\ tcp' \in {tcp, "open"}
        BY <2>2 DEF DemoConnects, CreateSocketConnection
      <3>3. status' \in BOOLEAN
        BY <2>2, Zenon DEF DemoConnects, CreateSocketConnection, Scalars
      <3>2. attempts' \in 0..RetryMax
        BY <2>2, <1>b DEF DemoConnects, CreateSocketConnection, Scalars
      <3> QED  BY <3>1, <3>2, <3>3 DEF Scalars
  <2>3. CASE ConnectToMQTTBroker
    BY <2>3, <1>b, <1>s DEF ConnectToMQTTBroker, MqttAgentInit, MQTTConnect, To, Scalars, Fails
  <2>4. CASE RegisterDefault
    BY <2>4, <1>b, <1>s DEF RegisterDefault, To, Scalars, Fails
  <2>5. CASE CreateAgentTask
    BY <2>5, <1>b, <1>s DEF CreateAgentTask, To, Scalars, Fails
  <2>6. CASE RunOTADemo
      <3>1. UNCHANGED <<kind, inited, mutex, agent, attempts, conn, prepared, fault>>
        BY <2>6 DEF RunOTADemo
      <3>2. status' \in BOOLEAN
        BY <2>6, Zenon DEF RunOTADemo, Scalars
      <3> QED  BY <3>1, <3>2 DEF Scalars
  <2>7. CASE OtaStopped
    BY <2>7, <1>b, <1>s DEF OtaStopped, To, Scalars, Fails
  <2>8. CASE UnregisterDefault
    BY <2>8, <1>b, <1>s DEF UnregisterDefault, To, Scalars, Fails
  <2>9. CASE DisconnectFromMQTTBroker
    BY <2>9, <1>b, <1>s DEF DisconnectFromMQTTBroker, To, Scalars, Fails
  <2>10. CASE DisconnectTimesOut
    BY <2>10, <1>b, <1>s DEF DisconnectTimesOut, To, Scalars, Fails
  <2>11. CASE DemoCloses
    BY <2>11, <1>b, <1>s DEF DemoCloses, CloseTcp, To, Scalars, Fails
  <2>12. CASE CloseHttp
    BY <2>12, <1>b, <1>s DEF CloseHttp, To, Scalars, Fails
  <2>13. CASE DeleteMutex
    BY <2>13, <1>b, <1>s DEF DeleteMutex, To, Scalars, Fails
  <2> QED  BY <1>1, <2>1, <2>2, <2>3, <2>4, <2>5, <2>6, <2>7, <2>8, <2>9, <2>10, <2>11, <2>12, <2>13 DEF DemoTask
<1>2. ASSUME MQTTAgentTask
      PROVE  Scalars'
  <2>1. CASE IncomingPublish
    BY <2>1, <1>b DEF IncomingPublish, Scalars, Fails, TakeMutex
  <2>2. CASE TakeCommand
      BY <2>2, <1>a DEF TakeCommand, Scalars
  <2>3. CASE Acknowledge
    BY <2>3, <1>b DEF Acknowledge, Scalars
  <2>4. CASE StoreStatus
    BY <2>4, <1>b DEF StoreStatus, Scalars
  <2>5. CASE NotifyTask
    BY <2>5, <1>b DEF NotifyTask, Scalars
  <2>6. CASE TakeDisconnect
      BY <2>6, <1>a, <1>o DEF TakeDisconnect, Scalars
  <2>7. CASE LoopFails
    BY <2>7, <1>b DEF LoopFails, Scalars, Fails, TakeMutex
  <2>8. CASE CancelAll
    BY <2>8, <1>b DEF CancelAll, Scalars, Fails, TakeMutex
  <2>9. CASE SuspendOTA
    BY <2>9, <1>b DEF SuspendOTA, Signals, Scalars, Fails, TakeMutex
  <2>10. CASE SuspendSeen
    BY <2>10, <1>b DEF SuspendSeen, Scalars, Fails, TakeMutex
  <2>11. CASE SuspendTimesOut
    BY <2>11, <1>b DEF SuspendTimesOut, Scalars, Fails, TakeMutex
  <2>12. CASE AgentCloses
    BY <2>12, <1>b DEF AgentCloses, CloseTcp, Scalars, Fails, TakeMutex
  <2>13. CASE AgentConnects
    BY <2>13, <1>b DEF AgentConnects, CreateSocketConnection, Scalars, Fails, TakeMutex
  <2>14. CASE AgentReconnects
    BY <2>14, <1>b DEF AgentReconnects, MqttAgentInit, MQTTConnect, Scalars, Fails, TakeMutex
  <2>15. CASE ResumeOTA
    BY <2>15, <1>b DEF ResumeOTA, Signals, Scalars, Fails, TakeMutex
  <2>16. CASE ResumeSeen
    BY <2>16, <1>b DEF ResumeSeen, Scalars, Fails, TakeMutex
  <2> QED  BY <1>2, <2>1, <2>2, <2>3, <2>4, <2>5, <2>6, <2>7, <2>8, <2>9, <2>10, <2>11, <2>12, <2>13, <2>14, <2>15, <2>16 DEF MQTTAgentTask
<1>3. ASSUME OTAAgentTask
      PROVE  Scalars'
  <2>1. CASE OtaStarts
    BY <2>1, <1>b, <1>s DEF OtaStarts, OtaIdle, Scalars, Fails, TakeMutex
  <2>2. CASE OtaSuspends
    BY <2>2, <1>b, <1>s DEF OtaSuspends, OtaHandles, OtaIdle, Scalars, Fails, TakeMutex
  <2>3. CASE OtaResumes
    BY <2>3, <1>b, <1>s DEF OtaResumes, OtaHandles, OtaIdle, Scalars, Fails, TakeMutex
  <2>4. CASE OtaShutsDown
    BY <2>4, <1>b, <1>s DEF OtaShutsDown, OtaHandles, OtaIdle, Scalars, Fails, TakeMutex
  <2>5. CASE AppCallback
    BY <2>5, <1>b, <1>s DEF AppCallback, OtaIdle, Scalars, Fails, TakeMutex
  <2>6. CASE MqttSubscribe
    BY <2>6, <1>b, <1>s DEF MqttSubscribe, OtaCalls, Scalars, Fails, TakeMutex
  <2>7. CASE MqttPublish
    BY <2>7, <1>b, <1>s DEF MqttPublish, OtaCalls, Scalars, Fails, TakeMutex
  <2>8. CASE MqttUnsubscribe
    BY <2>8, <1>b, <1>s DEF MqttUnsubscribe, OtaCalls, Scalars, Fails, TakeMutex
  <2>9. CASE OtaNotified
    BY <2>9, <1>b, <1>s DEF OtaNotified, OtaReturns, Scalars, Fails, TakeMutex
  <2>10. CASE OtaTimesOut
    BY <2>10, <1>b, <1>s DEF OtaTimesOut, OtaReturns, Scalars, Fails, TakeMutex
  <2>11. CASE HttpInit
    BY <2>11, <1>b, <1>s DEF HttpInit, HttpCalls, OtaIdle, ConnectToS3Server, Closed, Scalars, Fails, TakeMutex
  <2>12. CASE HttpRequest
    BY <2>12, <1>b, <1>s DEF HttpRequest, HttpCalls, OtaIdle, HandleHttpResponse, Closed, Scalars, Fails, TakeMutex
  <2> QED  BY <1>3, <2>1, <2>2, <2>3, <2>4, <2>5, <2>6, <2>7, <2>8, <2>9, <2>10, <2>11, <2>12 DEF OTAAgentTask
<1>4. CASE LinkLost
  <2>1. UNCHANGED <<kind, steps, agent, attempts, tcp, prepared, fault>> /\ session' \in BOOLEAN
    BY <1>4 DEF LinkLost
  <2>2. losses' \in 0..MaxLosses
    BY <1>4, <1>b DEF LinkLost, Scalars
  <2> QED  BY <2>1, <2>2 DEF Scalars
<1>5. CASE Rest
  BY <1>5 DEF Rest, vars, Scalars
<1> QED  BY <1>1, <1>2, <1>3, <1>4, <1>5 DEF Next

\* Every variable keeps its type, the pool its size and the table of subscriptions its:
\* for every number of places in each.
THEOREM TypeCorrect == Spec => []TypeOK
<1>1. Init => Scalars
  <2> SUFFICES ASSUME Init
               PROVE  Scalars
    OBVIOUS
  <2>1. attempts \in 0..RetryMax /\ losses \in 0..MaxLosses
    BY OtaDemoAssumption DEF Init
  <2> QED  BY <2>1 DEF Init, Scalars
<1>2. IInv /\ Scalars /\ [Next]_vars => Scalars'
  BY ScalarsStep DEF IInv, vars, Scalars
<1>3. IInv /\ Scalars => TypeOK
  <2> SUFFICES ASSUME IInv, Scalars
               PROVE  TypeOK
    OBVIOUS
  <2>1. free \in 0..PoolSize
    BY Numbers, OtaDemoAssumption DEF IInv
  <2>2. list \subseteq Filters \X {"job", "data", "default"} /\ Cardinality(list) <= MaxSubs
    BY DEF IInv, TypeInv, Pairs, Filters
  <2>3. /\ told \subseteq Filters /\ acked \in Nat
        /\ ota.state \in {"stopped", "init", "ready", "suspended"}
        /\ http.flag \in BOOLEAN /\ http.sock \in {"none", "open", "stale"}
    BY DEF IInv, TypeInv, OtaType, HttpType, Filters
  <2>4. Range(events) \subseteq {"suspend", "resume", "shutdown"}
    BY DEF IInv, TypeInv, EventSeqs, Range
  <2> QED  BY <2>1, <2>2, <2>3, <2>4 DEF Scalars, TypeOK
<1> QED  BY <1>1, <1>2, <1>3, Invariant, PTL DEF Spec
====
