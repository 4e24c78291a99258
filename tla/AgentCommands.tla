---------------------------- MODULE AgentCommands ----------------------------
(***************************************************************************)
(* The two structures that the tasks of the coreMQTT Agent demo share. A   *)
(* command is a structure of a fixed pool (freertos_command_pool.c) that   *)
(* travels through a queue (freertos_agent_message.c) and goes back to the *)
(* pool when the command is concluded. The subscription list               *)
(* (subscription_manager.c) tells whose callback a publish is for; a topic *)
(* filter is named by the task that subscribes to it.                      *)
(***************************************************************************)
EXTENDS Naturals, Sequences, Functions
LOCAL INSTANCE FiniteSetsExt

CONSTANTS
  NoTask,
  PoolSize          \* MQTT_COMMAND_CONTEXTS_POOL_SIZE

VARIABLES
  free,         \* the queue of free command structures
  cmd,          \* what each structure holds
  queue,        \* xCommandQueue
  pending,      \* commands that wait for an acknowledgment
  subs          \* xGlobalSubscriptionList

pool == <<free, cmd, queue, pending>>

Commands == 1..PoolSize
Elements(s) == {s[i] : i \in DOMAIN s}

-----------------------------------------------------------------------------
\* Agent_InitializePool fills the pool on its first call only.
InitializedPool(first) == IF first THEN [i \in 1..PoolSize |-> i] ELSE free

\* Mutant of Send: the structure stays in the pool's queue.
PeekSend(content) ==
  /\ free # <<>>
  /\ cmd' = [cmd EXCEPT ![Head(free)] = content]
  /\ queue' = Append(queue, Head(free))
  /\ UNCHANGED <<free, pending>>

\* Agent_GetCommand and Agent_MessageSend: the command queue is at least as
\* long as the pool, so that a command that was got can be sent.
Send(content) ==
  /\ free # <<>>
  /\ cmd' = [cmd EXCEPT ![Head(free)] = content]
  /\ queue' = Append(queue, Head(free))
  /\ free' = Tail(free)
  /\ UNCHANGED pending

\* Agent_GetCommand found none within its block time.
NoCommand == free = <<>> /\ UNCHANGED pool

\* Agent_ReleaseCommand
Released(c) == Append(free, c)

\* Mutant of AddSubscription: the list is filled from its first free cell, and
\* looked through only up to there.
AddAtFirstGap(list, t) ==
  LET unused == {i \in DOMAIN list : list[i] = NoTask}
      cell   == Min(unused)
  IN  IF unused = {} \/ \E i \in 1..(cell - 1) : list[i] = t THEN list
      ELSE [list EXCEPT ![cell] = t]

\* addSubscription goes through the list from its end: scan[k] is the free cell
\* it has come across last among the last k cells, Len(list) + 1 before the first
\* one, and 0 from where it has found the filter on. The demo enters all its filters
\* with the same callback and context, so that a filter alone makes a duplicate.
AddSubscription(list, t) ==
  LET scan[k \in 0..Len(list)] ==
        IF k = 0 THEN Len(list) + 1
        ELSE LET i == Len(list) - k + 1
             IN  CASE scan[k - 1] # 0 /\ list[i] = NoTask -> i
                   [] scan[k - 1] # 0 /\ list[i] = t      -> 0
                   [] OTHER                               -> scan[k - 1]
      cell == scan[Len(list)]
  IN  IF cell \in DOMAIN list THEN [list EXCEPT ![cell] = t] ELSE list

\* removeSubscription, of each of these filters.
RemoveSubscription(list, filters) ==
  [i \in DOMAIN list |-> IF list[i] \in filters THEN NoTask ELSE list[i]]

-----------------------------------------------------------------------------
\* A command structure is free, queued or waiting for its acknowledgment, and
\* never two of them: the pool has room for each one released, as the assertion
\* of Agent_ReleaseCommand wants, even when a second run of the demo makes the
\* queue anew while the agent task of the first is still there.
CommandsDistinct ==
  /\ IsInjective(free) /\ IsInjective(queue)
  /\ Elements(free) \cap Elements(queue) = {}
  /\ pending \cap (Elements(free) \cup Elements(queue)) = {}

\* "A single context-callback pair may only be associated to the same topic filter
\* once" (subscription_manager.h): addSubscription looks at the cells behind the
\* gap it fills, which the removal of refused filters has left, so that in the
\* next run, too, no publish is handled twice.
SubscriptionsOnce ==
  \A i, j \in DOMAIN subs : subs[i] = subs[j] /\ subs[i] # NoTask => i = j
=============================================================================
