# Formal verification of the Ameba AWS IoT solution

This directory holds TLA+ specifications of the stateful parts of this
repository, the TLC configurations that check them on small instances, and
TLAPS proofs of their main invariants for every instance.

The repository is Realtek's AWS IoT solution for the Ameba boards: a patched
copy of the AWS OTA agent, the ports of the AWS abstraction layers (flash,
sockets, PKCS #11, Wi-Fi), the FreeRTOS c_sdk libraries, and demos. There are no
unit tests; comments and headers are the only statements of intent.

## 1. Inventory

| Component | Source | State | Operations | Interacts with | Module |
|---|---|---|---|---|---|
| OTA agent | `ports/patches/ota_for_aws/ota.c` | state, active job, image state, file context (bitmap, blocks remaining, self-test flag), momentum, event queue, two timers | one handler per event of the transition table; `OTA_Init`, `OTA_Shutdown`, `OTA_Suspend`, `OTA_Resume`, `OTA_CheckForUpdate`, `OTA_SetImageState`, `OTA_SignalEvent` | the MQTT task (events), the timers, the platform layer, the application callback, the IoT Jobs service | `OtaAgent`, `OtaFile` |
| OTA demos over MQTT and HTTP | `demos/ota/ota_demo_core_mqtt`, `ota_demo_core_http` | event buffers, MQTT and HTTP connection, command pool and queue, topic filters | connect, command loop, suspend and resume around a reconnection, the OTA interface's subscribe, publish, unsubscribe and download calls, the end of the demo | the agent, coreMQTT Agent, the transport | `OtaDemo`; the buffers and job events in `OtaAgent` |
| OTA platform layer | `ports/ota/aws_ota_ameba.c`, `ota_pal.c` | update slot, header, held back signature, counted length, image state word | create, write block, close, abort, activate, get/set image state, reset | the agent, the boot loader | `UpdateFlash` |
| Task pool | `libraries/common/c_sdk/.../iot_taskpool.c` | job statuses, dispatch queue, timer list, job cache, thread and job counters, two semaphores | create, destroy, schedule, schedule deferred, cancel, recycle, set maximum, worker, timer thread | user callbacks, FreeRTOS timers | `TaskPool`, `PoolJobs` |
| MQTT agent command pool, coreMQTT Agent demo, subscription manager | `abstractions/mqtt_agent`, `demos/coreMQTT_Agent` | free and queued command structures, subscription list, task notifications | get, release, send, receive; connect, resume, resubscribe; subscribe, publish, wait for the acknowledgment | coreMQTT Agent, demo runner | `MqttAgentDemo`, `AgentCommands` |
| MQTT, shadow, jobs and defender demos | `demos/coreMQTT`, `demos/device_shadow_for_aws`, `demos/jobs_for_aws`, `demos/device_defender_for_aws`, `demos/common/mqtt_demo_helpers` | connection, session, publish slots, identifiers awaited, the demos' globals | scripts with retries; callbacks that run within the process loop | coreMQTT | `MqttDemos`, `DefenderReport` |
| Network manager and demo runner | `demos/network_manager`, `demos/demo_runner` | state of each network, event queue, subscription, two mutexes, the runner's semaphore and network | enable, disable, event, dispatch, callback, wait, clean up | BLE, Wi-Fi port, c_sdk | `NetworkManager` |
| Secure sockets, TLS, transport, network interface | `ports/secure_sockets`, `freertos_plus/standard/tls`, `abstractions/transport`, `abstractions/platform/freertos/iot_network_freertos.c` | socket count, TLS context and session, connection flags, receive task | open, options, connect, send, receive, close, destroy | lwIP, mbedTLS, PKCS #11 | `SecureConnection` |
| Key provisioning and PKCS #11 storage | `demos/dev_mode_key_provisioning`, `ports/pkcs11/core_pkcs11_pal.c` | one flash sector per object | destroy, create, find, read, generate | corePKCS11, flash | `Provisioning` |
| OTA over MQTT streams demo | `demos/ota/ota_demo_mqtt_streams`, `aws_ota_streams_ameba.c` | a second OTA loop: job fields, blocks remaining, data buffers | job and block handlers, a queue of events | MQTT agent, platform layer | not modelled |
| Threads, clock and timers; Wi-Fi port | `abstractions/platform/freertos`, `ports/wifi` | timers; the driver's own | thin wrappers | FreeRTOS, Realtek's driver | as far as their callers use them |
| Static memory, logging, metrics, vendored parsers, coreHTTP demo | various | none that others read | formatting, parsing, three requests in a row | | not modelled |

What makes each of them hard:

* **OTA agent.** Its handlers are sequential, but between two of them the MQTT
  task, two timers and the application add events to a bounded queue, so every
  handler can meet events meant for an earlier state. Handlers fail half-way
  (the broker is gone, the flash does not answer, the queue is full). Power can
  be lost at any point and only the flash and the service remember. It is
  correct when the file in flash is what the bookkeeping says, a file that passes
  its check is one job's own, only a verified image is activated, what is reported to the service
  is true, buffers are neither leaked nor used after release, and no download
  hangs.
* **OTA demos.** Three tasks share one connection. A command outlives the wait of
  the task that sent it; the command's context is on that task's stack. A
  reconnection suspends and resumes the agent from another task, with bounded
  waits and assertions. They are correct when no command structure is lost, no
  context is used after its frame, the agent is quiet while the connection is
  made again, and the demo returns.
* **Platform layer.** Blocks come in any order, the first one carries the header
  that places the others, and the signature must not be in flash before
  everything else is. Power may be lost between any two flash operations.
* **Task pool.** Workers, callers and the timer thread share counters under a
  lock but wait on semaphores outside it; a pool is correct when no job is lost
  or run twice, counters are what they count, and destruction ends.
* **coreMQTT Agent demo.** A fixed pool of command structures travels through a
  queue whose reader may have given up, or be the reader of an earlier run.
* **MQTT demos.** Acknowledgments and messages arrive late, in any order or
  never; the jobs demo publishes from within a callback, and so runs the process
  loop inside the loop.
* **Network manager.** The runner looks at the networks and then waits, while
  events arrive; callbacks run under one mutex and take another.
* **Secure connection.** Every step of a connection may fail and must give back
  what was taken; the receive task, its callback and the application close and
  destroy the same connection.
* **Provisioning.** Objects are written word by word and power is lost between
  words; a key pair is two objects.

`PROJECT.json` lists every component with its status and every hazard at its
line.

## 2. Modules

| Module | Models |
|---|---|
| `OtaAgent`, `MCOtaAgent` | the agent, the demo's MQTT task and callbacks, timers, flash, service, loss of power |
| `OtaFile` | what an update promises: the abstract life of the update slot |
| `OtaAgentProofs` | types and buffers, integrity of a download, that it cannot fall asleep, that `OtaAgent` implements `OtaFile`, the self-test and its verdict |
| `OtaDemo`, `MCOtaDemo`, `OtaDemoProofs` | the two OTA demos around the agent: three tasks, one connection, the commands |
| `UpdateFlash`, `MCUpdateFlash`, `UpdateFlashProofs` | the platform layer, one flash operation at a time |
| `TaskPool`, `MCTaskPool` | the task pool: application, workers, timer thread |
| `PoolJobs` | what a pool promises: the jobs that are due, deferred and running |
| `TaskPoolProofs` | the counters, the wake-ups, the lists, the end of a pool, that `TaskPool` implements `PoolJobs` |
| `AgentCommands` | the pool of command structures, the command queue and the subscription list |
| `MqttAgentDemo`, `MCMqttAgentDemo` | the coreMQTT Agent demo around them: agent task, demo tasks, runner |
| `MqttDemos`, `DefenderReport`, `MCMqttDemos` | mutual authentication, shadow, jobs and defender demos; the defender's report |
| `MqttProofs` | the four demos and the report for every size; the commands and subscriptions of the coreMQTT Agent demo |
| `NetworkManager`, `MCNetworkManager`, `NetworkManagerProofs` | the network manager with the demo runner |
| `SecureConnection`, `MCSecureConnection`, `SecureConnectionProofs` | a connection from the application to the socket |
| `Provisioning`, `MCProvisioning`, `ProvisioningProofs` | credentials and their flash sectors |

Composition: `OtaAgent` implements `OtaFile` and `TaskPool` implements `PoolJobs`,
each by a refinement mapping. `MqttDemos` extends `DefenderReport`, `MqttAgentDemo`
extends `AgentCommands`. `MqttProofs` extends `MqttDemos` and instantiates
`MqttAgentDemo` as `Agent`, so that one module holds the proofs about both. `OtaDemo` and `OtaAgent` meet at the OTA
agent: the first reduces it to its state and its calls, the second has the whole
agent and reduces the demo to suspending, reconnecting and resuming.
`UpdateFlash` likewise looks closely at what `OtaAgent` takes for one step.

### OtaAgent

The agent's loop is `Receive` (`os.event.recv`, an event moves to `cur`)
followed by `ExecuteHandler`. They are two steps because the other tasks run in
between: a handler may find that the queue has filled since it was woken. Every
handler is one action, with all it changes in the agent, the flash, the
service's view, the timers and the queue. Its guard is `Takes(event, states)`,
the rows of `otaTransitionTable`; `Done(ok, next)` is `executeHandler`, which
moves to the table's next state only when the handler returned `OtaErrNone`.
Events without a row are `HandleUnexpectedEvents`.

| Variable | Code |
|---|---|
| `state`, `activeJob`, `imageState`, `momentum`, `toReceive` | fields of `otaAgent` |
| `cur`, `queue` | the event in hand and the OS queue behind `os.event` |
| `fileOpen`, `bitmap`, `remaining`, `selfTestDoc`, `updaterOld` | `otaAgent.fileContext`: `pFile`, `pRxBlockBitmap`, `blocksRemaining`, `isInSelfTest`, `updaterVersion` |
| `reqTimer`, `selfTestTimer` | the two OS timers |
| `platState`, `slot`, `booted` | flash: the image state word, the update slot, the running image |
| `streamJob`, `requested` | the subscribed stream, blocks the service may still send |
| `buffers` | `bufferUsed` of the demo's event buffers, as a count |
| `conn` | where the MQTT agent task is in its loop: up, suspending, waiting, reconnecting, arming the timers, resuming, halted by an assertion |
| `jobStatus` | what the service believes of each job |

Job documents are abstracted to the kinds the parser tells apart
(`Kinds`): a firmware, a plain file, a malformed document, an empty file, a file
above the size limit, or no job at all; and to the two fields that decide, the
self-test key and whether the updater's version is older. Blocks are model
values; a block that fails to decode is `BadBlock`. `Faults` names the external
calls that may fail, the start of the request timer among them: every failing call
is a disjunct of its handler.

A reset (`ResetDevice`) clears RAM and keeps flash and service. It is what
activation, a rejected self-test, the self-test timer and `PowerLoss` do.

The service is modelled from how the agent uses it: it offers the job that is
in progress, else a queued one, answers block requests in any order, may repeat
or damage a block, and ignores updates of a job that is over.

### OtaFile

Four actions over the update slot: `Create` (for one job, empty), `Store` (one
missing block), `GiveUp`, `Verify` (the last block, the signature matches, and
the image may be installed). The refinement mapping reads the phase from
`fileOpen` and the slot's verified mark, the blocks from the slot and the
installed image from flash.

### OtaDemo

`demo` walks through `RunOtaCoreHttpDemo` and its MQTT twin, `agent` through
`prvMQTTAgentTask`, `ota.op` is the operation in which the OTA agent's task
waits for a command. A command is a record in `queue` (`xCommandQueue`) or
`pending` (sent, waits for its acknowledgment); `free` counts the pool.
`live` turns false when the task that waited for it has timed out and left the
stack frame its context is in: a callback that runs then sets `fault` to
`"frame"`, as the code writes into that frame. `"assert"` is a failed
`configASSERT`, `"closed"` a socket closed twice and `"mutex"` a semaphore used
after it was deleted; the model stops there, and the properties say what holds
up to that point. `lost` counts commands that were still queued when a
reconnection creates the queue anew. `list` and `told` are the topic filters
with a callback and those the agent was told it has. The callback of an
acknowledged command is three steps, between which the task that waits may run:
`Acknowledge` enters or removes the filter, `StoreStatus` writes the result into the
context, `NotifyTask` wakes the task; `acked` is the command it is called for. A
callback called with a failure leaves the list alone and is one step. `Suspend` and
resume fail when the agent has stopped, or when its queue takes no event. The agent's
unsubscribing is one command for all its topics: its MQTT code (`ota_mqtt.c`) is in a
submodule. `http` has `xHttpConnectionStatus` and the socket, whose handle is zero
until the first connection. `GetUrlAddress` and `GetUrlPath` are
`http_demo_utils.c`; `MCOtaDemo` compares them over all short URLs.

### UpdateFlash

Flash is an array of cells; cell 0 is the signature or manifest that makes the
slot bootable. A call of the platform layer (`CreateFileForRx`, `WriteBlock`,
`CloseFile`, `ActivateNewImage`, `SetPlatformImageState`, `Abort`) decides
what to do and leaves its flash operations in `todo`; `FlashOperation` does
them one by one and `PowerLoss` may come before each. `Programmed` mixes what
is written with what was not erased. `header` says how `aws_ota_target_hdr` was
got: from block 0, from block 0 after others, or guessed. Block 0 is written whole, the others
up to the length of the image; that block 0 ends in the image is an assumption
(`FlashAssumption`). The three families of
chips differ as their branches do: AmebaD and the other newer ones erase the slot
when the file is created and count what they write, and AmebaD refuses an image
that is not newer than its own; AmebaZ2 only notes the address, erases before the
first block since the boot (`firstTime`) and checks all of the file.

### TaskPool

Every operation of `iot_taskpool.c` does its work inside one critical section,
so each is one action guarded by `Free` (the lock is not held and the pool
exists). The exception is `_scheduleInternal` when the pool grows: it waits for
the new thread's post while it holds the lock. That wait is visible: `lock` and
`grow` keep the holder and its job until `FinishGrow`, and only the new thread's
`Start`, which needs no lock, can end it.

A worker goes round `waiting` (on `dispatchSignal`), `woken` or `timedOut`, then
under the lock either leaves, takes a job (`executing`) or waits again;
`returned` is the inner loop, which takes the next job without a post. A worker
marked dead (`running` is false) has already been counted out and leaves after
its job. The pool's owner is a process of its own: `creating`, `readying`,
`running`, `stopping`, `destroyed`, and `failing` when a thread cannot be made.
The timer task is idle, called (its callback waits for the lock) or dispatching.

| Variable | Code |
|---|---|
| `maxThreads`, `activeThreads`, `activeJobs` | fields of `_taskPool_t`; `maxThreads = 0` is the exit condition |
| `dispatchSignal`, `startStopSignal` | the two semaphores' counts |
| `status`, `queue`, `cache` | the jobs' statuses, `dispatchQueue`, `jobsCache` |
| `timerEvents`, `expired` | `timerEventsList` in order, and how many of its events are due |
| `timerArmed`, `timerThread` | the FreeRTOS timer and its callback |
| `worker` | where each thread is in `_taskPoolWorker` |
| `phase`, `awaited`, `completeShutdown`, `freed` | the locals of `_createTaskPool` and `IotTaskPool_Destroy`, and whether the memory is gone |

Expiration times are abstracted to an order and a number of due events: a new
event goes anywhere behind the due ones, which is what a sorted insertion of any
time in the future can do. The application uses jobs as the header asks: it does
not create a job over one that is scheduled, and does not use a job it recycled.

### PoolJobs

Whoever schedules a job sees of a pool four things: the jobs that may run now
(`due`), those that are to run later (`deferred`), what each worker runs, and
whether the pool still takes jobs (`open`). A job runs at most once for each time
it was asked for, not before its time and not after it was withdrawn, and none
begins once the pool is being destroyed. (That it runs at all is `JobsRun`.) In `TaskPool` the due jobs are
those with the status `SCHEDULED` and those whose event is among the due ones of
the timer list (`Due`), the deferred ones the other ones with the status
`DEFERRED` (`Later`), and a worker runs its job while it is `executing`
(`Running`). The pool is closed as soon as `maxThreads` is 0. A job that waits
for a thread of its own under the lock (`grow`), a post of a semaphore or a move
from the timer list to the queue is no step of `PoolJobs`.

### MqttAgentDemo

`AgentCommands` has the structures, the queue and the subscription list;
`MqttAgentDemo` what the tasks do with them.

`pc[0]` is the runner that connects first, `pc[p]` the agent task of run `p`;
an agent task of an earlier run may still be there when the next one starts.
`free`, `queue` and `pending` hold the command structures by number, `cmd` what
each holds. Demo tasks (`taskPc`) subscribe and publish and wait with a timeout
for the notification `note`; an answer that comes later runs
`LateCallback` over a frame that is gone, which may notify with the old value
and may set `fault`. A notification is a value that the next one overwrites; a
structure that a new queue makes unreachable is emptied, since nobody reads it.
`subs` is `xGlobalSubscriptionList` with its gaps: a refused subscription takes its
filter out of the list, and `AddSubscription` scans the list from its end as
`addSubscription` does, noting a free cell and going on to look for the filter.
`RunDemo` starts the agent task, which may fail, and the demo tasks, which may
fail unless `TasksCreated`.

### MqttDemos

Each demo is a script of steps (`Script`); `at` and `phase` say how far it has
come, `status` whether a step has failed, and most steps are then skipped. A
helper that waits runs the process loop: `ReceiveAck`, `ReceivePublish`,
`LoopTimedOut` and `LoopFailed` are what an iteration may do, on what the broker
still owes (`owed`). `stack` holds the jobs whose documents are being handled,
since a handler's publish runs the loop again. `notes` are the globals of the
running demo. `DefenderReport` builds the report from the metrics piece by piece
as `report_builder.c` does, and is compared with the sum of its parts.

### NetworkManager

`op` is who holds `globalMutex` and which networks are still to be switched,
`dispatcher` who holds `subscriptionsMutex`. `net` is what the manager believes,
`link` what is true. The runner goes through `_initialize`, the demo and
`_cleanup`; its callback runs in the manager's task. Only BLE reports events:
the Wi-Fi port stores the handlers of its events and never calls them, so a lost
access point is noticed by nobody. `fault` is `"assert"` when the driver finds the event queue
full and `"semaphore"` when the callback posts a semaphore that a failed
`_initialize` has destroyed.

### SecureConnection

`heap` is the set of things a connection has allocated, `session` the PKCS #11
session its TLS context names: `prvFreeContext` closes it each time it is called,
and the handle stays, so that it can be `"reclosed"`. The application's task
(`pc`) connects through the transport interface or through the network
interface with its receive task (`rx`); each call may fail and the next one
decides what is freed. The callback may close the connection whatever the
application is doing with it (`CallbackCloses`), and then destroy it
(`CallbackDestroys`); `iot_network.h` forbids any call on a connection that has been
destroyed, so an application that is sending or closing keeps its connection. Bytes
are numbered in the order the peer sends them: `buffered` is the one read ahead and
`delivered` the sequence that the callback has got. `HandOut` is what the callback is
given when it asks for what is read ahead. `fault` is `"freed"` when one task frees
the mbedTLS context while the other is inside it, and `"assert"` when an assertion
fails: the receive task's, that its callback has taken the byte read ahead, or that
of `IotNetworkAfr_Destroy`, that the receive task has left, which also fails when
that task could not be created and the callback was left set. The model stops at
either.

### Provisioning

A sector holds an object and how many of its `Whole` words have been written:
mark, checksum, length, data. `WriteWord` writes one, `Reset` may come between
two and starts the same or another image. `pc` walks through
`vAlternateKeyProvisioning` and `xProvisionDevice`. Sizes of certificates are
those the sector tells apart: one that fits, one whose terminator falls into
the next sector and erases its mark, and one that is too large, for which a
handle is returned although nothing is written.

## 3. What the runs check

| Run | Result | Shows |
|---|---|---|
| `ota_download` | holds | `DownloadAccounting`: bitmap, counter and flash agree while the file is open; `DownloadAwake`: an active download always has a timer or an event to go on with; `BuffersHeld`: no event uses a released buffer; `SelfTestWatched`: while the platform is in self-test and the session has set no image state, the watchdog timer is armed, except while a lost connection has it stopped; `FileSpec`: refinement of `OtaFile` |
| `ota_jobs` | holds | `VerifiedOwn`: what is verified holds every block of its own job and no other's, although a queued block may be written into the next job's file; `SucceededEarned`: a file job is reported succeeded by its own verified file, any job by a self-test that was announced, on a platform in self-test or on a verified file |
| `ota_liveness` | holds | `DownloadEnds`: a download gets its blocks or runs out of momentum; `Resumes`: a lost connection is suspended and resumed |
| `ota_demo` | holds | `CommandsAccounted`: a command structure is in one place, or was queued when the queue was made anew; `DispatchedOnce`: what the agent was told is subscribed is passed on to it, once, though the callback registers, stores and notifies in three steps; `QuietWhileReconnecting`: while the connection is made again the agent is suspended, has stopped, or is leaving; `HttpSocketAccounted`: the flag says whether the HTTP socket is open, and none is open at the end, up to a socket closed twice; `DemoReturns` |
| `update_flash` | holds | `NeverBootPartial`: a slot the boot loader would take holds one whole image; `CompleteFileVerifies`: a file whose blocks have all come passes the signature check, in whatever order they came; `VerifiedStays`: a verified image is still there when it is activated |
| `task_pool` | holds | `JobsLinked`: a job's status says which list holds it; `ThreadsCounted`: the thread counter and the minimum; `NoLostWakeup`: each queued job has a post or a woken worker; `ShutdownClean`: what `IotTaskPool_Destroy` asserts; `JobsRun`, `DestroyFrees`: liveness |
| `task_pool_destroy_race` | violated | `PoolOutlivesUsers`: the timer thread frees the pool while it is being destroyed |
| `mqtt_agent` | holds | `CommandsDistinct`: a command structure is free, queued or pending, never two of them, also across two runs; `SubscriptionsOnce`: the scan of the list enters no filter twice, whatever gaps it has; `DemoEnds`, when the demo tasks could be created |
| `mqtt_demos` | holds | `SocketsSettled`: the shadow and the defender demo close no handle twice and leave open only what `MQTT_Connect` failed on, the other two leave nothing open; `SuccessMeansAccepted`: the defender demo succeeds only when the report of its last run was accepted; `ReportExact`: the report is made exactly when it fits; `DemoEnds` |
| `network` | holds | `NoLostWakeup`: a demo that waits has a reason to; `StateCurrent`: the manager's state of BLE is the connection's once all events are taken, and the callback is told what the event was; `CleanupEnds`: the two mutexes do not block each other |
| `secure_connection` | holds | `SocketsAccounted`: sockets, memory and sessions are given back on every path; `UsersOwn`: who begins to work on a connection finds it there, its TLS context included; `NoByteLost`: the callback gets every byte once and in order, the one read ahead in its turn, but for the last one of a connection being closed; `CloseReturns` |
| `provisioning` | holds | `ProvidedStored`: what the image brought is in the token, whole; `PairMatches`: the two halves of a generated pair match; `ProvisioningEnds` |

### What does not hold

`task_pool_destroy_race` is a disagreement of a comment and the code:
`IotTaskPool_Destroy` decides under the lock whether the first deferred job is
due and then waits for the workers without it, with the timer still armed. When
the timer goes off meanwhile, `_timerThread` sees the shutdown and frees the
pool under them.

Further statements were met that the code does not keep. They are at the end of
`OtaAgent`, `MqttDemos` and `SecureConnection`, outside the configurations, or are
variants of what a configuration checks, and can be added to one to see their traces:

* `OwnBlocks`: `OTA_CheckForUpdate` during a download and the document of another
  job let a block that is already queued be written into the new job's file: the
  file id of a block is decoded (`ota.c:2695`) and compared with nothing. The
  signature check then fails that job. `ota_jobs` contains these behaviours and
  shows with `VerifiedOwn` that no such file passes.
* `DownloadAwake` when message buffers and application calls can fill the queue
  (3 events for 3 buffers, or 5 for 3 buffers and 2 calls, with block requests
  that fail): the request timer's event is dropped, nothing rearms the timer, and
  the download sleeps until the next job document.
* `ActivateActiveJob`: a download that is given up because its momentum ran out
  is reported failed and leaves the file open until `Shutdown` is handled; a
  block already queued completes it and its image is activated.
* `SelfTestNotDisplaced`: the request timer armed on resume can turn a self-test
  whose event is queued into a download.
* `BuffersAccounted`: a job document that arrives during a download keeps its
  event buffer.
* `FileCreationEnds`: a document refused for its protocols aborts the job, but
  the agent moves on to `CreatingFile`, where nothing wakes it.
* `SucceededInstalled`: `isInSelfTest` is not cleared by a document without that
  key (`ota.c:1752`), so that after the self-test of one firmware the next job
  of the session is taken to be in self-test too: a firmware job is reported
  succeeded without a download, a file job without its file. `SucceededEarned`
  is what is left of it.
* `SelfTestResets`: a second self-test document after the verdict sets the image
  state to Testing again, and no timer runs (`SelfTestWatched` speaks of the time
  before the verdict). And with `ActivatedFlag = "PendingCommit"`, the flag of the
  chips other than AmebaZ2 (`aws_ota_ameba.c:1124`), the platform layer does not
  recognise after the reset that it is in self-test: no timer is armed for the
  image under test. `ota_download` uses AmebaZ2's flag.
* `JobsLinked` with `"high"` in `Faults`: a high priority job whose thread cannot
  be created keeps the status `SCHEDULED` outside the queue, where
  `_tryCancelInternal` takes it to be linked.
* `OneJobAtATime`: with `Jobs = 2` a second job is handled within the publish of
  the first one's update, and the first one's further updates name the second.
* `PairMatches` without its `~torn`: after a loss of power between the halves of a
  pair, with an older private key in place, both are found and nothing is
  generated.
* `ClosedOnce` of `MqttDemos`: the jobs and the mutual authentication demo disconnect
  whatever has failed before (`jobs_demo.c:962`, `mqtt_demo_mutual_auth.c:645`). When the
  first run's connection has been closed and the second run's cannot be made, the handle
  is still the first one's, and `SOCKETS_Shutdown` and `SOCKETS_Close` are called on a
  socket that has been freed (`mqtt_demo_helpers.c:1065`,
  `transport_secure_sockets.c:543-575`).
* `NoneForgotten` of `MqttDemos`: the shadow and the defender demo leave the socket of a
  connection on which `MQTT_Connect` failed open (`defender_demo.c:644`), and forget it
  when they connect again. `SocketsSettled` is what is left of the two.
* `ContextOwned` of `SecureConnection`: nothing locks the mbedTLS context. While a task is
  inside `mbedtls_ssl_write` (`iot_tls.c:1115`) the receive task's `TLS_Recv` may meet an
  error and free the context (`iot_tls.c:1095`), and the other way round. `UsersOwn`
  speaks of beginning a record, not of the one that has begun, and of nothing after that
  fault.
* `SessionClosedOnce` of `SecureConnection`: after an error has called `prvFreeContext`,
  `TLS_Cleanup` calls it again (`iot_tls.c:1161`), and so does `TLS_Recv` when it is called
  again, and `C_CloseSession` gets the same handle a second time (`iot_tls.c:193`).
* `fault = "closed"` of `OtaDemo`: when the HTTP connection is lost and cannot be made
  again (`ota_demo_core_http.c:1898`), the flag stays set and the handle is the closed
  one's; the end of the demo disconnects it a second time (2485), and a further request
  uses it. `HttpSocketAccounted` holds up to there.
* `DemoEnds` of `mqtt_agent` with `TasksCreated = FALSE`: a demo task that `xTaskCreate`
  could not create is not noticed (`simple_sub_pub_demo.c:251`), and the runner waits for
  its end for ever. When it is the agent task that is missing, the demo ends.

### Bounds

Each cfg names its bounds; they are the smallest for which the interesting cases
happen.

* `OtaAgent`. Two blocks are enough to tell the first from the last and to have
  one missing; one job, and five where every kind of document takes part. The
  queue holds 4 events and there are 2 buffers, where `ota_config.h` has 9 and
  `ota_event_freertos.c`, the one queue of the repository, 20: the exhausted pool
  is reached in a few steps, a block can stay queued while one job is given up
  and the next one's file is created, and as with 20 and 9 there is room beyond
  the buffers and the application calls. `MaxMomentum` (32 in `ota_config.h`) is
  1 or 2. `MaxDocs`, `MaxNoise`, `MaxApi` and `MaxSessions` bound job documents,
  repeated or damaged blocks and losses of power, application calls and lost
  connections, and calls of `OTA_Init`. Blocks are interchangeable, so safety
  runs use their symmetry;
  the liveness run does not.
* `OtaDemo`. A pool of three commands and up to three operations of the agent
  with the demo's own, which is where an operation that timed out leaves its
  command behind the next; one loss of the connection and one retry; a list of
  four filters, which the three filters and their overlaps fill.
* `UpdateFlash`. All three families, two versions, an image of five cells in
  blocks of two with or without something behind it: three or four blocks, so
  that the first, a middle and a last one can come in any order, and a block
  straddles the end of the image.
* `TaskPool`. A minimum of one thread, a maximum of two and a third for a high
  priority job beyond the maximum; one job in user storage and one from the
  cache, whose limit is one; and five calls of the application, enough to create
  both jobs, schedule or defer them and cancel, recycle or change the quota,
  before `IotTaskPool_Destroy`. A creation that fails is a fault.
* `MqttAgentDemo`. Two tasks, one with QoS 1, and with them two filters: a refused
  subscription leaves a gap in front of the other's, which the next run meets. Two
  command structures, which the late answer of one command and the next command
  exhaust; two runs, so that the agent task of the first meets the second; one failure of
  the network. `SubscribedOnce` is for any list and any number of filters.
* `MqttDemos`. Two runs of each demo, one retry, two publish slots, two echoes,
  one job with every action (its callback may be nested once), one loss of the
  connection; a report buffer that some reports fill.
* `NetworkManager`. BLE, Wi-Fi and Ethernet, four sets of networks a demo may
  use, and a queue of three events, which a peer that connects and disconnects
  fills.
* `SecureConnection`. Both interfaces, two sockets so that a leak shows before
  they run out, three bytes: one read ahead, one behind it, one more message. They are
  numbered, so that an order other than the peer's shows.
* `Provisioning`. Seven images that differ in certificate, key, JITP certificate
  and the order to generate; two resets and three generated pairs, so that a
  torn pair and its repair happen.

Deadlock is not checked where a stopped system is where runs end (`OtaAgent`,
`TaskPool`, `MqttAgentDemo`, `SecureConnection` after a fault,
`Provisioning`); the others have a `Rest` step at their end, or never stop, and
are checked for it.

### Fairness

FreeRTOS runs a ready task of the highest priority, timers expire and bounded
waits end; nothing is assumed of brokers, services, peers and applications.

* `OtaAgent`: weak fairness of the agent's task, of the MQTT task and of the
  request timer, once it has been started, which may fail. Nothing is assumed of the
  self-test timer; blocks may never
  arrive. In `ota_liveness` the waits of `OTA_Suspend` and `OTA_Resume` do not
  run out while the agent runs (`"waitTimeout"` is not in its `Faults`), so that
  `Resumes` says the agent answers. Its only application call is the lost
  connection: with a user abort between suspend and resume the wait may end in
  the assertion.
* `OtaDemo`: weak fairness of the demo's task, the MQTT agent's and the OTA
  agent's.
* `TaskPool`: weak fairness of the owner, of a scheduler whose new thread has
  started, of every worker, of the timer task and of time. The application may
  stop calling.
* `MqttAgentDemo`: weak fairness of the runner and of the demo tasks only; the
  agent task and the broker may never answer.
* `MqttDemos`: weak fairness of the demo's task, whose waits in the process loop
  are bounded by their timeouts.
* `NetworkManager`: weak fairness of who switches networks and of the manager's
  task; strong fairness of the runner, whose priority is the higher: it gets the mutex
  it waits for when that is given back, however often the manager takes it again.
* `SecureConnection`: weak fairness of the receive task's reads, which return at
  the latest after the poll time, of its exit, of the return of a callback and of
  the application that waits for the exit.
* `Provisioning`: weak fairness of the task; resets are bounded.

## 4. What is proved

All theorems are for every value of the constants that the named assumptions
allow: every number of jobs, blocks, buffers, threads, sockets, networks, cells
and versions, every bound and every set of faults.

| Module | Theorem | Statement |
|---|---|---|
| `OtaAgentProofs` | `TypeCorrect` | `Spec => []TypeOK` |
| | `BuffersStayHeld` | `Spec => []BuffersHeld` |
| | `DownloadIntegrity` | `Spec => []DownloadAccounting` |
| | `VerifiedIsOwn` | `Spec => []VerifiedOwn` |
| | `Implements` | `Spec => FileSpec`: every behaviour of the agent is one of `OtaFile` |
| | `DownloadStaysAwake` | `Spec => []DownloadAwake`, when `QueueLen > NumBuffers + MaxApi` |
| | `TestStaysWatched` | `Spec => []SelfTestWatched` |
| | `SuccessEarned` | `Spec => SucceededEarned`, an action property |
| `OtaDemoProofs` | `TypeCorrect` | `Spec => []TypeOK` |
| | `CommandsStayAccounted` | `Spec => []CommandsAccounted` |
| | `AgentQuiet` | `Spec => []QuietWhileReconnecting` |
| | `SocketStaysAccounted` | `Spec => []HttpSocketAccounted` |
| | `DispatchedAlways` | `Spec => []DispatchedOnce`, when `MaxSubs >= 4` |
| `MqttProofs` | `TypeCorrect` | `Spec => []TypeOK`, of `MqttDemos` |
| | `SocketsStaySettled` | `Spec => []SocketsSettled` |
| | `SuccessIsAccepted` | `Spec => []SuccessMeansAccepted` |
| | `ReportWritten` | for all metrics, `GenerateJsonReport` returns the report's length when it fits, else `TooSmall` |
| | `ReportsExact` | `Spec => []ReportExact` |
| | `CommandsStayDistinct` | `Agent!Spec => []CommandsDistinct`, when `Agent!LimitsAssumption` |
| | `SubscribedOnce` | `Agent!Spec => []SubscriptionsOnce` |
| `TaskPoolProofs` | `ThreadsCountedHolds` | `Spec => []ThreadsCounted` |
| | `JobsSignalled` | `Spec => []NoLostWakeup` |
| | `DestroyAsserts` | `Spec => []ShutdownClean` |
| | `JobsStayLinked` | `Spec => []JobsLinked`, when `"high" \notin Faults` |
| | `PoolKeepsPromise` | `Spec => PoolSpec`: every behaviour of the pool is one of `PoolJobs`, whatever fails |
| `UpdateFlashProofs` | `NeverPartial` | `Spec => []NeverBootPartial` |
| | `VerifiedUntilActivated` | `Spec => []VerifiedStays` |
| | `CompleteVerifies` | `Spec => []CompleteFileVerifies` |
| | `BootsActivated` | `Spec => RunsActivated`, an action property |
| `SecureConnectionProofs` | `ConnectionTyped` | `Spec => []TypeOK` |
| | `SocketsGivenBack` | `Spec => []SocketsAccounted` |
| | `UsersKeepOwning` | `Spec => []UsersOwn` |
| | `BytesKept` | `Spec => []NoByteLost` |
| `NetworkManagerProofs` | `WaitsForSomething` | `Spec => []NoLostWakeup` |
| | `StateFollowsLink` | `Spec => []StateCurrent` |
| `ProvisioningProofs` | `ProvisioningTyped` | `Spec => []TypeOK` |
| | `ProvidedIsStored` | `Spec => []ProvidedStored` |
| | `PairsMatch` | `Spec => []PairMatches` |

**The agent.** `TypeOK` is not inductive alone: handlers subtract from `buffers`,
and it stays a natural number only because each event with data still owns a
buffer. The inductive invariant is `TypeInv == TypeOK /\ BuffersHeld`, proved in
five parts (`FlagStep`, `CountStep`, `ControlStep`, `FileStep`, `QueueStep`) with
one case per action. The lemmas `HeldAppend` and `HeldTail` say how the number
of buffers held by the queue changes at its two ends. `DownloadIntegrity` and
`Implements` share one classification of all steps (`FileMoves`): a step leaves
slot and file alone or only closes the file, creates a file, or writes a block.
`BlockStored` computes what a written block does to bitmap, counter and slot;
from it follow that the accounting is kept and that each kind of step is a step
of `OtaFile` or leaves it unchanged.

`DownloadStaysAwake` is about a full queue, the one place where the request
timer's event can be lost. `NoneStale` says what may stand behind the last queued
request for blocks: only events that came from outside, which are events with a
buffer, at most one for each, and those of the application's calls, at most one for
each. The agent's own events come to a queue that has just been read. `GoingOn`
says that a download has a timer, or an event in hand or queued that it never ignores
and that does not count on the timer to start: a handler that cannot start the timer
leaves it as it was. When the timer's event finds the queue full, there are more events
in it than buffers and calls, so one of them continues or ends the download
(`FullGoesOn`). `ota_event_freertos.c` has 20 entries and the configuration 9
buffers, so that the hypothesis holds for ten calls of the application; the model
counts calls for the whole behaviour, the argument only those still queued.
Section 3 says what happens without it.

The self-test needs two histories. `SuspendsInTurn` says where the one suspension
is: the MQTT task stops the timers before its event is queued, so that an agent
that goes on meanwhile may be without a timer, but only until it has suspended
and `OTA_Resume` has armed it again. `TestWatched` carries `SelfTestWatched`
through that, from `Start` on; `TestAnnounced` says that an agent that tests an
image was told so by a document of this session. `SuccessEarned` follows step by
step: `EarnedStep` looks at the three places that report `Succeeded`.

**The OTA demos.** `IInv` (lemma `Invariant`) holds what each of the three tasks
knows of the others. `CommandsInv` says that a structure is free, in the queue or
waits for its acknowledgment, or was lost when the queue was made anew; the
commands of the OTA agent carry the number of its operation, and those that are
there have different numbers even after their sender gave up on them, so that an
acknowledgment is counted for one structure. `Staged` and `Current` say how far
the demo's task is and which command it waits for; `Asked` and `Turns` whose turn
it is in suspending and resuming, from which `QuietWhileReconnecting` follows.
`Closing` says that a demo that has disconnected the HTTP connection at its end is not
brought back by a late callback, so that `HttpSocketAccounted` may speak of the end.
`DispatchInv` relates the list of the subscription manager to what the agent was
told, and `AckedThere` the steps of a callback to each other: when the status is
written the filter has been entered, and it stays there until the task has been
notified. It needs room for the four subscriptions the two filters and the default one
come to: `MaxSubs >= 4`, where `SUBSCRIPTION_MANAGER_MAX_SUBSCRIPTIONS` is 10.

**The MQTT demos.** `IInv` says where a demo stands. `Placed` says which steps of
a script wait, and `SocketInv` where the socket is: the shadow and the defender demo
hold it from the connection to the step that disconnects, and an open socket without
a connection is one on which `MQTT_Connect` failed; the other two begin and end a run
without one, and forget none. `SocketsSettled` follows. Nearly all steps lie in between (`Within`): they
move on in the script and leave the socket alone, also those of the jobs demo's
handlers, which run the process loop inside one another (`InnerSteps`). The few
others connect, disconnect, begin a run or end the demo (`OuterSteps`). `RunsLeft`
bounds the runs; `Answered` says that the response the defender demo keeps answers
its last report.

`ReportExact` is about what a recursion over the entries writes, for lists and a
buffer of any length. `LeastNumber` and `Induction` derive an induction from the
library's well-founded order of the natural numbers, for a set instead of an
operator. By it the recursive function exists (`SumsExist`, from its finite
prefixes), the sums grow, and the loop that writes entry by entry and stops when
one does not fit ends with the sum or with `TooSmall` (`EntriesWritten`,
`ArrayWritten`). `TextFollows` and `ArrayFollows` go on from one part to the next;
`ReportWritten` puts the parts together, for any metrics, and `GatheredLengths`
says that the collector's are such.

**The coreMQTT Agent demo.** Pool, queue and set of pending commands hold no
structure twice and none in common (`Distinct`), whoever of two runs' agents
moves it: there are four ways for a structure to travel, one lemma each.
`SubscribedOnce` is about a scan. It is a recursive function, which exists for a list
of any length (`ScansExist`, by the same induction as the sums); what it returns after
any number of cells is the free cell seen last, or nothing once the filter has been
found (`ScanFinds`), so that a filter is entered only when no cell of the whole list
holds it (`AddedOnce`). Both are
about `MqttAgentDemo`, instantiated with its own constants and variables; the
hypothesis of the first is that module's assumption about them, which TLC
evaluates in `mqtt_agent`.

**The task pool.** The invariants count threads, so the inductive one says where
every thread that was started is counted: `Counts` relates `activeThreads`,
`awaited` and `startStopSignal` to how many workers are starting, taking part
and leaving, phase by phase; `Posted` is `NoLostWakeup` in terms of those sets;
`Locked` and `NoWork` say who may keep the lock and when there is nothing to do.
`CountMoves` is the one lemma about cardinalities, that moving one worker
changes a count by one, and each action uses it. `JobsLinked` needs more: a list
holds exactly the jobs whose status says so, each once (`Listed`), except for
the job of a scheduler that waits for its thread; lemmas say what removing,
adding and inserting do to a list. Where a high priority job may fail, the job that
failed is left out of what the queue must hold (`Queued`), so that the rest of the
lists can be relied on under every fault; only `JobsLinked` itself excludes it.

`PoolKeepsPromise` needs the lists to know that a worker that takes the head of
the queue takes a job that was asked for, and that an event of the timer list is a
deferred job's. What is due is the first `expired` events: `FirstRemoved` and
`FirstInserted` say what removing and inserting an event do to these, and
`Unasked` that a pool whose threads cannot be created closes with no job asked
for. Then each step is one of `PoolJobs` or leaves its four variables alone
(`CallImplements`, `TakeImplements`, `WorkerImplements`, `TimerImplements`,
`OwnerImplements`). TLC checks `PoolSpec` on the instance of `task_pool` when it
is added to that configuration.

**The update slot.** `OnlyActivated` says that until the activation nothing in
flash or still to be done signs the slot, and that a verified image's other
cells are all there; `FirstErased` says that the signature's cell is erased
before anything else is written, which AmebaZ2 does with the first block and
only once per boot. With `Typed` they are inductive, over every loss of power.
`RunsActivated` says the same of the steps: only the restart of an activated image
changes what runs, to that image, whole and newer. (It is not in a configuration;
TLC checks it when it is added to `UpdateFlash.cfg`.)

`CompleteFileVerifies` needs to know what becomes of every cell on its way.
`Stored` says it cell by cell: erased, or about to be, until its block comes; then
on its way to flash, and in the end written. That holds because a call erases
before it writes (`ErasesFirst`) and a block comes once. The count is the number
of image cells in the blocks that came (`CountedIn`), as long as no block with
something behind the image has been counted under a guessed header
(`LengthKnown`); so a block is dropped for a full count only when there is nothing
of the image in it. `CellsInBlocks` and `QuotientGrows` are the arithmetic of cells
and blocks, `ProgramAllCells` and `EraseThenWrite` what a call's list of
operations does.

**The connection.** What is allocated follows from how far the application has
come (`Owned`), what the receive task may do from the flags and from where the
application waits (`Shared`), and the byte read ahead is there only between the
read and the callback's own (`ReadAhead`). `Bytes` is about order: `HandOut` is the
sequence of the first numbers, whichever function appends to it (`BytesAppended`).
With `SocketsAccounted` and `UsersOwn` they are inductive, up to the faults.

**The network manager.** `Known` follows the last event: where it is, in the
queue, in hand or in the manager's state, it says what the link is. `Told`,
`Unposted` and `Unseen` connect that to what the callback is told and to what
the runner has seen before it waits. `Mutex`, `Subscribed`, `Powered` and
`Untouched` say who is where meanwhile.

**The credentials.** `Stored` and `Saved` say what each sector may hold and at
which step it is the one being written: only a certificate can run into the
sector behind it, and is whole before the private key is looked at.
`CertificateKept` and `KeyKept` follow what the image brought from the step that
saves it to the end. `Gone` says that the public half of an older pair has been
destroyed before a key of the image is created over the private one, so that
`Paired`, the halves in flash are of one pair unless a reset tore them, holds at
every step but between the two halves; `FoundBoth` and `Made` are the two ways
to the end, both halves found or both just generated.

Only model-checked: the liveness properties `DownloadEnds`, `Resumes`, `JobsRun`,
`DestroyFrees`, `DemoEnds` (of both MQTT modules), `DemoReturns`, `CleanupEnds`,
`CloseReturns` and `ProvisioningEnds`, which are outside the provers' reach. Every
other property of the passing runs is stated by a theorem. Where the table names a
condition, the theorem has it as a hypothesis; the run meets it on its instance.

## 5. Plan

Done, in the order of what matters most: an update that bricks or misreports a
device, then the concurrency library, then connections, then demos and
credentials. What is left:

1. The timer command queue on which `IotClock_TimerArm` may block while the task
   pool's lock is held.
2. `StreamsOta`, the event loop of the streams demo, against `OtaFile`.
3. `UpdateFlash` as an implementation of an abstract slot. `OtaFile` is not that:
   it installs an image in the step that verifies it, as the agent's platform layer
   does when seen as one call, and `UpdateFlash` many flash operations later.

## 6. What is not modelled, and why

* The OTA over MQTT streams demo: an alternative to the demos that are modelled.
  Its flash layer and its agent task are variants of code that is modelled; its
  event loop is left for later (see the plan).
* Bytes: JSON and CBOR parsing, names and topics, the contents of blocks, records
  and certificates. What a parser decides is a kind of document; whether a block
  decodes and a signature matches is a choice or follows from what is in flash.
* Statistics of the agent, logging, the wording of status messages, metrics.
* In `OtaAgent`: HTTP as a data channel, and `OTA_ActivateNewImage` called by hand.
* In `TaskPool`: the allocation of jobs (a recyclable job is taken from the
  cache or is any that is unused), priority, stack size, whether the pool is the
  static system pool, and FreeRTOS' timer command queue. `iot_static_memory_*`
  is only compiled with `IOT_STATIC_MEMORY_ONLY`, which this build does not set.
* In `SecureConnection`: the socket port's wake-up callback, which nothing sets,
  and the parsing of certificates.
* In `Provisioning`: an image with a key and no certificate
  (`ImagesAssumption`): it would leave the public key of an older pair in place.
* The coreHTTP demo, three requests in a row without state of their own; Wi-Fi
  scanning and access-point mode, which only call the driver; `iot_crypto.c` and
  `pkcs11_helpers.c`, which compute and keep nothing.
* Vendored libraries (coreMQTT, coreMQTT Agent, coreHTTP, corePKCS11, mbedTLS,
  lwIP, tinycbor) and Realtek's drivers are not in the repository; what the code
  assumes of them is in the actions marked external in `PROJECT.json`.
