------------------------------ MODULE OtaAgent ------------------------------
(***************************************************************************)
(* The OTA agent of src/ports/patches/ota_for_aws/ota.c as the coreMQTT    *)
(* demo of src/demos/ota/ota_demo_core_mqtt runs it: the agent task takes  *)
(* events from a bounded queue and runs one handler for each, while the    *)
(* MQTT agent task, the OS timers and the application add events.          *)
(*                                                                         *)
(* An event is taken from the queue in one step (Receive) and handled in   *)
(* another: what the other tasks queue in between may leave no room for    *)
(* the events the handler itself signals.                                  *)
(***************************************************************************)
EXTENDS Naturals, Sequences, FiniteSets

CONSTANTS
  Jobs,          \* the job names the service knows
  NoJob,         \* the empty job name
  JobKind,       \* what the job document of each job asks for
  Blocks,        \* the blocks every file is made of
  BadBlock,      \* a file block that fails to decode or is out of range
  NoJobDoc,      \* a job document without a job
  NoData,        \* an event without data
  QueueLen,      \* capacity of the agent's event queue
  NumBuffers,    \* otaconfigMAX_NUM_OTA_DATA_BUFFERS
  MaxMomentum,   \* otaconfigMAX_NUM_REQUEST_MOMENTUM
  MaxRequest,    \* otaconfigMAX_NUM_BLOCKS_REQUEST
  ActivatedFlag, \* the word pal.activate leaves in the image state sector
  Faults,        \* the external calls that may fail
  MaxDocs, MaxNoise, MaxApi, MaxSessions   \* bounds on the environment

Kinds      == {"firmware", "file", "malformed", "zerosize", "oversize"}
FaultNames == {"requestJob", "initFile", "requestBlock", "createFile", "writeBlock", "closeFile",
               "setPlatform", "status", "dataInterface", "activate",
               "waitTimeout", "reconnect", "timer"}

ASSUME JobsAssumption   == NoJob \notin Jobs /\ JobKind \in [Jobs -> Kinds]
ASSUME BlocksAssumption == /\ IsFiniteSet(Blocks) /\ Blocks # {}
                           /\ BadBlock \notin Blocks
ASSUME SizesAssumption  == /\ QueueLen \in Nat \ {0} /\ NumBuffers \in Nat
                           /\ MaxMomentum \in Nat /\ MaxRequest \in Nat \ {0}
ASSUME FlagAssumption   == ActivatedFlag \in {"Testing", "PendingCommit"}
ASSUME BoundsAssumption == /\ Faults \subseteq FaultNames
                           /\ MaxDocs \in Nat /\ MaxNoise \in Nat
                           /\ MaxApi \in Nat /\ MaxSessions \in Nat

VARIABLES
  state,          \* otaAgent.state
  cur,            \* the event receiveAndProcessOtaEvent holds, or NoEvent
  queue,          \* the agent's event queue
  activeJob,      \* otaAgent.pActiveJobName
  imageState,     \* otaAgent.imageState
  fileOpen,       \* fileContext.pFile is not NULL
  bitmap,         \* fileContext.pRxBlockBitmap: the blocks still erased
  remaining,      \* fileContext.blocksRemaining
  selfTestDoc,    \* fileContext.isInSelfTest
  updaterOld,     \* fileContext.updaterVersion is below the running version
  momentum,       \* otaAgent.requestMomentum
  toReceive,      \* otaAgent.numOfBlocksToReceive
  reqTimer,       \* the request timer is armed
  selfTestTimer,  \* the self-test timer is armed
  platState,      \* flash: the image state word
  slot,           \* flash: what the update slot holds
  booted,         \* flash: the job whose image the device runs, NoJob at the factory
  streamJob,      \* the job whose data stream is subscribed
  requested,      \* blocks the service was asked for and may still send
  buffers,        \* how many pxEventBuffer entries have bufferUsed set
  conn,           \* what the MQTT agent task is doing about its connection
  jobStatus,      \* the service's view of each job
  docsLeft, noiseLeft, apiLeft, sessionsLeft

agent  == <<activeJob, imageState>>
file   == <<fileOpen, bitmap, remaining>>
doc    == <<selfTestDoc, updaterOld>>
pace   == <<momentum, toReceive>>
timers == <<reqTimer, selfTestTimer>>
flash  == <<platState, slot, booted>>
stream == <<streamJob, requested>>
bounds == <<docsLeft, noiseLeft, apiLeft, sessionsLeft>>
vars   == <<state, cur, queue, agent, file, doc, pace, timers, flash, stream,
            buffers, conn, jobStatus, bounds>>

-----------------------------------------------------------------------------
(* Events and documents.                                                   *)

AgentStates == {"Stopped", "Init", "Ready", "RequestingJob", "WaitingForJob",
                "CreatingFile", "RequestingFileBlock", "WaitingForFileBlock",
                "Suspended"}
PlainIds    == {"Start", "StartSelfTest", "RequestJobDocument", "CreateFile",
                "RequestFileBlock", "RequestTimer", "CloseFile", "Suspend",
                "Resume", "UserAbort", "Shutdown"}
JobDocs     == [job : Jobs, selfTest : BOOLEAN, old : BOOLEAN] \cup {NoJobDoc}
FileBlocks  == [job : Jobs, block : Blocks \cup {BadBlock}]
Events      == [id : PlainIds, data : {NoData}]
                 \cup [id : {"ReceivedJobDocument"}, data : JobDocs]
                 \cup [id : {"ReceivedFileBlock"}, data : FileBlocks]
NoEvent     == [id |-> "None", data |-> NoData]
Event(i)    == [id |-> i, data |-> NoData]

(* The events whose data is in a buffer of the application.                *)
HoldsBuffer(e) == e.id \in {"ReceivedJobDocument", "ReceivedFileBlock"}
HeldBy(e)      == IF HoldsBuffer(e) THEN 1 ELSE 0
Held(q)        == Cardinality({i \in DOMAIN q : HoldsBuffer(q[i])})

ImageStates == {"Unknown", "Testing", "Accepted", "Rejected", "Aborted"}
Statuses    == {"Queued", "InProgress", "SelfTest", "Succeeded", "Failed",
                "Canceled"}
Terminal    == {"Succeeded", "Failed", "Canceled"}

(* OTA_SignalEvent from a task that runs while the agent is not Stopped:   *)
(* the event is queued, or lost when the queue is full.                    *)
Room      == Len(queue) < QueueLen
Signal(e) == IF Room THEN Append(queue, e) ELSE queue

(* The outcomes of an external call: it may fail when its fault is         *)
(* enabled, and a call that needs the broker fails without a connection.   *)
Outcomes(f)    == {TRUE} \cup (IF f \in Faults THEN {FALSE} ELSE {})
Online         == conn \in {"up", "arming", "resuming", "resumeWait"}
NetOutcomes(f) == (IF Online THEN {TRUE} ELSE {})
                    \cup (IF f \in Faults \/ conn # "up" THEN {FALSE} ELSE {})

(* otaControlInterface.updateJobStatus: the service ignores an update of a *)
(* job that is over, and one without a job name.                           *)
Updated(j, s) == IF j \in Jobs /\ jobStatus[j] \notin Terminal
                   THEN [jobStatus EXCEPT ![j] = s] ELSE jobStatus
Report(j, s, ok) == jobStatus' = IF ok THEN Updated(j, s) ELSE jobStatus

InSelfTest(p) == p = "Testing"       \* platformInSelftest

(* How a handler ends: executeHandler moves to the table's next state only *)
(* when the handler returned OtaErrNone.                                   *)
Takes(i, ss)   == cur.id = i /\ state \in ss
Done(ok, next) == /\ cur' = NoEvent
                  /\ state' = IF ok THEN next ELSE state
                  /\ conn' = conn

(* OtaJobEventProcessed: the application releases the event's buffer.      *)
ReleasedTwice == buffers' = buffers - 2
ReleaseBuffer == buffers' = buffers - 1

(* os.timer.start of the two timers, which may fail for the request timer; *)
(* the self-test timer only runs while the platform is in self-test.       *)
RequestTimerNotStarted == reqTimer' = reqTimer
TimerFails == "timer" \in Faults
ArmRequestTimer == reqTimer' = TRUE
StartRequestTimer == ArmRequestTimer \/ (TimerFails /\ reqTimer' = reqTimer)
StartSelfTestTimer == selfTestTimer' = (selfTestTimer \/ InSelfTest(platState))

(* otaClose: unsubscribe, pal.abort, freeFileContextMem. The bitmap is the *)
(* application's buffer, so it is zeroed; blocksRemaining stays.           *)
OtaCloseKeepsFile   == fileOpen' = fileOpen /\ bitmap' = {} /\ streamJob' = NoJob /\ requested' = {}
OtaClose == /\ fileOpen' = FALSE /\ bitmap' = {}
            /\ streamJob' = NoJob /\ requested' = {}

EmptySlot(j) == [job |-> j, data |-> [b \in Blocks |-> NoJob], verified |-> FALSE]

(* A reset of the device: RAM is lost, flash and the service's view stay   *)
(* as the action sets them.                                                *)
ResetDevice ==
  /\ state' = "Stopped" /\ cur' = NoEvent /\ queue' = <<>>
  /\ activeJob' = NoJob /\ imageState' = "Unknown"
  /\ fileOpen' = FALSE /\ bitmap' = {} /\ remaining' = 0
  /\ selfTestDoc' = FALSE /\ updaterOld' = TRUE
  /\ momentum' = 0 /\ toReceive' = 1
  /\ reqTimer' = FALSE /\ selfTestTimer' = FALSE
  /\ streamJob' = NoJob /\ requested' = {}
  /\ buffers' = 0 /\ conn' = "up"

Init ==
  /\ state = "Stopped" /\ cur = NoEvent /\ queue = <<>>
  /\ activeJob = NoJob /\ imageState = "Unknown"
  /\ fileOpen = FALSE /\ bitmap = {} /\ remaining = 0
  /\ selfTestDoc = FALSE /\ updaterOld = TRUE
  /\ momentum = 0 /\ toReceive = 1
  /\ reqTimer = FALSE /\ selfTestTimer = FALSE
  /\ platState = "Unknown" /\ slot = EmptySlot(NoJob) /\ booted = NoJob
  /\ streamJob = NoJob /\ requested = {}
  /\ buffers = 0 /\ conn = "up"
  /\ jobStatus = [j \in Jobs |-> "Queued"]
  /\ docsLeft = MaxDocs /\ noiseLeft = MaxNoise
  /\ apiLeft = MaxApi /\ sessionsLeft = MaxSessions

-----------------------------------------------------------------------------
(* Image state.                                                            *)

StatusOf(s) == CASE s = "Testing"  -> "SelfTest"
                 [] s = "Accepted" -> "Succeeded"
                 [] OTHER          -> "Failed"

(* setImageStateWithReason(s) for job j over the flash word p; pal and ok  *)
(* are the outcomes of pal.setPlatformImageState and updateJobStatus.      *)
SetImageState(j, p, s, pal, ok) ==
  LET final == IF pal \/ s = "Aborted" THEN s ELSE "Rejected"
  IN  /\ platState' = IF pal THEN s ELSE p
      /\ imageState' = final
      /\ Report(j, StatusOf(final), ok)
      /\ activeJob' = IF final = "Testing" THEN j ELSE NoJob

-----------------------------------------------------------------------------
(* The handlers that ask for a job.                                        *)

StartHandler ==
  /\ Takes("Start", {"Ready"})
  /\ StartSelfTestTimer
  /\ queue' = Signal(Event("RequestJobDocument"))
  /\ Done(Room, "RequestingJob")
  /\ UNCHANGED <<agent, file, doc, pace, reqTimer, flash, stream, buffers, jobStatus>>

AttemptNotCounted == momentum' = momentum
CountAttempt == momentum' = momentum + 1

(* The retry that requestJobHandler and initFileHandler share: while the   *)
(* momentum lasts the request timer is armed, then the agent shuts down.   *)
RetryOrShutdown ==
  \/ /\ momentum < MaxMomentum
     /\ \/ ArmRequestTimer /\ CountAttempt
        \/ TimerFails /\ reqTimer' = reqTimer /\ momentum' = momentum
     /\ queue' = queue
  \/ /\ momentum >= MaxMomentum
     /\ reqTimer' = FALSE /\ momentum' = momentum
     /\ queue' = Signal(Event("Shutdown"))

RequestJobHandler ==
  /\ \/ Takes("RequestJobDocument", {"RequestingJob", "WaitingForFileBlock"})
     \/ Takes("RequestTimer", {"RequestingJob"})
  /\ \E ok \in NetOutcomes("requestJob") :
       /\ IF ok THEN reqTimer' = FALSE /\ momentum' = 0 /\ queue' = queue
                ELSE RetryOrShutdown
       /\ Done(ok, "WaitingForJob")
  /\ UNCHANGED <<agent, file, doc, toReceive, selfTestTimer, flash, stream, buffers, jobStatus>>

-----------------------------------------------------------------------------
(* processJobHandler: what a job document does, by what the parser makes   *)
(* of it. Each case ends in processNullFileContext or                      *)
(* processValidFileContext, and releases the event's buffer.               *)

IsDoc(ks) == cur.data # NoJobDoc /\ JobKind[cur.data.job] \in ks

(* processNullFileContext: an image under test starts its self-test, any   *)
(* other state makes the handler fail.                                     *)
NullFileContext(img) ==
  /\ queue' = IF img = "Testing" THEN Signal(Event("StartSelfTest")) ELSE queue
  /\ Done(img = "Testing" /\ Room, "CreatingFile")

(* handleCustomJob found no job document: OtaJobEventNoActiveJob.          *)
DocWithoutJob ==
  /\ cur.data = NoJobDoc
  /\ NullFileContext(imageState) /\ ReleaseBuffer
  /\ UNCHANGED <<agent, file, doc, pace, timers, flash, stream, jobStatus>>

(* handleJobParsingError on a document with a job name: the job is failed  *)
(* and the open file closed. A document of size zero is only answered when *)
(* some job is active, a malformed one always, because handleCustomJob has *)
(* taken its name.                                                         *)
DocRejected ==
  /\ \/ IsDoc({"malformed"})
     \/ IsDoc({"zerosize"}) /\ activeJob # NoJob
  /\ \E ok \in NetOutcomes("status") : Report(cur.data.job, "Failed", ok)
  /\ activeJob' = NoJob
  /\ OtaClose
  /\ NullFileContext(imageState) /\ ReleaseBuffer
  /\ UNCHANGED <<imageState, remaining, doc, pace, timers, flash>>

DocOfSizeZero ==
  /\ IsDoc({"zerosize"}) /\ activeJob = NoJob
  /\ NullFileContext(imageState) /\ ReleaseBuffer
  /\ UNCHANGED <<agent, file, doc, pace, timers, flash, stream, jobStatus>>

(* parseJSONbyModel writes into the agent's own file context: isInSelfTest *)
(* is set by a document that has the key and kept by one that has not, and *)
(* so is the updater's version.                                            *)
ParsedSelfTest == selfTestDoc \/ cur.data.selfTest
ParsedOld      == IF cur.data.selfTest THEN cur.data.old ELSE updaterOld
ParseDocument  == selfTestDoc' = ParsedSelfTest /\ updaterOld' = ParsedOld

(* verifyActiveJobStatus with another job active: the platform is told     *)
(* Aborted, which may fail unnoticed, and file and stream are dropped.     *)
PlatformAfterVerify ==
  {platState : pal \in {FALSE} \cap Outcomes("setPlatform")}
    \cup {IF activeJob = NoJob THEN platState ELSE "Aborted"}
DropStream ==
  /\ streamJob' = IF activeJob = NoJob THEN streamJob ELSE NoJob
  /\ requested' = IF activeJob = NoJob THEN requested ELSE {}
DropActiveFile == fileOpen' = (fileOpen /\ activeJob = NoJob) /\ DropStream

(* processValidFileContext with an image under test: reboot.               *)
RejectWhileTesting(p) ==
  /\ ResetDevice
  /\ platState' = p /\ UNCHANGED <<slot, booted, jobStatus>>

(* The document of the job that is already active: UpdateCurrentJob keeps  *)
(* the file and goes on with it.                                           *)
DocOfActiveJob ==
  /\ IsDoc({"firmware", "file"}) /\ activeJob = cur.data.job
  /\ \/ InSelfTest(platState) /\ RejectWhileTesting(platState)
     \/ /\ ~InSelfTest(platState)
        /\ ParseDocument
        /\ \/ /\ queue' = Signal(Event("CreateFile"))
              /\ Done(Room, "CreatingFile")
              /\ UNCHANGED <<agent, flash, jobStatus>>
           \/ /\ "dataInterface" \in Faults
              /\ \E pal \in Outcomes("setPlatform"), ok \in NetOutcomes("status") :
                   /\ SetImageState(activeJob, platState, "Aborted", pal, ok)
                   /\ Done(ok, "CreatingFile")
              /\ queue' = queue /\ UNCHANGED <<slot, booted>>
        /\ ReleaseBuffer
        /\ UNCHANGED <<file, pace, timers, stream>>

(* handleSelfTestJobDoc: the version decides between Testing and a         *)
(* rejection that reboots.                                                 *)
DocInSelfTest ==
  /\ IsDoc({"firmware", "file", "oversize"}) /\ activeJob # cur.data.job
  /\ ParsedSelfTest
  /\ \E p \in PlatformAfterVerify, pal \in Outcomes("setPlatform"), ok \in NetOutcomes("status") :
       \/ /\ ParsedOld \/ JobKind[cur.data.job] # "firmware"
          /\ ParseDocument
          /\ SetImageState(cur.data.job, p, "Testing", pal, ok)
          /\ NullFileContext(imageState')
          /\ DropActiveFile
          /\ ReleaseBuffer
          /\ UNCHANGED <<bitmap, remaining, pace, timers, slot, booted>>
       \/ /\ ~ParsedOld /\ JobKind[cur.data.job] = "firmware"
          /\ platState' = IF pal THEN "Rejected" ELSE p
          /\ Report(cur.data.job, "Failed", ok)
          /\ ResetDevice /\ UNCHANGED <<slot, booted>>

(* A file above OTA_MAX_FILE_SIZE takes the job name and is closed again.  *)
DocTooLarge ==
  /\ IsDoc({"oversize"}) /\ (activeJob = cur.data.job \/ ~ParsedSelfTest)
  /\ ParseDocument
  /\ activeJob' = cur.data.job
  /\ platState' \in IF activeJob = cur.data.job THEN {platState} ELSE PlatformAfterVerify
  /\ OtaClose
  /\ NullFileContext(imageState) /\ ReleaseBuffer
  /\ UNCHANGED <<imageState, remaining, pace, timers, slot, booted, jobStatus>>

(* A new job: getFileContextFromJob sets up the bitmap and creates the     *)
(* file, processValidFileContext selects the data interface.               *)
NewDownloadKeepsSlot ==
  /\ fileOpen' = TRUE /\ bitmap' = Blocks /\ remaining' = Cardinality(Blocks)
  /\ slot' = [slot EXCEPT !.job = cur.data.job, !.verified = FALSE]
  /\ DropStream
NewDownload ==
  /\ fileOpen' = TRUE /\ bitmap' = Blocks /\ remaining' = Cardinality(Blocks)
  /\ slot' = EmptySlot(cur.data.job)
  /\ DropStream

StartNewJob(p) ==
  /\ ParseDocument
  /\ \/ /\ NewDownload
        /\ activeJob' = cur.data.job /\ platState' = p
        /\ queue' = Signal(Event("CreateFile"))
        /\ Done(Room, "CreatingFile")
        /\ UNCHANGED <<imageState, jobStatus>>
     \/ /\ "dataInterface" \in Faults
        /\ NewDownload
        /\ \E pal \in Outcomes("setPlatform"), ok \in NetOutcomes("status") :
             /\ SetImageState(cur.data.job, p, "Aborted", pal, ok)
             /\ Done(ok, "CreatingFile")
        /\ queue' = queue
     \/ /\ "createFile" \in Faults
        /\ OtaClose /\ remaining' = Cardinality(Blocks)
        /\ \E pal \in Outcomes("setPlatform"), ok \in NetOutcomes("status") :
             SetImageState(cur.data.job, p, "Aborted", pal, ok)
        /\ NullFileContext("Aborted")
        /\ slot' = slot
  /\ ReleaseBuffer
  /\ UNCHANGED <<pace, timers, booted>>
DocOfNewJob ==
  /\ IsDoc({"firmware", "file"}) /\ activeJob # cur.data.job /\ ~ParsedSelfTest
  /\ \E p \in PlatformAfterVerify :
       \/ InSelfTest(p) /\ RejectWhileTesting(p)
       \/ ~InSelfTest(p) /\ StartNewJob(p)

ProcessJobHandler ==
  /\ Takes("ReceivedJobDocument", {"WaitingForJob"})
  /\ \/ DocWithoutJob \/ DocRejected \/ DocOfSizeZero \/ DocTooLarge
     \/ DocOfActiveJob \/ DocInSelfTest \/ DocOfNewJob

-----------------------------------------------------------------------------
(* Self-test.                                                              *)

(* The demo's answer to OtaJobEventStartTest is OTA_SetImageState(Accepted)*)
(* in the agent's own task.                                                *)
InSelfTestHandler ==
  /\ Takes("StartSelfTest", {"CreatingFile"})
  /\ \E pal \in Outcomes("setPlatform"), ok \in NetOutcomes("status") :
       \/ /\ InSelfTest(platState)
          /\ SetImageState(activeJob, platState, "Accepted", pal, ok)
          /\ selfTestDoc' = FALSE /\ selfTestTimer' = FALSE
          /\ queue' = queue
          /\ Done(TRUE, "WaitingForJob")
          /\ UNCHANGED <<file, updaterOld, pace, reqTimer, slot, booted, stream, buffers>>
       \/ /\ ~InSelfTest(platState)
          /\ platState' = IF pal THEN "Rejected" ELSE platState
          /\ Report(activeJob, "Failed", ok)
          /\ ResetDevice /\ UNCHANGED <<slot, booted>>

-----------------------------------------------------------------------------
(* The download.                                                           *)

InitFileHandler ==
  /\ \/ Takes("CreateFile", {"CreatingFile"})
     \/ Takes("RequestTimer", {"CreatingFile"})
  /\ \E ok \in NetOutcomes("initFile") :
       /\ IF ok THEN /\ momentum' = 0 /\ reqTimer' = reqTimer
                     /\ queue' = Signal(Event("RequestFileBlock"))
                     /\ streamJob' = activeJob /\ requested' = {}
                ELSE RetryOrShutdown /\ UNCHANGED stream
       /\ Done(ok /\ Room, "RequestingFileBlock")
  /\ UNCHANGED <<agent, file, doc, toReceive, selfTestTimer, flash, buffers, jobStatus>>

(* The blocks one request asks for: MaxRequest of the erased ones.         *)
Requests == {S \in SUBSET bitmap :
               Cardinality(S) = IF Cardinality(bitmap) < MaxRequest
                                  THEN Cardinality(bitmap) ELSE MaxRequest}

RequestDataHandler ==
  /\ \/ Takes("RequestFileBlock", {"RequestingFileBlock", "WaitingForFileBlock"})
     \/ Takes("RequestTimer", {"RequestingFileBlock", "WaitingForFileBlock"})
  /\ \/ /\ remaining = 0
        /\ queue' = queue
        /\ Done(TRUE, "WaitingForFileBlock")
        /\ UNCHANGED <<agent, pace, reqTimer, stream, platState, jobStatus>>
     \/ /\ remaining > 0 /\ momentum < MaxMomentum
        /\ \E ok \in NetOutcomes("requestBlock") :
             /\ \/ ok /\ \E S \in Requests, n \in 1..MaxRequest :
                           requested' = requested \cup S /\ toReceive' = n
                \/ ~ok /\ UNCHANGED <<requested, toReceive>>
             /\ Done(ok, "WaitingForFileBlock")
        /\ CountAttempt /\ ArmRequestTimer
        /\ queue' = queue
        /\ UNCHANGED <<agent, streamJob, platState, jobStatus>>
     \/ /\ remaining > 0 /\ (momentum >= MaxMomentum \/ TimerFails)
        /\ reqTimer' = FALSE
        /\ \E pal \in Outcomes("setPlatform"), ok \in NetOutcomes("status") :
             SetImageState(activeJob, platState, "Aborted", pal, ok)
        /\ queue' = Signal(Event("Shutdown"))
        /\ momentum' = IF Room THEN 0 ELSE momentum
        /\ Done(FALSE, "WaitingForFileBlock")
        /\ UNCHANGED <<toReceive, stream>>
  /\ UNCHANGED <<file, doc, selfTestTimer, slot, booted, buffers>>

(* ingestDataBlock, the results below IngestResultFileComplete: the image  *)
(* is rejected and the job failed, the file is left to the CloseFile event.*)
CanStore   == remaining > 0 /\ fileOpen /\ cur.data.block # BadBlock
Duplicate  == CanStore /\ cur.data.block \notin bitmap
Fresh      == CanStore /\ cur.data.block \in bitmap

FailDownload ==
  /\ \E pal \in Outcomes("setPlatform"), ok \in NetOutcomes("status") :
       /\ platState' = IF pal THEN "Rejected" ELSE platState
       /\ Report(activeJob, "Failed", ok)
  /\ reqTimer' = FALSE
  /\ queue' = Signal(Event("CloseFile"))
  /\ activeJob' = NoJob
  /\ Done(TRUE, "WaitingForFileBlock")
  /\ ReleaseBuffer
  /\ UNCHANGED <<imageState, doc, pace, selfTestTimer, booted, stream>>

RejectBlock ==
  /\ \/ ~CanStore
     \/ Fresh /\ "writeBlock" \in Faults
  /\ FailDownload
  /\ UNCHANGED <<file, slot>>

IgnoreDuplicate ==
  /\ Duplicate
  /\ StartRequestTimer /\ queue' = queue
  /\ Done(TRUE, "WaitingForFileBlock")
  /\ ReleaseBuffer
  /\ UNCHANGED <<agent, file, doc, pace, selfTestTimer, flash, stream, jobStatus>>

(* pal.writeBlock, then the bit is cleared and blocksRemaining decremented.*)
Stored == [slot EXCEPT !.data[cur.data.block] = cur.data.job]

AcceptBlock ==
  /\ Fresh /\ remaining > 1
  /\ bitmap' = bitmap \ {cur.data.block} /\ remaining' = remaining - 1
  /\ slot' = Stored
  /\ momentum' = 0
  /\ \E ok \in NetOutcomes("status") : Report(activeJob, "InProgress", ok)
  /\ StartRequestTimer
  /\ \/ toReceive > 1 /\ toReceive' = toReceive - 1 /\ queue' = queue
     \/ toReceive <= 1 /\ toReceive' = toReceive
          /\ queue' = Signal(Event("RequestFileBlock"))
  /\ Done(TRUE, "WaitingForFileBlock")
  /\ ReleaseBuffer
  /\ UNCHANGED <<agent, fileOpen, doc, selfTestTimer, platState, booted, stream>>

(* pal.closeFile checks the signature of what the slot holds.              *)
AllWritten(s) == \A b \in Blocks : s.data[b] # NoJob
Genuine(s) == \A b \in Blocks : s.data[b] = s.job

CloseFailed ==
  /\ Fresh /\ remaining = 1
  /\ ~Genuine(Stored) \/ "closeFile" \in Faults
  /\ fileOpen' = FALSE /\ bitmap' = bitmap \ {cur.data.block} /\ remaining' = 0
  /\ slot' = Stored
  /\ FailDownload

(* The status of a completed job: a firmware job goes on to its self-test. *)
SucceededAtOnce(j) == "Succeeded"
CompletedStatus(j) == IF JobKind[j] = "firmware" THEN "SelfTest" ELSE "Succeeded"

(* The file is complete. The demo activates a firmware image, which        *)
(* reboots, and shuts the agent down when the activation fails.            *)
FileComplete ==
  /\ Fresh /\ remaining = 1 /\ Genuine(Stored)
  /\ slot' = [Stored EXCEPT !.verified = TRUE]
  /\ \E ok \in NetOutcomes("status") :
       Report(activeJob, CompletedStatus(slot.job), ok)
  /\ \/ /\ JobKind[slot.job] = "firmware"
        /\ platState' = ActivatedFlag /\ booted' = slot.job
        /\ ResetDevice
     \/ /\ JobKind[slot.job] = "firmware" => "activate" \in Faults
        /\ fileOpen' = FALSE /\ bitmap' = bitmap \ {cur.data.block} /\ remaining' = 0
        /\ reqTimer' = FALSE
        /\ LET closing == Signal(Event("CloseFile"))
           IN  queue' = IF JobKind[slot.job] = "firmware" /\ Len(closing) < QueueLen
                          THEN Append(closing, Event("Shutdown")) ELSE closing
        /\ activeJob' = NoJob
        /\ Done(TRUE, "WaitingForFileBlock")
        /\ ReleaseBuffer
        /\ UNCHANGED <<imageState, doc, pace, selfTestTimer, platState, booted, stream>>

ProcessDataHandler ==
  /\ Takes("ReceivedFileBlock", {"WaitingForFileBlock"})
  /\ RejectBlock \/ IgnoreDuplicate \/ AcceptBlock \/ CloseFailed \/ FileComplete

CloseFileHandler ==
  /\ Takes("CloseFile", {"WaitingForFileBlock"})
  /\ OtaClose
  /\ queue' = queue
  /\ Done(TRUE, "WaitingForJob")
  /\ UNCHANGED <<agent, remaining, doc, pace, timers, flash, buffers, jobStatus>>

(* A job document during a download is taken as a notification: the        *)
(* download is dropped and the document asked for again. The handler does  *)
(* not release the event's buffer.                                         *)
JobNotificationHandler ==
  /\ Takes("ReceivedJobDocument", {"WaitingForFileBlock"})
  /\ reqTimer' = FALSE
  /\ \E pal \in Outcomes("setPlatform") :
       platState' = IF pal THEN "Aborted" ELSE platState
  /\ OtaClose
  /\ activeJob' = NoJob
  /\ queue' = Signal(Event("RequestJobDocument"))
  /\ Done(Room, "RequestingJob")
  /\ UNCHANGED <<imageState, remaining, doc, pace, selfTestTimer, slot, booted,
                 buffers, jobStatus>>

-----------------------------------------------------------------------------
(* The events that every state handles, and Resume.                        *)

UserAbortHandler ==
  /\ cur.id = "UserAbort"
  /\ queue' = queue
  /\ \/ /\ activeJob = NoJob
        /\ Done(FALSE, "WaitingForJob")
        /\ UNCHANGED <<agent, file, stream, platState, jobStatus>>
     \/ /\ activeJob # NoJob
        /\ \E pal \in Outcomes("setPlatform"), ok \in NetOutcomes("status") :
             /\ SetImageState(activeJob, platState, "Aborted", pal, ok)
             /\ IF ok THEN OtaClose ELSE UNCHANGED <<fileOpen, bitmap, stream>>
             /\ Done(ok, "WaitingForJob")
        /\ remaining' = remaining
  /\ UNCHANGED <<doc, pace, timers, slot, booted, buffers>>

(* agentShutdownCleanup and the reset of the agent's own fields.           *)
ShutdownHandler ==
  /\ cur.id = "Shutdown"
  /\ OtaClose /\ remaining' = 0
  /\ activeJob' = NoJob /\ imageState' = "Unknown"
  /\ selfTestDoc' = FALSE /\ updaterOld' = TRUE
  /\ momentum' = 0 /\ toReceive' = 0
  /\ reqTimer' = FALSE /\ selfTestTimer' = FALSE
  /\ queue' = queue
  /\ Done(TRUE, "Stopped")
  /\ UNCHANGED <<flash, buffers, jobStatus>>

SuspendIgnored ==
  /\ cur.id = "Suspend"
  /\ queue' = queue
  /\ Done(FALSE, "Suspended")
  /\ UNCHANGED <<agent, file, doc, pace, timers, flash, stream, buffers, jobStatus>>
SuspendHandler ==
  /\ cur.id = "Suspend"
  /\ queue' = queue
  /\ Done(TRUE, "Suspended")
  /\ UNCHANGED <<agent, file, doc, pace, timers, flash, stream, buffers, jobStatus>>

ResumeHandler ==
  /\ Takes("Resume", {"Suspended"})
  /\ queue' = Signal(Event("RequestJobDocument"))
  /\ Done(Room, "RequestingJob")
  /\ UNCHANGED <<agent, file, doc, pace, timers, flash, stream, buffers, jobStatus>>

(* otaTransitionTable: the events each state has a handler for.            *)
Handled(s, i) ==
  \/ i \in {"Suspend", "UserAbort", "Shutdown"}
  \/ <<s, i>> \in
       {<<"Ready", "Start">>,
        <<"RequestingJob", "RequestJobDocument">>, <<"RequestingJob", "RequestTimer">>,
        <<"WaitingForJob", "ReceivedJobDocument">>,
        <<"CreatingFile", "StartSelfTest">>, <<"CreatingFile", "CreateFile">>,
        <<"CreatingFile", "RequestTimer">>,
        <<"RequestingFileBlock", "RequestFileBlock">>,
        <<"RequestingFileBlock", "RequestTimer">>,
        <<"Suspended", "Resume">>}
  \/ s = "WaitingForFileBlock" /\
       i \in {"ReceivedFileBlock", "RequestTimer", "RequestFileBlock",
              "RequestJobDocument", "ReceivedJobDocument", "CloseFile"}

(* handleUnexpectedEvents: only the event's buffer is given back.          *)
HandleUnexpectedEvents ==
  /\ ~Handled(state, cur.id)
  /\ buffers' = buffers - HeldBy(cur)
  /\ queue' = queue
  /\ Done(FALSE, "Stopped")
  /\ UNCHANGED <<agent, file, doc, pace, timers, flash, stream, jobStatus>>

ExecuteHandler ==
  /\ cur # NoEvent
  /\ \/ StartHandler \/ RequestJobHandler \/ ProcessJobHandler \/ InSelfTestHandler
     \/ InitFileHandler \/ RequestDataHandler \/ ProcessDataHandler \/ CloseFileHandler
     \/ JobNotificationHandler \/ UserAbortHandler \/ ShutdownHandler
     \/ SuspendHandler \/ ResumeHandler \/ HandleUnexpectedEvents
  /\ UNCHANGED bounds

(* os.event.recv in the agent task's loop.                                 *)
Receive ==
  /\ state \notin {"Stopped", "Init"} /\ cur = NoEvent /\ queue # <<>>
  /\ cur' = Head(queue) /\ queue' = Tail(queue)
  /\ UNCHANGED <<state, agent, file, doc, pace, timers, flash, stream, buffers,
                 conn, jobStatus, bounds>>

-----------------------------------------------------------------------------
(* Starting: OTA_Init, the agent task, the Start event of the demo.        *)

(* OTA_Init of a stopped agent: resetEventQueue hands the data events left *)
(* over to handleUnexpectedEvents.                                         *)
OtaInit ==
  /\ state = "Stopped" /\ cur = NoEvent /\ sessionsLeft > 0
  /\ state' = "Init" /\ queue' = <<>>
  /\ buffers' = buffers - Held(queue)
  /\ imageState' = "Unknown"
  /\ sessionsLeft' = sessionsLeft - 1
  /\ UNCHANGED <<cur, activeJob, file, doc, pace, timers, flash, stream, conn,
                 jobStatus, docsLeft, noiseLeft, apiLeft>>

(* prvRunOTADemo creates the agent task, which makes the state Ready, and  *)
(* signals Start.                                                          *)
OtaEventProcessingTask ==
  /\ state = "Init"
  /\ state' = "Ready"
  /\ queue' = Signal(Event("Start"))
  /\ UNCHANGED <<cur, agent, file, doc, pace, timers, flash, stream, buffers, conn,
                 jobStatus, bounds>>

-----------------------------------------------------------------------------
(* Timers.                                                                 *)

Running == state \notin {"Stopped", "Init"}

(* otaTimerCallback                                                        *)
RequestTimerExpires ==
  /\ reqTimer /\ reqTimer' = FALSE
  /\ queue' = IF state = "Stopped" THEN queue ELSE Signal(Event("RequestTimer"))
  /\ UNCHANGED <<state, cur, agent, file, doc, pace, selfTestTimer, flash, stream,
                 buffers, conn, jobStatus, bounds>>

SelfTestTimerExpires ==
  /\ selfTestTimer
  /\ ResetDevice
  /\ UNCHANGED <<flash, jobStatus, bounds>>

(* Power is lost between any two steps.                                    *)
PowerLoss ==
  /\ Running /\ noiseLeft > 0 /\ noiseLeft' = noiseLeft - 1
  /\ ResetDevice
  /\ UNCHANGED <<flash, jobStatus, docsLeft, apiLeft, sessionsLeft>>

-----------------------------------------------------------------------------
(* The MQTT agent task: publishes it hands to the OTA agent.               *)

(* prvMqttJobCallback and prvMqttDataCallback: a buffer is taken and the   *)
(* event signalled; a buffer whose event does not fit stays used.          *)
Deliver(e) ==
  \/ /\ buffers < NumBuffers /\ buffers' = buffers + 1 /\ queue' = Signal(e)
  \/ /\ buffers >= NumBuffers /\ UNCHANGED <<buffers, queue>>

(* The service offers the job in progress, else any queued one; the        *)
(* document of a job whose image awaits its self-test says so, with the    *)
(* version that performed the update.                                      *)
Offered == LET busy == {j \in Jobs : jobStatus[j] \in {"InProgress", "SelfTest"}}
           IN  IF busy # {} THEN busy ELSE {j \in Jobs : jobStatus[j] = "Queued"}
DocumentOf(j) == [job |-> j, selfTest |-> jobStatus[j] = "SelfTest",
                  old |-> booted = j]

JobDocumentArrives ==
  /\ Running /\ conn = "up" /\ docsLeft > 0 /\ docsLeft' = docsLeft - 1
  /\ \/ \E j \in Offered : Deliver([id |-> "ReceivedJobDocument", data |-> DocumentOf(j)])
     \/ Offered = {} /\ Deliver([id |-> "ReceivedJobDocument", data |-> NoJobDoc])
  /\ UNCHANGED <<state, cur, agent, file, doc, pace, timers, flash, stream, conn,
                 jobStatus, noiseLeft, apiLeft, sessionsLeft>>

FileBlockEvent(b) == [id |-> "ReceivedFileBlock", data |-> [job |-> streamJob, block |-> b]]

FileBlockArrives ==
  /\ conn = "up" /\ streamJob # NoJob
  /\ \E b \in requested : Deliver(FileBlockEvent(b)) /\ requested' = requested \ {b}
  /\ UNCHANGED <<state, cur, agent, file, doc, pace, timers, flash, streamJob, conn,
                 jobStatus, bounds>>

(* A block delivered once more or not decodable.                           *)
NoisyBlockArrives ==
  /\ conn = "up" /\ streamJob # NoJob /\ noiseLeft > 0 /\ noiseLeft' = noiseLeft - 1
  /\ \E b \in (Blocks \ bitmap) \cup {BadBlock} : Deliver(FileBlockEvent(b))
  /\ UNCHANGED <<state, cur, agent, file, doc, pace, timers, flash, stream, conn,
                 jobStatus, docsLeft, apiLeft, sessionsLeft>>

(* The command loop returned an error: prvSuspendOTA. OTA_Suspend stops    *)
(* the timers in this task before the agent sees the Suspend event, and    *)
(* configASSERT halts the task when the call fails.                        *)
ConnectionLost ==
  /\ Running /\ conn = "up" /\ apiLeft > 0 /\ apiLeft' = apiLeft - 1
  /\ conn' = "suspending"
  /\ reqTimer' = FALSE /\ selfTestTimer' = FALSE
  /\ requested' = {}
  /\ UNCHANGED <<state, cur, queue, agent, file, doc, pace, flash, streamJob, buffers,
                 jobStatus, docsLeft, noiseLeft, sessionsLeft>>

(* The second half of OTA_Suspend and of OTA_Resume: signal the event.     *)
SignalFrom(at, i, next) ==
  /\ conn = at
  /\ \/ state # "Stopped" /\ Room /\ queue' = Signal(Event(i)) /\ conn' = next
     \/ (state = "Stopped" \/ ~Room) /\ queue' = queue /\ conn' = "halted"
  /\ UNCHANGED <<state, cur, agent, file, doc, pace, timers, flash, stream, buffers,
                 jobStatus, bounds>>

SuspendSignalled == SignalFrom("suspending", "Suspend", "suspendWait")

(* The wait for the agent's answer runs out: always when the agent is      *)
(* stopped, and for a running agent when that fault is enabled.            *)
TimedOut == state = "Stopped" \/ "waitTimeout" \in Faults

SuspendSeen ==
  /\ conn = "suspendWait"
  /\ \/ state = "Suspended" /\ conn' = "down"
     \/ state # "Suspended" /\ TimedOut /\ conn' = "halted"
  /\ UNCHANGED <<state, cur, queue, agent, file, doc, pace, timers, flash, stream,
                 buffers, jobStatus, bounds>>

(* prvConnectToMQTTBroker, then OTA_Resume looks at the agent's state,     *)
(* arms the timers, and signals: three steps the agent can run between.    *)
Reconnected ==
  /\ conn = "down"
  /\ \/ state # "Stopped" /\ conn' = "arming"
     \/ (state = "Stopped" \/ "reconnect" \in Faults) /\ conn' = "halted"
  /\ UNCHANGED <<state, cur, queue, agent, file, doc, pace, timers, flash, stream, buffers,
                 jobStatus, bounds>>

ResumeRequestTimerOnly ==
  /\ conn = "arming" /\ conn' = "resuming"
  /\ StartRequestTimer
  /\ UNCHANGED <<state, cur, queue, agent, file, doc, pace, selfTestTimer, flash, stream,
                 buffers, jobStatus, bounds>>
ResumeTimers ==
  /\ conn = "arming" /\ conn' = "resuming"
  /\ StartSelfTestTimer /\ StartRequestTimer
  /\ UNCHANGED <<state, cur, queue, agent, file, doc, pace, flash, stream, buffers,
                 jobStatus, bounds>>

ResumeSignalled == SignalFrom("resuming", "Resume", "resumeWait")

ResumeSeen ==
  /\ conn = "resumeWait"
  /\ \/ state # "Suspended" /\ conn' = "up"
     \/ state = "Suspended" /\ TimedOut /\ conn' = "halted"
  /\ UNCHANGED <<state, cur, queue, agent, file, doc, pace, timers, flash, stream,
                 buffers, jobStatus, bounds>>

-----------------------------------------------------------------------------
(* The application and the service.                                        *)

(* OTA_CheckForUpdate, OTA_SetImageState(Aborted) and OTA_Shutdown each    *)
(* signal one event.                                                       *)
ApiCall ==
  /\ Running /\ apiLeft > 0 /\ apiLeft' = apiLeft - 1
  /\ \E i \in {"RequestJobDocument", "UserAbort", "Shutdown"} : queue' = Signal(Event(i))
  /\ UNCHANGED <<state, cur, agent, file, doc, pace, timers, flash, stream, buffers,
                 conn, jobStatus, docsLeft, noiseLeft, sessionsLeft>>

(* The operator cancels a job.                                             *)
JobCanceled ==
  /\ apiLeft > 0 /\ apiLeft' = apiLeft - 1
  /\ \E j \in Jobs : jobStatus[j] \notin Terminal /\ jobStatus' = Updated(j, "Canceled")
  /\ UNCHANGED <<state, cur, queue, agent, file, doc, pace, timers, flash, stream,
                 buffers, conn, docsLeft, noiseLeft, sessionsLeft>>

-----------------------------------------------------------------------------
AgentTask == Receive \/ ExecuteHandler \/ OtaEventProcessingTask
MqttTask  == SuspendSignalled \/ SuspendSeen \/ Reconnected \/ ResumeTimers
               \/ ResumeSignalled \/ ResumeSeen

Next ==
  \/ AgentTask \/ OtaInit
  \/ RequestTimerExpires \/ SelfTestTimerExpires \/ PowerLoss
  \/ JobDocumentArrives \/ FileBlockArrives \/ NoisyBlockArrives
  \/ ConnectionLost \/ MqttTask \/ ApiCall \/ JobCanceled

Spec == Init /\ [][Next]_vars

(* The scheduler runs a task that can run, and timers expire.              *)
FairSpec == Spec /\ WF_vars(AgentTask) /\ WF_vars(RequestTimerExpires)
                 /\ WF_vars(MqttTask)

-----------------------------------------------------------------------------
(* Properties.                                                             *)

QueueTypeOK ==
  /\ cur \in Events \cup {NoEvent}
  /\ queue \in Seq(Events) /\ Len(queue) <= QueueLen
  /\ buffers \in 0..NumBuffers

ControlTypeOK ==
  /\ state \in AgentStates
  /\ activeJob \in Jobs \cup {NoJob} /\ streamJob \in Jobs \cup {NoJob}
  /\ booted \in Jobs \cup {NoJob}
  /\ imageState \in ImageStates /\ platState \in ImageStates \cup {ActivatedFlag}
  /\ jobStatus \in [Jobs -> Statuses]
  /\ conn \in {"up", "suspending", "suspendWait", "down", "arming", "resuming",
               "resumeWait", "halted"}

FlagTypeOK ==
  /\ fileOpen \in BOOLEAN /\ selfTestDoc \in BOOLEAN /\ updaterOld \in BOOLEAN
  /\ reqTimer \in BOOLEAN /\ selfTestTimer \in BOOLEAN

CountTypeOK ==
  /\ momentum \in 0..MaxMomentum /\ toReceive \in 0..MaxRequest
  /\ docsLeft \in 0..MaxDocs /\ noiseLeft \in 0..MaxNoise
  /\ apiLeft \in 0..MaxApi /\ sessionsLeft \in 0..MaxSessions

FileTypeOK ==
  /\ bitmap \subseteq Blocks /\ requested \subseteq Blocks
  /\ remaining \in 0..Cardinality(Blocks)
  /\ slot \in [job : Jobs \cup {NoJob}, data : [Blocks -> Jobs \cup {NoJob}],
               verified : BOOLEAN]

(* Every variable has its type, the queue fits its capacity and the        *)
(* counters their bounds.                                                  *)
TypeOK == QueueTypeOK /\ ControlTypeOK /\ FlagTypeOK /\ CountTypeOK /\ FileTypeOK

(* Integrity of a download: while the file is open, blocksRemaining is the *)
(* number of erased bits, the slot holds exactly the blocks whose bit is   *)
(* cleared, and it was created for one of the service's jobs.              *)
DownloadAccounting ==
  fileOpen => /\ slot.job \in Jobs /\ ~slot.verified
              /\ remaining = Cardinality(bitmap)
              /\ \A b \in Blocks : b \in bitmap <=> slot.data[b] = NoJob

(* A block carries no name of its job that the agent looks at, and one     *)
(* that was queued for one job's stream may end up in the next job's file  *)
(* (see OwnBlocks below). Such a file never passes for that job's: what is *)
(* verified holds its own job's blocks, every one of them.                 *)
VerifiedOwn ==
  slot.verified => \A b \in Blocks : slot.data[b] = slot.job

(* An active download never falls asleep: the request timer runs, or an    *)
(* event that continues or ends the download is on its way. The timer is   *)
(* not rearmed by the event it sends, so the queue must have room for that *)
(* event beside every buffer and every call of the application at once:    *)
(* QueueLen > NumBuffers + MaxApi (20 events in ota_event_freertos.c, 9    *)
(* buffers in ota_config.h). A shorter queue drops the event, and nothing  *)
(* of the agent's own continues the download. A request timer that cannot  *)
(* be started does no harm: it was armed, or its event is on its way.      *)
WakeUps == {"RequestFileBlock", "RequestTimer", "Suspend", "Shutdown", "CloseFile",
            "ReceivedJobDocument", "ReceivedFileBlock", "UserAbort"}
DownloadAwake ==
  state \in {"RequestingFileBlock", "WaitingForFileBlock"} /\ activeJob # NoJob
    /\ remaining > 0 /\ conn = "up"
    => \/ reqTimer \/ cur # NoEvent
       \/ \E i \in DOMAIN queue : queue[i].id \in WakeUps

(* While the platform is in self-test and this session has set no image    *)
(* state, the self-test timer can reset the device: the agent armed it on  *)
(* Start, a suspension stops it and only OTA_Resume arms it again. Once    *)
(* the session has had its verdict (a second self-test document) or is     *)
(* left for another, this no longer holds; see SelfTestResets below.       *)
SelfTestWatched ==
  InSelfTest(platState) /\ imageState = "Unknown" /\ conn = "up"
    /\ state \notin {"Stopped", "Init", "Ready"}
    => selfTestTimer

(* How a job comes to be reported Succeeded: a job that is not a firmware  *)
(* job by its own verified file, any job by a self-test the session's      *)
(* documents announced, on a platform in self-test or on a verified file.  *)
SucceededEarned ==
  [][\A j \in Jobs :
       jobStatus[j] # "Succeeded" /\ jobStatus'[j] = "Succeeded"
         => \/ JobKind[j] # "firmware" /\ slot'.job = j /\ slot'.verified
            \/ selfTestDoc /\ (InSelfTest(platState) \/ slot'.verified)]_vars

(* What the agent does to the update slot is what OtaFile promises: blocks *)
(* only ever accumulate in a slot open for one job, the signature is only  *)
(* accepted on a complete slot, and only its image is ever activated.      *)
File == INSTANCE OtaFile WITH
          phase     <- IF slot.verified THEN "verified"
                       ELSE IF fileOpen THEN "open" ELSE "closed",
          job       <- slot.job,
          got       <- {b \in Blocks : slot.data[b] # NoJob},
          installed <- booted
FileSpec == File!Spec

(* No event of the queue or in hand has its data in a buffer the           *)
(* application has taken back: a buffer is not released twice.             *)
BuffersHeld == Held(queue) + HeldBy(cur) <= buffers

(* Every download comes to an end: the blocks arrive, or the momentum runs *)
(* out and the agent gives up.                                             *)
DownloadEnds ==
  state = "WaitingForFileBlock" /\ activeJob # NoJob
    ~> state # "WaitingForFileBlock" \/ activeJob = NoJob

(* A lost connection is suspended and resumed: the MQTT agent task gets    *)
(* back to its command loop unless an assertion stopped it.                *)
Resumes == conn = "suspending" ~> conn \in {"up", "halted"}

-----------------------------------------------------------------------------
(* What comments say, or one would expect, and the code does not do. These *)
(* do not hold, and no configuration lists them; the README tells how each *)
(* one fails.                                                              *)

(* A firmware job is reported Succeeded only on the image it installed, any*)
(* other job only when its file was received and verified.                 *)
SucceededInstalled ==
  [][\A j \in Jobs :
       jobStatus[j] # "Succeeded" /\ jobStatus'[j] = "Succeeded"
         => IF JobKind[j] = "firmware" THEN booted = j
            ELSE slot'.job = j /\ slot'.verified]_vars

(* An image under test that gets no verdict is reset by the timer.         *)
SelfTestResets ==
  InSelfTest(platState) /\ conn = "up" /\ state \notin {"Stopped", "Init", "Ready"}
    => selfTestTimer

(* A file never mixes two jobs, and the open one is the active job's.      *)
OwnBlocks ==
  /\ fileOpen => activeJob \in {slot.job, NoJob}
  /\ \A b \in Blocks : slot.data[b] \in {NoJob, slot.job}

(* The self-test a job document asks for is not pushed aside: when its     *)
(* event is taken from the queue the agent has not begun a download.       *)
SelfTestNotDisplaced ==
  ~(cur.id = "StartSelfTest" /\ state \in {"RequestingFileBlock", "WaitingForFileBlock"})

(* Only an image whose job has not been reported failed is activated.      *)
ActivateActiveJob == [][booted' # booted => jobStatus[booted'] # "Failed"]_vars

(* Every buffer in use belongs to an event that is queued or in hand: no   *)
(* buffer is lost.                                                         *)
BuffersAccounted == buffers = Held(queue) + HeldBy(cur)

(* The agent does not stick in a state it only passes through.             *)
FileCreationEnds == state = "CreatingFile" ~> state # "CreatingFile"
=============================================================================
