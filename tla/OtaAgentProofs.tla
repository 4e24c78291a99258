--------------------------- MODULE OtaAgentProofs ---------------------------
(***************************************************************************)
(* Proofs about the OTA agent, for every number of jobs, blocks, buffers,  *)
(* queue entries and retries.                                              *)
(***************************************************************************)
EXTENDS OtaAgent, FiniteSetTheorems, SequenceTheorems, TLAPS

-----------------------------------------------------------------------------
(* The events of the queue that hold a buffer.                             *)

(* Held counts some of the indices of the queue.                           *)
LEMMA HeldNat ==
  ASSUME NEW q \in Seq(Events)
  PROVE  Held(q) \in Nat /\ Held(<<>>) = 0
<1>1. IsFiniteSet({i \in DOMAIN q : HoldsBuffer(q[i])})
  <2>1. IsFiniteSet(1..Len(q))
    BY FS_Interval
  <2>2. {i \in DOMAIN q : HoldsBuffer(q[i])} \subseteq 1..Len(q)
    OBVIOUS
  <2> QED  BY <2>1, <2>2, FS_Subset
<1>2. {i \in DOMAIN <<>> : HoldsBuffer(<<>>[i])} = {}
  OBVIOUS
<1> QED  BY <1>1, <1>2, FS_CardinalityType, FS_EmptySet DEF Held

(* An event at the end of the queue counts once.                           *)
LEMMA HeldAppend ==
  ASSUME NEW q \in Seq(Events), NEW e \in Events
  PROVE  Held(Append(q, e)) = Held(q) + HeldBy(e)
<1> DEFINE A == {i \in DOMAIN q : HoldsBuffer(q[i])}
           B == {i \in DOMAIN Append(q, e) : HoldsBuffer(Append(q, e)[i])}
<1>1. IsFiniteSet(A)
  BY FS_Interval, FS_Subset, A \subseteq 1..Len(q)
<1>2. Held(q) = Cardinality(A) /\ Held(Append(q, e)) = Cardinality(B)
  BY DEF Held
<1>3. HoldsBuffer(e) => B = A \cup {Len(q) + 1}
  OBVIOUS
<1>4. ~HoldsBuffer(e) => B = A
  OBVIOUS
<1>5. Len(q) + 1 \notin A
  OBVIOUS
<1> HIDE DEF A, B
<1>6. Cardinality(A) \in Nat
  BY <1>1, FS_CardinalityType
<1> QED  BY <1>1, <1>2, <1>3, <1>4, <1>5, <1>6, FS_AddElement DEF HeldBy

(* Taking the head of the queue takes it out of the count.                 *)
LEMMA HeldTail ==
  ASSUME NEW q \in Seq(Events), q # <<>>
  PROVE  Held(q) = Held(Tail(q)) + HeldBy(Head(q))
<1> DEFINE A == {i \in DOMAIN Tail(q) : HoldsBuffer(Tail(q)[i])}
           B == {i \in DOMAIN q : HoldsBuffer(q[i])}
           C == B \ {1}
           f == [i \in A |-> i + 1]
<1>1. Tail(q) \in Seq(Events) /\ Len(q) \in Nat \ {0} /\ Len(Tail(q)) = Len(q) - 1
  OBVIOUS
<1>2. A \subseteq 1..Len(Tail(q)) /\ B \subseteq 1..Len(q)
  BY <1>1
<1>3. IsFiniteSet(A) /\ IsFiniteSet(B)
  <2> HIDE DEF A, B
  <2>1. IsFiniteSet(1..Len(Tail(q))) /\ IsFiniteSet(1..Len(q))
    BY <1>1, FS_Interval
  <2> QED  BY <1>2, <2>1, FS_Subset
<1>4. Held(Tail(q)) = Cardinality(A) /\ Held(q) = Cardinality(B)
  BY DEF Held
<1>5. f \in Bijection(A, C)
  <2>1. \A i \in A : i + 1 \in C
    BY <1>1
  <2>2. \A i, k \in A : i + 1 = k + 1 => i = k
    BY <1>1
  <2>3. \A k \in C : k - 1 \in A /\ k = (k - 1) + 1
    BY <1>1
  <2> HIDE DEF A, B, C
  <2>4. f \in [A -> C]
    BY <2>1
  <2>5. \A k \in C : \E i \in A : f[i] = k
    BY <2>3
  <2>6. \A i, k \in A : f[i] = f[k] => i = k
    BY <2>2
  <2> QED  BY <2>4, <2>5, <2>6 DEF Bijection, Injection, Surjection, IsInjective
<1>6. HoldsBuffer(Head(q)) <=> 1 \in B
  BY <1>1
<1> HIDE DEF A, B, f
<1>7. Cardinality(A) = Cardinality(C)
  BY <1>3, <1>5, FS_Bijection DEF ExistsBijection
<1>8. Cardinality(A) \in Nat /\ Cardinality(B) \in Nat
  BY <1>3, FS_CardinalityType
<1>9. 1 \in B => Cardinality(C) = Cardinality(B) - 1
  BY <1>3, FS_RemoveElement
<1>10. 1 \notin B => C = B
  OBVIOUS
<1> HIDE DEF C
<1> QED  BY <1>4, <1>6, <1>7, <1>8, <1>9, <1>10 DEF HeldBy

-----------------------------------------------------------------------------
(* Type correctness, with the buffers: BuffersHeld is what makes the count *)
(* of used buffers stay a natural number. One lemma per part of the type   *)
(* invariant, one step per action.                                         *)

TypeInv == TypeOK /\ BuffersHeld

LEMMA Sizes ==
  /\ MaxRequest \in Nat /\ MaxRequest > 0 /\ MaxMomentum \in Nat
  /\ QueueLen \in Nat /\ QueueLen > 0 /\ NumBuffers \in Nat
  /\ MaxDocs \in Nat /\ MaxNoise \in Nat /\ MaxApi \in Nat /\ MaxSessions \in Nat
BY SizesAssumption, BoundsAssumption

(* What an event in hand carries.                                          *)
LEMMA DocInHand ==
  ASSUME QueueTypeOK, cur.id = "ReceivedJobDocument", cur.data # NoJobDoc
  PROVE  /\ cur.data.job \in Jobs
         /\ cur.data.selfTest \in BOOLEAN /\ cur.data.old \in BOOLEAN
<1>1. cur \in Events
  BY DEF QueueTypeOK, NoEvent
<1>2. cur.data \in JobDocs
  BY <1>1 DEF Events, PlainIds
<1> QED  BY <1>2 DEF JobDocs

LEMMA BlockInHand ==
  ASSUME QueueTypeOK, cur.id = "ReceivedFileBlock"
  PROVE  cur.data.job \in Jobs /\ cur.data.block \in Blocks \cup {BadBlock}
<1>1. cur \in Events
  BY DEF QueueTypeOK, NoEvent
<1>2. cur.data \in FileBlocks
  BY <1>1 DEF Events, PlainIds
<1> QED  BY <1>2 DEF FileBlocks

(* The service's view stays typed whatever is reported.                    *)
LEMMA ReportType ==
  ASSUME ControlTypeOK, NEW j, NEW s \in Statuses, NEW ok, Report(j, s, ok)
  PROVE  jobStatus' \in [Jobs -> Statuses]
BY DEF ControlTypeOK, Report, Updated

(* Setting the image state of a job.                                       *)
LEMMA SetImageStateType ==
  ASSUME ControlTypeOK, NEW j \in Jobs \cup {NoJob},
         NEW p \in ImageStates \cup {ActivatedFlag},
         NEW s \in {"Testing", "Accepted", "Rejected", "Aborted"}, NEW pal, NEW ok,
         SetImageState(j, p, s, pal, ok)
  PROVE  /\ activeJob' \in Jobs \cup {NoJob} /\ imageState' \in ImageStates
         /\ platState' \in ImageStates \cup {ActivatedFlag}
         /\ jobStatus' \in [Jobs -> Statuses]
<1> DEFINE final == IF pal \/ s = "Aborted" THEN s ELSE "Rejected"
<1>1. final \in ImageStates /\ StatusOf(final) \in Statuses
  BY DEF ImageStates, Statuses, StatusOf
<1>2. /\ platState' = IF pal THEN s ELSE p
      /\ imageState' = final
      /\ Report(j, StatusOf(final), ok)
      /\ activeJob' = IF final = "Testing" THEN j ELSE NoJob
  BY DEF SetImageState
<1> HIDE DEF final
<1>3. jobStatus' \in [Jobs -> Statuses]
  BY <1>1, <1>2, ReportType
<1>4. platState' \in ImageStates \cup {ActivatedFlag}
  BY <1>2 DEF ImageStates
<1> QED  BY <1>1, <1>2, <1>3, <1>4

(* The slot after a block is written.                                      *)
SlotType == [job : Jobs \cup {NoJob}, data : [Blocks -> Jobs \cup {NoJob}],
             verified : BOOLEAN]

LEMMA StoredType ==
  ASSUME QueueTypeOK, FileTypeOK, cur.id = "ReceivedFileBlock", Fresh
  PROVE  /\ Stored \in SlotType
         /\ [Stored EXCEPT !.verified = TRUE] \in SlotType
<1>1. Stored \in SlotType
  BY BlockInHand DEF FileTypeOK, Fresh, Stored, SlotType
<1> QED  BY <1>1 DEF SlotType

(* The slot of a file just created, and the number of blocks.              *)
LEMMA EmptySlotType ==
  ASSUME NEW j \in Jobs
  PROVE  EmptySlot(j) \in SlotType
BY DEF EmptySlot, SlotType

LEMMA BlockCount == Cardinality(Blocks) \in Nat
BY BlocksAssumption, FS_CardinalityType

(* The Boolean fields.                                                     *)
LEMMA FlagStep ==
  ASSUME QueueTypeOK, FlagTypeOK, [Next]_vars
  PROVE  FlagTypeOK'
<1> USE DEF FlagTypeOK, Done, agent, file, doc, pace, timers, flash, stream, bounds, StartRequestTimer, ArmRequestTimer, TimerFails, StartSelfTestTimer, OtaClose, ResetDevice
<1>1. CASE ExecuteHandler
  <2>1. CASE StartHandler
    BY <2>1 DEF StartHandler
  <2>2. CASE RequestJobHandler
    BY <2>2 DEF RequestJobHandler, RetryOrShutdown
  <2>3. CASE ProcessJobHandler
    <3>0. cur.id = "ReceivedJobDocument"
      BY <2>3 DEF ProcessJobHandler, Takes
    <3>1. CASE DocWithoutJob
      BY <3>1 DEF DocWithoutJob, NullFileContext
    <3>2. CASE DocRejected
      BY <3>2 DEF DocRejected, NullFileContext, Report, Updated, IsDoc
    <3>3. CASE DocOfSizeZero
      BY <3>3 DEF DocOfSizeZero, NullFileContext
    <3>4. CASE DocTooLarge
      BY <3>0, <3>4, DocInHand DEF DocTooLarge, NullFileContext, ParseDocument, ParsedOld, ParsedSelfTest, PlatformAfterVerify, DropStream, Outcomes, IsDoc
    <3>5. CASE DocOfActiveJob
      BY <3>0, <3>5, DocInHand DEF DocOfActiveJob, ParseDocument, ParsedOld, ParsedSelfTest, RejectWhileTesting, IsDoc
    <3>6. CASE DocInSelfTest
      BY <3>0, <3>6, DocInHand DEF DocInSelfTest, NullFileContext, ParseDocument, ParsedOld, ParsedSelfTest, PlatformAfterVerify, DropStream, Outcomes, DropActiveFile, IsDoc
    <3>7. CASE DocOfNewJob
      <4>0. IsDoc({"firmware", "file"})
        BY <3>7 DEF DocOfNewJob
      <4>1. PICK p \in {platState, "Aborted"} : RejectWhileTesting(p) \/ StartNewJob(p)
        BY <3>7 DEF DocOfNewJob, PlatformAfterVerify, Outcomes
      <4>2. CASE RejectWhileTesting(p)
        BY <3>0, DocInHand, <4>0, <4>2 DEF RejectWhileTesting, ParseDocument, ParsedOld, ParsedSelfTest, IsDoc
      <4>3. CASE StartNewJob(p)
        BY <3>0, DocInHand, <4>0, <4>3 DEF StartNewJob, NewDownload, DropStream, NullFileContext, ParseDocument, ParsedOld, ParsedSelfTest, IsDoc
      <4> QED  BY <4>1, <4>2, <4>3
    <3> QED  BY <2>3, <3>1, <3>2, <3>3, <3>4, <3>5, <3>6, <3>7 DEF ProcessJobHandler
  <2>4. CASE InSelfTestHandler
    BY <2>4 DEF InSelfTestHandler
  <2>5. CASE InitFileHandler
    BY <2>5 DEF InitFileHandler, RetryOrShutdown
  <2>6. CASE RequestDataHandler
    BY <2>6 DEF RequestDataHandler
  <2>7. CASE ProcessDataHandler
    <3>0. cur.id = "ReceivedFileBlock"
      BY <2>7 DEF ProcessDataHandler, Takes
    <3>1. CASE RejectBlock
      BY <3>1 DEF RejectBlock, FailDownload
    <3>2. CASE IgnoreDuplicate
      BY <3>2 DEF IgnoreDuplicate
    <3>3. CASE AcceptBlock
      BY <3>3 DEF AcceptBlock
    <3>4. CASE CloseFailed
      BY <3>4 DEF CloseFailed, FailDownload
    <3>5. CASE FileComplete
      BY <3>5 DEF FileComplete
    <3> QED  BY <2>7, <3>1, <3>2, <3>3, <3>4, <3>5 DEF ProcessDataHandler
  <2>8. CASE CloseFileHandler
    BY <2>8 DEF CloseFileHandler
  <2>9. CASE JobNotificationHandler
    BY <2>9 DEF JobNotificationHandler
  <2>10. CASE UserAbortHandler
    BY <2>10 DEF UserAbortHandler
  <2>11. CASE ShutdownHandler
    BY <2>11 DEF ShutdownHandler
  <2>12. CASE SuspendHandler
    BY <2>12 DEF SuspendHandler
  <2>13. CASE ResumeHandler
    BY <2>13 DEF ResumeHandler
  <2>14. CASE HandleUnexpectedEvents
    BY <2>14 DEF HandleUnexpectedEvents
  <2> QED  BY <1>1, <2>1, <2>2, <2>3, <2>4, <2>5, <2>6, <2>7, <2>8, <2>9, <2>10, <2>11, <2>12, <2>13, <2>14 DEF ExecuteHandler
<1>2. CASE Receive
  BY <1>2 DEF Receive
<1>3. CASE OtaInit
  BY <1>3 DEF OtaInit
<1>4. CASE OtaEventProcessingTask
  BY <1>4 DEF OtaEventProcessingTask
<1>5. CASE RequestTimerExpires
  BY <1>5 DEF RequestTimerExpires
<1>6. CASE SelfTestTimerExpires
  BY <1>6 DEF SelfTestTimerExpires
<1>7. CASE PowerLoss
  BY <1>7 DEF PowerLoss
<1>8. CASE JobDocumentArrives
  BY <1>8 DEF JobDocumentArrives, Deliver
<1>9. CASE FileBlockArrives
  BY <1>9 DEF FileBlockArrives, Deliver
<1>10. CASE NoisyBlockArrives
  BY <1>10 DEF NoisyBlockArrives, Deliver
<1>11. CASE ConnectionLost
  BY <1>11 DEF ConnectionLost
<1>12. CASE SuspendSignalled
  BY <1>12 DEF SuspendSignalled, SignalFrom
<1>13. CASE SuspendSeen
  BY <1>13 DEF SuspendSeen
<1>14. CASE Reconnected
  BY <1>14 DEF Reconnected
<1>15. CASE ResumeTimers
  BY <1>15 DEF ResumeTimers
<1>16. CASE ResumeSignalled
  BY <1>16 DEF ResumeSignalled, SignalFrom
<1>17. CASE ResumeSeen
  BY <1>17 DEF ResumeSeen
<1>18. CASE ApiCall
  BY <1>18 DEF ApiCall
<1>19. CASE JobCanceled
  BY <1>19 DEF JobCanceled, Updated
<1>20. CASE UNCHANGED vars
  BY <1>20 DEF vars
<1> QED  BY <1>1, <1>2, <1>3, <1>4, <1>5, <1>6, <1>7, <1>8, <1>9, <1>10, <1>11, <1>12, <1>13, <1>14, <1>15, <1>16, <1>17, <1>18, <1>19, <1>20 DEF Next, AgentTask, MqttTask

(* The counters of the agent and the bounds on its environment.            *)
LEMMA CountStep ==
  ASSUME CountTypeOK, [Next]_vars
  PROVE  CountTypeOK'
<1> USE DEF CountTypeOK, Done, agent, file, doc, pace, timers, flash, stream, bounds, CountAttempt, ResetDevice
<1>1. CASE ExecuteHandler
  <2> USE <1>1
  <2>0. UNCHANGED bounds
    BY DEF ExecuteHandler
  <2> USE <2>0
  <2>1. CASE StartHandler
    BY <2>1 DEF StartHandler
  <2>2. CASE RequestJobHandler
    BY <2>2, Sizes DEF RequestJobHandler, RetryOrShutdown
  <2>3. CASE ProcessJobHandler
    <3>0. cur.id = "ReceivedJobDocument"
      BY <2>3 DEF ProcessJobHandler, Takes
    <3>1. CASE DocWithoutJob
      BY <3>1 DEF DocWithoutJob, NullFileContext
    <3>2. CASE DocRejected
      BY <3>2 DEF DocRejected, NullFileContext, Report, Updated, IsDoc
    <3>3. CASE DocOfSizeZero
      BY <3>3 DEF DocOfSizeZero, NullFileContext
    <3>4. CASE DocTooLarge
      BY <3>4 DEF DocTooLarge, NullFileContext, ParseDocument, ParsedOld, ParsedSelfTest, PlatformAfterVerify, DropStream, Outcomes, IsDoc
    <3>5. CASE DocOfActiveJob
      BY <3>5, Sizes DEF DocOfActiveJob, ParseDocument, ParsedOld, ParsedSelfTest, RejectWhileTesting, IsDoc
    <3>6. CASE DocInSelfTest
      BY <3>6, Sizes DEF DocInSelfTest, NullFileContext, ParseDocument, ParsedOld, ParsedSelfTest, PlatformAfterVerify, DropStream, Outcomes, DropActiveFile, IsDoc
    <3>7. CASE DocOfNewJob
      <4>0. IsDoc({"firmware", "file"})
        BY <3>7 DEF DocOfNewJob
      <4>1. PICK p \in {platState, "Aborted"} : RejectWhileTesting(p) \/ StartNewJob(p)
        BY <3>7 DEF DocOfNewJob, PlatformAfterVerify, Outcomes
      <4>2. CASE RejectWhileTesting(p)
        BY Sizes, <4>0, <4>2 DEF RejectWhileTesting, ParseDocument, ParsedOld, ParsedSelfTest, IsDoc
      <4>3. CASE StartNewJob(p)
        BY Sizes, <4>0, <4>3 DEF StartNewJob, NewDownload, DropStream, NullFileContext, ParseDocument, ParsedOld, ParsedSelfTest, IsDoc
      <4> QED  BY <4>1, <4>2, <4>3
    <3> QED  BY <2>3, <3>1, <3>2, <3>3, <3>4, <3>5, <3>6, <3>7 DEF ProcessJobHandler
  <2>4. CASE InSelfTestHandler
    BY <2>4, Sizes DEF InSelfTestHandler
  <2>5. CASE InitFileHandler
    BY <2>5, Sizes DEF InitFileHandler, RetryOrShutdown
  <2>6. CASE RequestDataHandler
    BY <2>6, Sizes DEF RequestDataHandler
  <2>7. CASE ProcessDataHandler
    <3>0. cur.id = "ReceivedFileBlock"
      BY <2>7 DEF ProcessDataHandler, Takes
    <3>1. CASE RejectBlock
      BY <3>1 DEF RejectBlock, FailDownload
    <3>2. CASE IgnoreDuplicate
      BY <3>2 DEF IgnoreDuplicate
    <3>3. CASE AcceptBlock
      BY <3>3, Sizes DEF AcceptBlock
    <3>4. CASE CloseFailed
      BY <3>4 DEF CloseFailed, FailDownload
    <3>5. CASE FileComplete
      BY <3>5, Sizes DEF FileComplete
    <3> QED  BY <2>7, <3>1, <3>2, <3>3, <3>4, <3>5 DEF ProcessDataHandler
  <2>8. CASE CloseFileHandler
    BY <2>8 DEF CloseFileHandler
  <2>9. CASE JobNotificationHandler
    BY <2>9 DEF JobNotificationHandler
  <2>10. CASE UserAbortHandler
    BY <2>10 DEF UserAbortHandler
  <2>11. CASE ShutdownHandler
    BY <2>11, Sizes DEF ShutdownHandler
  <2>12. CASE SuspendHandler
    BY <2>12 DEF SuspendHandler
  <2>13. CASE ResumeHandler
    BY <2>13 DEF ResumeHandler
  <2>14. CASE HandleUnexpectedEvents
    BY <2>14 DEF HandleUnexpectedEvents
  <2> QED  BY <2>1, <2>2, <2>3, <2>4, <2>5, <2>6, <2>7, <2>8, <2>9, <2>10, <2>11, <2>12, <2>13, <2>14 DEF ExecuteHandler
<1>2. CASE Receive
  BY <1>2 DEF Receive
<1>3. CASE OtaInit
  BY <1>3, Sizes DEF OtaInit
<1>4. CASE OtaEventProcessingTask
  BY <1>4 DEF OtaEventProcessingTask
<1>5. CASE RequestTimerExpires
  BY <1>5 DEF RequestTimerExpires
<1>6. CASE SelfTestTimerExpires
  BY <1>6, Sizes DEF SelfTestTimerExpires
<1>7. CASE PowerLoss
  BY <1>7, Sizes DEF PowerLoss
<1>8. CASE JobDocumentArrives
  BY <1>8, Sizes DEF JobDocumentArrives, Deliver
<1>9. CASE FileBlockArrives
  BY <1>9 DEF FileBlockArrives, Deliver
<1>10. CASE NoisyBlockArrives
  BY <1>10, Sizes DEF NoisyBlockArrives, Deliver
<1>11. CASE ConnectionLost
  BY <1>11, Sizes DEF ConnectionLost
<1>12. CASE SuspendSignalled
  BY <1>12 DEF SuspendSignalled, SignalFrom
<1>13. CASE SuspendSeen
  BY <1>13 DEF SuspendSeen
<1>14. CASE Reconnected
  BY <1>14 DEF Reconnected
<1>15. CASE ResumeTimers
  BY <1>15 DEF ResumeTimers
<1>16. CASE ResumeSignalled
  BY <1>16 DEF ResumeSignalled, SignalFrom
<1>17. CASE ResumeSeen
  BY <1>17 DEF ResumeSeen
<1>18. CASE ApiCall
  BY <1>18, Sizes DEF ApiCall
<1>19. CASE JobCanceled
  BY <1>19, Sizes DEF JobCanceled, Updated
<1>20. CASE UNCHANGED vars
  BY <1>20 DEF vars
<1> QED  BY <1>1, <1>2, <1>3, <1>4, <1>5, <1>6, <1>7, <1>8, <1>9, <1>10, <1>11, <1>12, <1>13, <1>14, <1>15, <1>16, <1>17, <1>18, <1>19, <1>20 DEF Next, AgentTask, MqttTask

(* States, jobs and image states.                                          *)
LEMMA ControlStep ==
  ASSUME QueueTypeOK, FileTypeOK, ControlTypeOK, [Next]_vars
  PROVE  ControlTypeOK'
<1> USE DEF ControlTypeOK, AgentStates, ImageStates, Done, agent, file, doc, pace, timers, flash, stream, bounds, OtaClose, ResetDevice
<1>1. CASE ExecuteHandler
  <2>1. CASE StartHandler
    BY <2>1 DEF StartHandler
  <2>2. CASE RequestJobHandler
    BY <2>2 DEF RequestJobHandler, RetryOrShutdown
  <2>3. CASE ProcessJobHandler
    <3>0. cur.id = "ReceivedJobDocument"
      BY <2>3 DEF ProcessJobHandler, Takes
    <3>1. CASE DocWithoutJob
      BY <3>1 DEF DocWithoutJob, NullFileContext
    <3>2. CASE DocRejected
      BY <3>0, <3>2, DocInHand, ReportType DEF DocRejected, NullFileContext, Report, Updated, IsDoc, Statuses
    <3>3. CASE DocOfSizeZero
      BY <3>3 DEF DocOfSizeZero, NullFileContext
    <3>4. CASE DocTooLarge
      BY <3>0, <3>4, DocInHand DEF DocTooLarge, NullFileContext, ParseDocument, ParsedOld, ParsedSelfTest, PlatformAfterVerify, DropStream, Outcomes, IsDoc
    <3>5. CASE DocOfActiveJob
      BY <3>0, <3>5, DocInHand, SetImageStateType, ReportType DEF DocOfActiveJob, ParseDocument, ParsedOld, ParsedSelfTest, RejectWhileTesting, IsDoc
    <3>6. CASE DocInSelfTest
      <4>1. PICK p \in {platState, "Aborted"}, pal \in BOOLEAN, ok \in BOOLEAN :
               \/ /\ SetImageState(cur.data.job, p, "Testing", pal, ok)
                  /\ NullFileContext(imageState')
                  /\ DropActiveFile /\ UNCHANGED <<slot, booted>>
               \/ /\ platState' = IF pal THEN "Rejected" ELSE p
                  /\ Report(cur.data.job, "Failed", ok)
                  /\ ResetDevice /\ UNCHANGED <<slot, booted>>
        <5>1. /\ PlatformAfterVerify \subseteq {platState, "Aborted"}
              /\ Outcomes("setPlatform") \subseteq BOOLEAN /\ NetOutcomes("status") \subseteq BOOLEAN
          BY DEF PlatformAfterVerify, Outcomes, NetOutcomes
        <5> QED  BY <3>6, <5>1 DEF DocInSelfTest
      <4>2. cur.data.job \in Jobs
        BY <3>0, <3>6, DocInHand DEF DocInSelfTest, IsDoc
      <4> QED  BY <4>1, <4>2, SetImageStateType, ReportType
               DEF NullFileContext, DropActiveFile, DropStream, Statuses
    <3>7. CASE DocOfNewJob
      <4>0. IsDoc({"firmware", "file"})
        BY <3>7 DEF DocOfNewJob
      <4>1. PICK p \in {platState, "Aborted"} : RejectWhileTesting(p) \/ StartNewJob(p)
        BY <3>7 DEF DocOfNewJob, PlatformAfterVerify, Outcomes
      <4>2. CASE RejectWhileTesting(p)
        BY <3>0, DocInHand, SetImageStateType, ReportType, <4>0, <4>2 DEF RejectWhileTesting, ParseDocument, ParsedOld, ParsedSelfTest, IsDoc
      <4>3. CASE StartNewJob(p)
        BY <3>0, DocInHand, SetImageStateType, ReportType, <4>0, <4>3 DEF StartNewJob, NewDownload, DropStream, NullFileContext, ParseDocument, ParsedOld, ParsedSelfTest, IsDoc
      <4> QED  BY <4>1, <4>2, <4>3
    <3> QED  BY <2>3, <3>1, <3>2, <3>3, <3>4, <3>5, <3>6, <3>7 DEF ProcessJobHandler
  <2>4. CASE InSelfTestHandler
    BY <2>4, SetImageStateType, ReportType DEF InSelfTestHandler, Statuses
  <2>5. CASE InitFileHandler
    BY <2>5 DEF InitFileHandler, RetryOrShutdown
  <2>6. CASE RequestDataHandler
    <3>1. state' \in AgentStates /\ conn' = conn /\ streamJob' = streamJob /\ booted' = booted
      BY <2>6 DEF RequestDataHandler
    <3>2. CASE UNCHANGED <<activeJob, imageState, platState, jobStatus>>
      BY <3>1, <3>2
    <3>3. CASE \E pal, ok \in BOOLEAN : SetImageState(activeJob, platState, "Aborted", pal, ok)
      BY <3>1, <3>3, SetImageStateType
    <3> QED  BY <2>6, <3>2, <3>3 DEF RequestDataHandler, Outcomes, NetOutcomes
  <2>7. CASE ProcessDataHandler
    <3>0. cur.id = "ReceivedFileBlock"
      BY <2>7 DEF ProcessDataHandler, Takes
    <3>1. CASE RejectBlock
      BY <3>1, ReportType DEF RejectBlock, FailDownload, Statuses
    <3>2. CASE IgnoreDuplicate
      BY <3>2 DEF IgnoreDuplicate
    <3>3. CASE AcceptBlock
      BY <3>3, ReportType DEF AcceptBlock, Statuses
    <3>4. CASE CloseFailed
      BY <3>4, ReportType DEF CloseFailed, FailDownload, Statuses
    <3>5. CASE FileComplete
      BY <3>5, ReportType DEF FileComplete, FileTypeOK, CompletedStatus, Statuses
    <3> QED  BY <2>7, <3>1, <3>2, <3>3, <3>4, <3>5 DEF ProcessDataHandler
  <2>8. CASE CloseFileHandler
    BY <2>8 DEF CloseFileHandler
  <2>9. CASE JobNotificationHandler
    BY <2>9 DEF JobNotificationHandler
  <2>10. CASE UserAbortHandler
    BY <2>10, SetImageStateType DEF UserAbortHandler
  <2>11. CASE ShutdownHandler
    BY <2>11 DEF ShutdownHandler
  <2>12. CASE SuspendHandler
    BY <2>12 DEF SuspendHandler
  <2>13. CASE ResumeHandler
    BY <2>13 DEF ResumeHandler
  <2>14. CASE HandleUnexpectedEvents
    BY <2>14 DEF HandleUnexpectedEvents
  <2> QED  BY <1>1, <2>1, <2>2, <2>3, <2>4, <2>5, <2>6, <2>7, <2>8, <2>9, <2>10, <2>11, <2>12, <2>13, <2>14 DEF ExecuteHandler
<1>2. CASE Receive
  BY <1>2 DEF Receive
<1>3. CASE OtaInit
  BY <1>3 DEF OtaInit
<1>4. CASE OtaEventProcessingTask
  BY <1>4 DEF OtaEventProcessingTask
<1>5. CASE RequestTimerExpires
  BY <1>5 DEF RequestTimerExpires
<1>6. CASE SelfTestTimerExpires
  BY <1>6 DEF SelfTestTimerExpires
<1>7. CASE PowerLoss
  BY <1>7 DEF PowerLoss
<1>8. CASE JobDocumentArrives
  BY <1>8 DEF JobDocumentArrives, Deliver
<1>9. CASE FileBlockArrives
  BY <1>9 DEF FileBlockArrives, Deliver
<1>10. CASE NoisyBlockArrives
  BY <1>10 DEF NoisyBlockArrives, Deliver
<1>11. CASE ConnectionLost
  BY <1>11 DEF ConnectionLost
<1>12. CASE SuspendSignalled
  BY <1>12 DEF SuspendSignalled, SignalFrom
<1>13. CASE SuspendSeen
  BY <1>13 DEF SuspendSeen
<1>14. CASE Reconnected
  BY <1>14 DEF Reconnected
<1>15. CASE ResumeTimers
  BY <1>15 DEF ResumeTimers
<1>16. CASE ResumeSignalled
  BY <1>16 DEF ResumeSignalled, SignalFrom
<1>17. CASE ResumeSeen
  BY <1>17 DEF ResumeSeen
<1>18. CASE ApiCall
  BY <1>18 DEF ApiCall
<1>19. CASE JobCanceled
  BY <1>19 DEF JobCanceled, Updated, Statuses
<1>20. CASE UNCHANGED vars
  BY <1>20 DEF vars
<1> QED  BY <1>1, <1>2, <1>3, <1>4, <1>5, <1>6, <1>7, <1>8, <1>9, <1>10, <1>11, <1>12, <1>13, <1>14, <1>15, <1>16, <1>17, <1>18, <1>19, <1>20 DEF Next, AgentTask, MqttTask

(* The open file and the slot.                                             *)
LEMMA FileStep ==
  ASSUME QueueTypeOK, FileTypeOK, [Next]_vars
  PROVE  FileTypeOK'
<1> USE DEF FileTypeOK, SlotType, Done, agent, file, doc, pace, timers, flash, stream, bounds, OtaClose, ResetDevice
<1>1. CASE ExecuteHandler
  <2>1. CASE StartHandler
    BY <2>1 DEF StartHandler
  <2>2. CASE RequestJobHandler
    BY <2>2 DEF RequestJobHandler, RetryOrShutdown
  <2>3. CASE ProcessJobHandler
    <3>0. cur.id = "ReceivedJobDocument"
      BY <2>3 DEF ProcessJobHandler, Takes
    <3>1. CASE DocWithoutJob
      BY <3>1 DEF DocWithoutJob, NullFileContext
    <3>2. CASE DocRejected
      BY <3>2 DEF DocRejected, NullFileContext, Report, Updated, IsDoc
    <3>3. CASE DocOfSizeZero
      BY <3>3 DEF DocOfSizeZero, NullFileContext
    <3>4. CASE DocTooLarge
      BY <3>4 DEF DocTooLarge, NullFileContext, ParseDocument, ParsedOld, ParsedSelfTest, PlatformAfterVerify, DropStream, Outcomes, IsDoc
    <3>5. CASE DocOfActiveJob
      BY <3>5, BlockCount DEF DocOfActiveJob, ParseDocument, ParsedOld, ParsedSelfTest, RejectWhileTesting, IsDoc
    <3>6. CASE DocInSelfTest
      BY <3>6, BlockCount DEF DocInSelfTest, NullFileContext, ParseDocument, ParsedOld, ParsedSelfTest, PlatformAfterVerify, DropStream, Outcomes, DropActiveFile, IsDoc
    <3>7. CASE DocOfNewJob
      <4>0. IsDoc({"firmware", "file"})
        BY <3>7 DEF DocOfNewJob
      <4>1. PICK p \in {platState, "Aborted"} : RejectWhileTesting(p) \/ StartNewJob(p)
        BY <3>7 DEF DocOfNewJob, PlatformAfterVerify, Outcomes
      <4>2. CASE RejectWhileTesting(p)
        BY <3>0, DocInHand, BlockCount, EmptySlotType, <4>0, <4>2 DEF RejectWhileTesting, ParseDocument, ParsedOld, ParsedSelfTest, IsDoc
      <4>3. CASE StartNewJob(p)
        BY <3>0, DocInHand, BlockCount, EmptySlotType, <4>0, <4>3 DEF StartNewJob, NewDownload, DropStream, NullFileContext, ParseDocument, ParsedOld, ParsedSelfTest, IsDoc
      <4> QED  BY <4>1, <4>2, <4>3
    <3> QED  BY <2>3, <3>1, <3>2, <3>3, <3>4, <3>5, <3>6, <3>7 DEF ProcessJobHandler
  <2>4. CASE InSelfTestHandler
    BY <2>4, BlockCount DEF InSelfTestHandler
  <2>5. CASE InitFileHandler
    BY <2>5 DEF InitFileHandler, RetryOrShutdown
  <2>6. CASE RequestDataHandler
    BY <2>6 DEF RequestDataHandler, Requests
  <2>7. CASE ProcessDataHandler
    <3>0. cur.id = "ReceivedFileBlock"
      BY <2>7 DEF ProcessDataHandler, Takes
    <3>1. CASE RejectBlock
      BY <3>1 DEF RejectBlock, FailDownload
    <3>2. CASE IgnoreDuplicate
      BY <3>2 DEF IgnoreDuplicate
    <3>3. CASE AcceptBlock
      BY <3>0, <3>3, StoredType, BlockCount DEF AcceptBlock
    <3>4. CASE CloseFailed
      BY <3>0, <3>4, StoredType, BlockCount DEF CloseFailed, FailDownload
    <3>5. CASE FileComplete
      BY <3>0, <3>5, StoredType, BlockCount DEF FileComplete
    <3> QED  BY <2>7, <3>1, <3>2, <3>3, <3>4, <3>5 DEF ProcessDataHandler
  <2>8. CASE CloseFileHandler
    BY <2>8 DEF CloseFileHandler
  <2>9. CASE JobNotificationHandler
    BY <2>9 DEF JobNotificationHandler
  <2>10. CASE UserAbortHandler
    BY <2>10 DEF UserAbortHandler
  <2>11. CASE ShutdownHandler
    BY <2>11, BlockCount DEF ShutdownHandler
  <2>12. CASE SuspendHandler
    BY <2>12 DEF SuspendHandler
  <2>13. CASE ResumeHandler
    BY <2>13 DEF ResumeHandler
  <2>14. CASE HandleUnexpectedEvents
    BY <2>14 DEF HandleUnexpectedEvents
  <2> QED  BY <1>1, <2>1, <2>2, <2>3, <2>4, <2>5, <2>6, <2>7, <2>8, <2>9, <2>10, <2>11, <2>12, <2>13, <2>14 DEF ExecuteHandler
<1>2. CASE Receive
  BY <1>2 DEF Receive
<1>3. CASE OtaInit
  BY <1>3 DEF OtaInit
<1>4. CASE OtaEventProcessingTask
  BY <1>4 DEF OtaEventProcessingTask
<1>5. CASE RequestTimerExpires
  BY <1>5 DEF RequestTimerExpires
<1>6. CASE SelfTestTimerExpires
  BY <1>6, BlockCount DEF SelfTestTimerExpires
<1>7. CASE PowerLoss
  BY <1>7, BlockCount DEF PowerLoss
<1>8. CASE JobDocumentArrives
  BY <1>8 DEF JobDocumentArrives, Deliver
<1>9. CASE FileBlockArrives
  BY <1>9 DEF FileBlockArrives, Deliver
<1>10. CASE NoisyBlockArrives
  BY <1>10 DEF NoisyBlockArrives, Deliver
<1>11. CASE ConnectionLost
  BY <1>11 DEF ConnectionLost
<1>12. CASE SuspendSignalled
  BY <1>12 DEF SuspendSignalled, SignalFrom
<1>13. CASE SuspendSeen
  BY <1>13 DEF SuspendSeen
<1>14. CASE Reconnected
  BY <1>14 DEF Reconnected
<1>15. CASE ResumeTimers
  BY <1>15 DEF ResumeTimers
<1>16. CASE ResumeSignalled
  BY <1>16 DEF ResumeSignalled, SignalFrom
<1>17. CASE ResumeSeen
  BY <1>17 DEF ResumeSeen
<1>18. CASE ApiCall
  BY <1>18 DEF ApiCall
<1>19. CASE JobCanceled
  BY <1>19 DEF JobCanceled, Updated
<1>20. CASE UNCHANGED vars
  BY <1>20 DEF vars
<1> QED  BY <1>1, <1>2, <1>3, <1>4, <1>5, <1>6, <1>7, <1>8, <1>9, <1>10, <1>11, <1>12, <1>13, <1>14, <1>15, <1>16, <1>17, <1>18, <1>19, <1>20 DEF Next, AgentTask, MqttTask

(* A handler ends with no event in hand, adds at most one plain event, and *)
(* gives back at most the buffer of the event it handled.                  *)
QueueInv == QueueTypeOK /\ BuffersHeld

OneMore == queue' = queue \/ \E i \in PlainIds : queue' = Signal(Event(i))

LEMMA PlainEvents == \A i \in PlainIds : Event(i) \in Events /\ HeldBy(Event(i)) = 0
BY DEF Event, Events, PlainIds, HeldBy, HoldsBuffer

LEMMA SignalType ==
  ASSUME QueueTypeOK, NEW e \in Events
  PROVE  /\ Signal(e) \in Seq(Events) /\ Len(Signal(e)) <= QueueLen
         /\ Held(Signal(e)) \in {Held(queue), Held(queue) + HeldBy(e)}
<1>1. queue \in Seq(Events) /\ Len(queue) <= QueueLen
  BY DEF QueueTypeOK
<1>2. CASE Room
  <2>1. Signal(e) = Append(queue, e)
    BY <1>2 DEF Signal
  <2>2. Held(Append(queue, e)) = Held(queue) + HeldBy(e)
    BY <1>1, HeldAppend
  <2> QED  BY <1>1, <1>2, <2>1, <2>2, Sizes DEF Room
<1>3. CASE ~Room
  BY <1>1, <1>3 DEF Signal
<1> QED  BY <1>2, <1>3

LEMMA OneMoreType ==
  ASSUME QueueTypeOK, OneMore
  PROVE  queue' \in Seq(Events) /\ Len(queue') <= QueueLen /\ Held(queue') = Held(queue)
<1>1. CASE queue' = queue
  BY <1>1 DEF QueueTypeOK
<1>2. ASSUME NEW i \in PlainIds, queue' = Signal(Event(i))
      PROVE  queue' \in Seq(Events) /\ Len(queue') <= QueueLen /\ Held(queue') = Held(queue)
  <2>1. Event(i) \in Events /\ HeldBy(Event(i)) = 0
    BY PlainEvents
  <2>2. Held(queue) \in Nat
    BY HeldNat DEF QueueTypeOK
  <2> QED  BY <1>2, <2>1, <2>2, SignalType
<1> QED  BY <1>1, <1>2 DEF OneMore

LEMMA HandledQueue ==
  ASSUME QueueInv, cur' = NoEvent, buffers' \in {buffers, buffers - HeldBy(cur)},
         queue' \in Seq(Events), Len(queue') <= QueueLen, Held(queue') = Held(queue)
  PROVE  QueueInv'
<1>1. Held(queue) \in Nat /\ HeldBy(NoEvent) = 0 /\ HeldBy(cur) \in {0, 1}
  BY HeldNat DEF QueueInv, QueueTypeOK, HeldBy, HoldsBuffer, NoEvent
<1>2. Held(queue) + HeldBy(cur) <= buffers /\ buffers \in 0..NumBuffers
  BY DEF QueueInv, QueueTypeOK, BuffersHeld
<1>3. buffers' \in 0..NumBuffers /\ Held(queue') + HeldBy(cur') <= buffers'
  BY <1>1, <1>2, Sizes
<1> QED  BY <1>3 DEF QueueInv, QueueTypeOK, BuffersHeld

LEMMA HandlerQueue ==
  ASSUME QueueInv, cur' = NoEvent, buffers' \in {buffers, buffers - HeldBy(cur)}, OneMore
  PROVE  QueueInv'
BY HandledQueue, OneMoreType DEF QueueInv

(* So does a step of another task, with the event in hand untouched.       *)
LEMMA SignalledQueue ==
  ASSUME QueueInv, cur' = cur, buffers' = buffers, OneMore
  PROVE  QueueInv'
<1>1. queue' \in Seq(Events) /\ Len(queue') <= QueueLen /\ Held(queue') = Held(queue)
  BY OneMoreType DEF QueueInv
<1> QED  BY <1>1 DEF QueueInv, QueueTypeOK, BuffersHeld

LEMMA ResetQueue ==
  ASSUME ResetDevice
  PROVE  QueueInv'
<1>1. cur' = NoEvent /\ queue' = <<>> /\ buffers' = 0
  BY DEF ResetDevice
<1>2. <<>> \in Seq(Events) /\ Len(<<>>) = 0
  OBVIOUS
<1>3. Held(<<>>) = 0 /\ HeldBy(NoEvent) = 0
  BY <1>2, HeldNat DEF HeldBy, HoldsBuffer, NoEvent
<1>4. Held(queue') + HeldBy(cur') <= buffers'
  BY <1>1, <1>3
<1>5. Len(queue') <= QueueLen /\ buffers' \in 0..NumBuffers
  BY <1>1, <1>2, Sizes
<1> QED  BY <1>1, <1>2, <1>4, <1>5 DEF QueueInv, QueueTypeOK, BuffersHeld

(* A publish from the MQTT agent task comes with its buffer.               *)
LEMMA DeliverQueue ==
  ASSUME QueueInv, NEW e \in Events, HoldsBuffer(e), Deliver(e), cur' = cur
  PROVE  QueueInv'
<1>1. Held(queue) \in Nat /\ HeldBy(e) = 1 /\ HeldBy(cur) \in {0, 1}
  BY HeldNat DEF QueueInv, QueueTypeOK, HeldBy
<1>2. Held(queue) + HeldBy(cur) <= buffers /\ buffers \in 0..NumBuffers
  BY DEF QueueInv, QueueTypeOK, BuffersHeld
<1>3. CASE buffers < NumBuffers /\ buffers' = buffers + 1 /\ queue' = Signal(e)
  <2>1. /\ queue' \in Seq(Events) /\ Len(queue') <= QueueLen
        /\ Held(queue') \in {Held(queue), Held(queue) + 1}
    BY <1>1, <1>3, SignalType DEF QueueInv
  <2>2. buffers' \in 0..NumBuffers /\ Held(queue') + HeldBy(cur') <= buffers'
    BY <1>1, <1>2, <1>3, <2>1, Sizes
  <2> QED  BY <2>1, <2>2 DEF QueueInv, QueueTypeOK, BuffersHeld
<1>4. CASE UNCHANGED <<buffers, queue>>
  BY <1>4 DEF QueueInv, QueueTypeOK, BuffersHeld
<1> QED  BY <1>3, <1>4 DEF Deliver

(* The queue, the event in hand and the buffers.                           *)
LEMMA QueueStep ==
  ASSUME QueueInv, ControlTypeOK, FileTypeOK, [Next]_vars
  PROVE  QueueInv'
<1> USE DEF OneMore, Done, agent, file, doc, pace, timers, flash, stream, bounds, ReleaseBuffer
<1>1. CASE ExecuteHandler
  <2>1. CASE StartHandler
    BY <2>1, HandlerQueue DEF StartHandler, PlainIds
  <2>2. CASE RequestJobHandler
    BY <2>2, HandlerQueue DEF RequestJobHandler, RetryOrShutdown, PlainIds
  <2>3. CASE ProcessJobHandler
    <3>0. cur.id = "ReceivedJobDocument" /\ HeldBy(cur) = 1
      BY <2>3 DEF ProcessJobHandler, Takes, HeldBy, HoldsBuffer
    <3>1. CASE DocWithoutJob
      BY <3>0, <3>1, HandlerQueue DEF DocWithoutJob, NullFileContext, PlainIds
    <3>2. CASE DocRejected
      BY <3>0, <3>2, HandlerQueue DEF DocRejected, NullFileContext, Report, Updated, IsDoc, PlainIds
    <3>3. CASE DocOfSizeZero
      BY <3>0, <3>3, HandlerQueue DEF DocOfSizeZero, NullFileContext, PlainIds
    <3>4. CASE DocTooLarge
      BY <3>0, <3>4, HandlerQueue DEF DocTooLarge, NullFileContext, ParseDocument, ParsedOld, ParsedSelfTest, PlatformAfterVerify, DropStream, Outcomes, IsDoc, PlainIds
    <3>5. CASE DocOfActiveJob
      BY <3>0, <3>5, HandlerQueue, ResetQueue DEF DocOfActiveJob, ParseDocument, ParsedOld, ParsedSelfTest, RejectWhileTesting, IsDoc, PlainIds
    <3>6. CASE DocInSelfTest
      BY <3>0, <3>6, HandlerQueue, ResetQueue DEF DocInSelfTest, NullFileContext, ParseDocument, ParsedOld, ParsedSelfTest, PlatformAfterVerify, DropStream, Outcomes, DropActiveFile, IsDoc, PlainIds
    <3>7. CASE DocOfNewJob
      <4>0. IsDoc({"firmware", "file"})
        BY <3>7 DEF DocOfNewJob
      <4>1. PICK p \in {platState, "Aborted"} : RejectWhileTesting(p) \/ StartNewJob(p)
        BY <3>7 DEF DocOfNewJob, PlatformAfterVerify, Outcomes
      <4>2. CASE RejectWhileTesting(p)
        BY <3>0, HandlerQueue, ResetQueue, <4>0, <4>2 DEF RejectWhileTesting, ParseDocument, ParsedOld, ParsedSelfTest, IsDoc, PlainIds
      <4>3. CASE StartNewJob(p)
        BY <3>0, HandlerQueue, ResetQueue, <4>0, <4>3 DEF StartNewJob, NewDownload, DropStream, NullFileContext, ParseDocument, ParsedOld, ParsedSelfTest, IsDoc, PlainIds
      <4> QED  BY <4>1, <4>2, <4>3
    <3> QED  BY <2>3, <3>1, <3>2, <3>3, <3>4, <3>5, <3>6, <3>7 DEF ProcessJobHandler
  <2>4. CASE InSelfTestHandler
    BY <2>4, HandlerQueue, ResetQueue DEF InSelfTestHandler, PlainIds
  <2>5. CASE InitFileHandler
    BY <2>5, HandlerQueue DEF InitFileHandler, RetryOrShutdown, PlainIds
  <2>6. CASE RequestDataHandler
    BY <2>6, HandlerQueue DEF RequestDataHandler, PlainIds
  <2>7. CASE ProcessDataHandler
    <3>0. cur.id = "ReceivedFileBlock" /\ HeldBy(cur) = 1
      BY <2>7 DEF ProcessDataHandler, Takes, HeldBy, HoldsBuffer
    <3>1. CASE RejectBlock
      BY <3>0, <3>1, HandlerQueue DEF RejectBlock, FailDownload, PlainIds
    <3>2. CASE IgnoreDuplicate
      BY <3>0, <3>2, HandlerQueue DEF IgnoreDuplicate, PlainIds
    <3>3. CASE AcceptBlock
      BY <3>0, <3>3, HandlerQueue DEF AcceptBlock, PlainIds
    <3>4. CASE CloseFailed
      BY <3>0, <3>4, HandlerQueue DEF CloseFailed, FailDownload, PlainIds
    <3>5. CASE FileComplete
      <4>1. CASE ResetDevice
        BY <4>1, ResetQueue
      <4>2. CASE ~ResetDevice
        <5>1. /\ cur' = NoEvent /\ buffers' = buffers - 1
              /\ \/ queue' = Signal(Event("CloseFile"))
                 \/ /\ Len(Signal(Event("CloseFile"))) < QueueLen
                    /\ queue' = Append(Signal(Event("CloseFile")), Event("Shutdown"))
          BY <3>5, <4>2 DEF FileComplete
        <5>2. /\ Event("CloseFile") \in Events /\ HeldBy(Event("CloseFile")) = 0
              /\ Event("Shutdown") \in Events /\ HeldBy(Event("Shutdown")) = 0
          BY PlainEvents DEF PlainIds
        <5>3. Held(queue) \in Nat
          BY HeldNat DEF QueueInv, QueueTypeOK
        <5>4. /\ Signal(Event("CloseFile")) \in Seq(Events)
              /\ Len(Signal(Event("CloseFile"))) <= QueueLen
              /\ Held(Signal(Event("CloseFile"))) = Held(queue)
          BY <5>2, <5>3, SignalType DEF QueueInv
        <5>5. Held(Append(Signal(Event("CloseFile")), Event("Shutdown"))) = Held(queue)
          BY <5>2, <5>3, <5>4, HeldAppend
        <5> DEFINE closing == Signal(Event("CloseFile"))
        <5>6. queue' \in Seq(Events) /\ Len(queue') <= QueueLen /\ Held(queue') = Held(queue)
          <6>1. CASE queue' = closing
            BY <5>4, <6>1
          <6>2. CASE Len(closing) < QueueLen /\ queue' = Append(closing, Event("Shutdown"))
            <7> HIDE DEF closing
            <7>1. closing \in Seq(Events)
              BY <5>4 DEF closing
            <7>2. queue' \in Seq(Events) /\ Len(queue') <= QueueLen
              BY <5>2, <6>2, <7>1, Sizes
            <7>3. Held(queue') = Held(queue)
              BY <5>5, <6>2 DEF closing
            <7> QED  BY <7>2, <7>3
          <6> QED  BY <5>1, <6>1, <6>2
        <5> QED  BY <3>0, <5>1, <5>6, HandledQueue
      <4> QED  BY <4>1, <4>2
    <3> QED  BY <2>7, <3>1, <3>2, <3>3, <3>4, <3>5 DEF ProcessDataHandler
  <2>8. CASE CloseFileHandler
    BY <2>8, HandlerQueue DEF CloseFileHandler, PlainIds
  <2>9. CASE JobNotificationHandler
    BY <2>9, HandlerQueue DEF JobNotificationHandler, PlainIds
  <2>10. CASE UserAbortHandler
    BY <2>10, HandlerQueue DEF UserAbortHandler, PlainIds
  <2>11. CASE ShutdownHandler
    BY <2>11, HandlerQueue DEF ShutdownHandler, PlainIds
  <2>12. CASE SuspendHandler
    BY <2>12, HandlerQueue DEF SuspendHandler, PlainIds
  <2>13. CASE ResumeHandler
    BY <2>13, HandlerQueue DEF ResumeHandler, PlainIds
  <2>14. CASE HandleUnexpectedEvents
    BY <2>14, HandlerQueue DEF HandleUnexpectedEvents, PlainIds
  <2> QED  BY <1>1, <2>1, <2>2, <2>3, <2>4, <2>5, <2>6, <2>7, <2>8, <2>9, <2>10, <2>11, <2>12, <2>13, <2>14 DEF ExecuteHandler
<1>2. CASE Receive
  <2>1. /\ cur = NoEvent /\ queue # <<>> /\ cur' = Head(queue) /\ queue' = Tail(queue)
        /\ buffers' = buffers
    BY <1>2 DEF Receive
  <2>2. queue \in Seq(Events) /\ Len(queue) <= QueueLen /\ HeldBy(cur) = 0
    BY <2>1 DEF QueueInv, QueueTypeOK, HeldBy, HoldsBuffer, NoEvent
  <2>3. /\ Head(queue) \in Events /\ Tail(queue) \in Seq(Events)
        /\ Len(Tail(queue)) <= QueueLen
    BY <2>1, <2>2, Sizes
  <2>4. Held(queue) = Held(queue') + HeldBy(cur')
    BY <2>1, <2>2, HeldTail
  <2>5. Held(queue') + HeldBy(cur') <= buffers'
    BY <2>1, <2>2, <2>4, <2>3, HeldNat DEF QueueInv, BuffersHeld
  <2> QED  BY <2>1, <2>3, <2>5 DEF QueueInv, QueueTypeOK, BuffersHeld
<1>3. CASE OtaInit
  <2>1. queue' = <<>> /\ cur' = cur /\ cur = NoEvent /\ buffers' = buffers - Held(queue)
    BY <1>3 DEF OtaInit
  <2>2. Held(queue) \in Nat /\ Held(<<>>) = 0 /\ HeldBy(cur) = 0
    BY <2>1, HeldNat DEF QueueInv, QueueTypeOK, HeldBy, HoldsBuffer, NoEvent
  <2>3. Held(queue) + HeldBy(cur) <= buffers /\ buffers \in 0..NumBuffers
    BY DEF QueueInv, QueueTypeOK, BuffersHeld
  <2>4. buffers' \in 0..NumBuffers /\ Held(queue') + HeldBy(cur') <= buffers'
    BY <2>1, <2>2, <2>3, Sizes
  <2>5. queue' \in Seq(Events) /\ Len(queue') <= QueueLen
    BY <2>1, Sizes
  <2> QED  BY <2>1, <2>4, <2>5 DEF QueueInv, QueueTypeOK, BuffersHeld
<1>4. CASE OtaEventProcessingTask
  BY <1>4, SignalledQueue DEF OtaEventProcessingTask, PlainIds
<1>5. CASE RequestTimerExpires
  BY <1>5, SignalledQueue DEF RequestTimerExpires, PlainIds
<1>6. CASE SelfTestTimerExpires
  BY <1>6, ResetQueue DEF SelfTestTimerExpires
<1>7. CASE PowerLoss
  BY <1>7, ResetQueue DEF PowerLoss
<1>8. CASE JobDocumentArrives
  <2>1. \E e \in Events : HoldsBuffer(e) /\ Deliver(e)
    BY <1>8 DEF JobDocumentArrives, Offered, DocumentOf, Events, JobDocs, HoldsBuffer
  <2>2. cur' = cur
    BY <1>8 DEF JobDocumentArrives
  <2> QED  BY <2>1, <2>2, DeliverQueue
<1>9. CASE FileBlockArrives
  <2>1. \E e \in Events : HoldsBuffer(e) /\ Deliver(e)
    BY <1>9 DEF FileBlockArrives, FileBlockEvent, Events, FileBlocks, HoldsBuffer, ControlTypeOK, FileTypeOK
  <2>2. cur' = cur
    BY <1>9 DEF FileBlockArrives
  <2> QED  BY <2>1, <2>2, DeliverQueue
<1>10. CASE NoisyBlockArrives
  <2>1. \E e \in Events : HoldsBuffer(e) /\ Deliver(e)
    BY <1>10 DEF NoisyBlockArrives, FileBlockEvent, Events, FileBlocks, HoldsBuffer, ControlTypeOK
  <2>2. cur' = cur
    BY <1>10 DEF NoisyBlockArrives
  <2> QED  BY <2>1, <2>2, DeliverQueue
<1>11. CASE ConnectionLost
  BY <1>11, SignalledQueue DEF ConnectionLost, PlainIds
<1>12. CASE SuspendSignalled
  BY <1>12, SignalledQueue DEF SuspendSignalled, SignalFrom, PlainIds
<1>13. CASE SuspendSeen
  BY <1>13, SignalledQueue DEF SuspendSeen, PlainIds
<1>14. CASE Reconnected
  BY <1>14, SignalledQueue DEF Reconnected, PlainIds
<1>15. CASE ResumeTimers
  BY <1>15, SignalledQueue DEF ResumeTimers, PlainIds
<1>16. CASE ResumeSignalled
  BY <1>16, SignalledQueue DEF ResumeSignalled, SignalFrom, PlainIds
<1>17. CASE ResumeSeen
  BY <1>17, SignalledQueue DEF ResumeSeen, PlainIds
<1>18. CASE ApiCall
  BY <1>18, SignalledQueue DEF ApiCall, PlainIds
<1>19. CASE JobCanceled
  BY <1>19, SignalledQueue DEF JobCanceled, Updated, PlainIds
<1>20. CASE UNCHANGED vars
  BY <1>20, SignalledQueue DEF vars
<1> QED  BY <1>1, <1>2, <1>3, <1>4, <1>5, <1>6, <1>7, <1>8, <1>9, <1>10, <1>11, <1>12, <1>13, <1>14, <1>15, <1>16, <1>17, <1>18, <1>19, <1>20 DEF Next, AgentTask, MqttTask

(* The initial state.                                                      *)
LEMMA InitTyped == Init => TypeInv
<1> SUFFICES ASSUME Init PROVE TypeInv
  OBVIOUS
<1>1. QueueTypeOK /\ BuffersHeld
  <2>1. cur = NoEvent /\ queue = <<>> /\ buffers = 0
    BY DEF Init
  <2>2. <<>> \in Seq(Events) /\ Len(<<>>) = 0
    OBVIOUS
  <2>3. Held(<<>>) = 0 /\ HeldBy(NoEvent) = 0
    BY <2>2, HeldNat DEF HeldBy, HoldsBuffer, NoEvent
  <2> QED  BY <2>1, <2>2, <2>3, Sizes DEF QueueTypeOK, BuffersHeld
<1>2. ControlTypeOK
  BY DEF Init, ControlTypeOK, AgentStates, ImageStates, Statuses
<1>3. FlagTypeOK
  BY DEF Init, FlagTypeOK
<1>4. CountTypeOK
  BY Sizes DEF Init, CountTypeOK
<1>5. FileTypeOK
  BY BlockCount DEF Init, FileTypeOK, EmptySlot
<1> QED  BY <1>1, <1>2, <1>3, <1>4, <1>5 DEF TypeInv, TypeOK

LEMMA TypedStep == TypeInv /\ [Next]_vars => TypeInv'
<1> SUFFICES ASSUME TypeInv, [Next]_vars PROVE TypeInv'
  OBVIOUS
<1> USE DEF TypeInv, TypeOK
<1>1. QueueTypeOK' /\ BuffersHeld'
  BY QueueStep DEF QueueInv
<1>2. ControlTypeOK'
  BY ControlStep
<1>3. FlagTypeOK'
  BY FlagStep
<1>4. CountTypeOK'
  BY CountStep
<1>5. FileTypeOK'
  BY FileStep
<1> QED  BY <1>1, <1>2, <1>3, <1>4, <1>5

LEMMA TypedAlways == Spec => []TypeInv
BY InitTyped, TypedStep, PTL DEF Spec

(* Every variable keeps its type: the queue never exceeds its capacity,    *)
(* the retry counter its limit, blocksRemaining the size of the file.      *)
THEOREM TypeCorrect == Spec => []TypeOK
<1>1. TypeInv => TypeOK
  BY DEF TypeInv
<1> QED  BY <1>1, TypedAlways, PTL

(* No buffer is given back while an event that uses it is still queued or  *)
(* in hand, for every size of the queue and of the buffer pool.            *)
THEOREM BuffersStayHeld == Spec => []BuffersHeld
<1>1. TypeInv => BuffersHeld
  BY DEF TypeInv
<1> QED  BY <1>1, TypedAlways, PTL

-----------------------------------------------------------------------------
(* The integrity of a download, and that the agent implements OtaFile. Both*)
(* rest on one classification of the agent's steps by what they do to the  *)
(* open file and to the update slot.                                       *)


(* The file and the slot stay as they are, except that the file may be     *)
(* closed: every step that has nothing to write.                           *)
Untouched ==
  /\ slot' = slot /\ booted' = booted
  /\ fileOpen' => fileOpen /\ bitmap' = bitmap /\ remaining' = remaining

(* A file is created for a job.                                            *)
FileCreated ==
  /\ \E j \in Jobs : slot' = EmptySlot(j)
  /\ booted' = booted /\ fileOpen' = TRUE
  /\ bitmap' = Blocks /\ remaining' = Cardinality(Blocks)

(* A block is written: one of more to come, the last one of an image that  *)
(* fails its check, or the last one of a good image.                       *)
BlockWritten ==
  /\ cur.id = "ReceivedFileBlock"
  /\ AcceptBlock \/ CloseFailed \/ FileComplete

LEMMA FileMoves ==
  ASSUME TypeInv, [Next]_vars
  PROVE  Untouched \/ FileCreated \/ BlockWritten
<1> USE DEF Untouched, agent, file, doc, pace, timers, flash, stream, bounds, OtaClose, ResetDevice
<1>1. CASE ExecuteHandler
  <2>1. CASE StartHandler
    BY <2>1 DEF StartHandler
  <2>2. CASE RequestJobHandler
    BY <2>2 DEF RequestJobHandler
  <2>3. CASE ProcessJobHandler
    <3>0. QueueTypeOK /\ cur.id = "ReceivedJobDocument"
      BY <2>3 DEF ProcessJobHandler, Takes, TypeInv, TypeOK
    <3>1. CASE DocWithoutJob
      BY <3>1 DEF DocWithoutJob
    <3>2. CASE DocRejected
      BY <3>2 DEF DocRejected
    <3>3. CASE DocOfSizeZero
      BY <3>3 DEF DocOfSizeZero
    <3>4. CASE DocTooLarge
      BY <3>4 DEF DocTooLarge
    <3>5. CASE DocOfActiveJob
      BY <3>5 DEF DocOfActiveJob, RejectWhileTesting
    <3>6. CASE DocInSelfTest
      BY <3>6 DEF DocInSelfTest, DropActiveFile
    <3>7. CASE DocOfNewJob
      <4>0. cur.data.job \in Jobs
        BY <3>0, <3>7, DocInHand DEF DocOfNewJob, IsDoc
      <4>1. \/ \E p \in PlatformAfterVerify : RejectWhileTesting(p)
            \/ NewDownload /\ booted' = booted
            \/ OtaClose /\ slot' = slot /\ booted' = booted
        BY <3>7 DEF DocOfNewJob, StartNewJob
      <4> QED  BY <4>0, <4>1 DEF RejectWhileTesting, NewDownload, FileCreated
    <3> QED  BY <2>3, <3>1, <3>2, <3>3, <3>4, <3>5, <3>6, <3>7 DEF ProcessJobHandler
  <2>4. CASE InSelfTestHandler
    BY <2>4 DEF InSelfTestHandler
  <2>5. CASE InitFileHandler
    BY <2>5 DEF InitFileHandler
  <2>6. CASE RequestDataHandler
    BY <2>6 DEF RequestDataHandler
  <2>7. CASE ProcessDataHandler
    <3>0. cur.id = "ReceivedFileBlock"
      BY <2>7 DEF ProcessDataHandler, Takes
    <3>1. CASE RejectBlock
      BY <3>1 DEF RejectBlock, FailDownload
    <3>2. CASE IgnoreDuplicate
      BY <3>2 DEF IgnoreDuplicate
    <3> QED  BY <2>7, <3>0, <3>1, <3>2 DEF ProcessDataHandler, BlockWritten
  <2>8. CASE CloseFileHandler
    BY <2>8 DEF CloseFileHandler
  <2>9. CASE JobNotificationHandler
    BY <2>9 DEF JobNotificationHandler
  <2>10. CASE UserAbortHandler
    BY <2>10 DEF UserAbortHandler
  <2>11. CASE ShutdownHandler
    BY <2>11 DEF ShutdownHandler
  <2>12. CASE SuspendHandler
    BY <2>12 DEF SuspendHandler
  <2>13. CASE ResumeHandler
    BY <2>13 DEF ResumeHandler
  <2>14. CASE HandleUnexpectedEvents
    BY <2>14 DEF HandleUnexpectedEvents
  <2> QED  BY <1>1, <2>1, <2>2, <2>3, <2>4, <2>5, <2>6, <2>7, <2>8, <2>9, <2>10, <2>11, <2>12, <2>13, <2>14 DEF ExecuteHandler
<1>2. CASE Receive
  BY <1>2 DEF Receive
<1>3. CASE OtaInit
  BY <1>3 DEF OtaInit
<1>4. CASE OtaEventProcessingTask
  BY <1>4 DEF OtaEventProcessingTask
<1>5. CASE RequestTimerExpires
  BY <1>5 DEF RequestTimerExpires
<1>6. CASE SelfTestTimerExpires
  BY <1>6 DEF SelfTestTimerExpires
<1>7. CASE PowerLoss
  BY <1>7 DEF PowerLoss
<1>8. CASE JobDocumentArrives
  BY <1>8 DEF JobDocumentArrives
<1>9. CASE FileBlockArrives
  BY <1>9 DEF FileBlockArrives
<1>10. CASE NoisyBlockArrives
  BY <1>10 DEF NoisyBlockArrives
<1>11. CASE ConnectionLost
  BY <1>11 DEF ConnectionLost
<1>12. CASE SuspendSignalled
  BY <1>12 DEF SuspendSignalled, SignalFrom
<1>13. CASE SuspendSeen
  BY <1>13 DEF SuspendSeen
<1>14. CASE Reconnected
  BY <1>14 DEF Reconnected
<1>15. CASE ResumeTimers
  BY <1>15 DEF ResumeTimers
<1>16. CASE ResumeSignalled
  BY <1>16 DEF ResumeSignalled, SignalFrom
<1>17. CASE ResumeSeen
  BY <1>17 DEF ResumeSeen
<1>18. CASE ApiCall
  BY <1>18 DEF ApiCall
<1>19. CASE JobCanceled
  BY <1>19 DEF JobCanceled
<1>20. CASE UNCHANGED vars
  BY <1>20 DEF vars
<1> QED  BY <1>1, <1>2, <1>3, <1>4, <1>5, <1>6, <1>7, <1>8, <1>9, <1>10, <1>11, <1>12, <1>13, <1>14, <1>15, <1>16, <1>17, <1>18, <1>19, <1>20 DEF Next, AgentTask, MqttTask

(* What a written block does to the slot, given the accounting so far.     *)
LEMMA BlockStored ==
  ASSUME TypeInv, DownloadAccounting, cur.id = "ReceivedFileBlock", Fresh
  PROVE  /\ fileOpen /\ cur.data.block \in bitmap /\ cur.data.block \in Blocks
         /\ slot.job \in Jobs /\ ~slot.verified
         /\ slot.data[cur.data.block] = NoJob
         /\ Stored.job = slot.job /\ ~Stored.verified
         /\ \A b \in Blocks : b \in bitmap \ {cur.data.block} <=> Stored.data[b] = NoJob
         /\ Cardinality(bitmap \ {cur.data.block}) = remaining - 1
<1>1. /\ bitmap \subseteq Blocks /\ slot \in SlotType /\ cur.data.job \in Jobs
  BY BlockInHand DEF TypeInv, TypeOK, FileTypeOK, SlotType
<1>2. /\ fileOpen /\ cur.data.block \in bitmap /\ cur.data.block \in Blocks
  BY <1>1 DEF Fresh, CanStore
<1>3. /\ slot.job \in Jobs /\ ~slot.verified /\ remaining = Cardinality(bitmap)
      /\ \A b \in Blocks : b \in bitmap <=> slot.data[b] = NoJob
  BY <1>2 DEF DownloadAccounting
<1>4. Stored.job = slot.job /\ Stored.verified = slot.verified
  BY <1>1 DEF Stored, SlotType
<1>5. \A b \in Blocks : b \in bitmap \ {cur.data.block} <=> Stored.data[b] = NoJob
  <2>1. \A b \in Blocks : Stored.data[b] = IF b = cur.data.block THEN cur.data.job
                                           ELSE slot.data[b]
    BY <1>1, <1>2 DEF Stored, SlotType
  <2>2. cur.data.job # NoJob
    BY <1>1, JobsAssumption
  <2> QED  BY <1>3, <2>1, <2>2
<1>6. IsFiniteSet(bitmap)
  BY <1>1, BlocksAssumption, FS_Subset
<1>7. Cardinality(bitmap \ {cur.data.block}) = remaining - 1
  BY <1>2, <1>3, <1>6, FS_RemoveElement
<1> QED  BY <1>2, <1>3, <1>4, <1>5, <1>7

(* The accounting is kept by every step.                                   *)
LEMMA AccountingStep ==
  ASSUME TypeInv, DownloadAccounting, [Next]_vars
  PROVE  DownloadAccounting'
<1>1. CASE Untouched
  BY <1>1 DEF Untouched, DownloadAccounting
<1>2. CASE FileCreated
  <2>1. PICK j \in Jobs : slot' = EmptySlot(j)
    BY <1>2 DEF FileCreated
  <2>2. slot'.job = j /\ slot'.verified = FALSE /\ \A b \in Blocks : slot'.data[b] = NoJob
    BY <2>1 DEF EmptySlot
  <2> QED  BY <1>2, <2>2 DEF FileCreated, DownloadAccounting
<1>3. CASE BlockWritten
  <2>1. CASE AcceptBlock
    <3>1. Fresh /\ slot' = Stored /\ bitmap' = bitmap \ {cur.data.block}
          /\ remaining' = remaining - 1
      BY <2>1 DEF AcceptBlock
    <3> QED  BY <1>3, <3>1, BlockStored DEF BlockWritten, DownloadAccounting
  <2>2. CASE CloseFailed
    BY <2>2 DEF CloseFailed, DownloadAccounting
  <2>3. CASE FileComplete
    BY <2>3 DEF FileComplete, ResetDevice, DownloadAccounting
  <2> QED  BY <1>3, <2>1, <2>2, <2>3 DEF BlockWritten
<1> QED  BY <1>1, <1>2, <1>3, FileMoves

LEMMA AccountingAlways == Spec => [](TypeInv /\ DownloadAccounting)
<1>1. Init => DownloadAccounting
  BY DEF Init, DownloadAccounting
<1>2. TypeInv /\ DownloadAccounting /\ [Next]_vars => (TypeInv /\ DownloadAccounting)'
  BY TypedStep, AccountingStep
<1> QED  BY <1>1, <1>2, InitTyped, PTL DEF Spec

(* blocksRemaining, the bitmap and what is in flash agree as long as a file*)
(* is open, whatever blocks arrive, twice, late or for another job.        *)
THEOREM DownloadIntegrity == Spec => []DownloadAccounting
BY AccountingAlways, PTL

(* Only the last block of a slot that is its job's, all of it, verifies it,*)
(* and nothing is written afterwards.                                      *)
LEMMA VerifiedStep ==
  ASSUME TypeInv, DownloadAccounting, VerifiedOwn, [Next]_vars
  PROVE  VerifiedOwn'
<1>1. CASE Untouched
  BY <1>1 DEF Untouched, VerifiedOwn
<1>2. CASE FileCreated
  BY <1>2 DEF FileCreated, EmptySlot, VerifiedOwn
<1>3. CASE BlockWritten
  <2>1. Fresh /\ cur.id = "ReceivedFileBlock" /\ Stored \in SlotType
    BY <1>3, StoredType
       DEF BlockWritten, AcceptBlock, CloseFailed, FileComplete, TypeInv, TypeOK
  <2>2. ~Stored.verified
    BY <2>1, BlockStored
  <2>3. \/ slot' = Stored
        \/ slot' = [Stored EXCEPT !.verified = TRUE] /\ Genuine(Stored)
    BY <1>3 DEF BlockWritten, AcceptBlock, CloseFailed, FileComplete
  <2> QED  BY <2>1, <2>2, <2>3 DEF VerifiedOwn, Genuine, SlotType
<1> QED  BY <1>1, <1>2, <1>3, FileMoves

(* What is verified is one job's file, whole, although a block of another  *)
(* job's stream that is still queued may be written into it: the signature *)
(* check, the last of ingestDataBlock, is all that stands between.         *)
THEOREM VerifiedIsOwn == Spec => []VerifiedOwn
<1>1. Init => VerifiedOwn
  BY DEF Init, EmptySlot, VerifiedOwn
<1>2. TypeInv /\ DownloadAccounting /\ VerifiedOwn /\ [Next]_vars => VerifiedOwn'
  BY VerifiedStep
<1> QED  BY <1>1, <1>2, AccountingAlways, PTL DEF Spec

-----------------------------------------------------------------------------
(* Refinement: the phase of the slot and the blocks it holds.              *)

Phase(s, open) == IF s.verified THEN "verified" ELSE IF open THEN "open" ELSE "closed"
Got(s)         == {b \in Blocks : s.data[b] # NoJob}

(* OtaFile's actions over the agent's variables.                           *)
LEMMA FileActions ==
  /\ (File!vars' = File!vars) <=>
       /\ Phase(slot', fileOpen') = Phase(slot, fileOpen) /\ slot'.job = slot.job
       /\ Got(slot') = Got(slot) /\ booted' = booted
  /\ File!Init <=> /\ Phase(slot, fileOpen) = "closed" /\ slot.job = NoJob
                   /\ Got(slot) = {} /\ booted = NoJob
  /\ File!Create <=> /\ \E j \in Jobs : slot'.job = j
                     /\ Phase(slot', fileOpen') = "open" /\ Got(slot') = {}
                     /\ booted' = booted
  /\ File!Store <=> /\ Phase(slot, fileOpen) = "open"
                    /\ \E b \in Blocks \ Got(slot) : Got(slot') = Got(slot) \cup {b}
                    /\ Phase(slot', fileOpen') = Phase(slot, fileOpen)
                    /\ slot'.job = slot.job /\ booted' = booted
  /\ File!GiveUp <=> /\ Phase(slot, fileOpen) = "open"
                     /\ Phase(slot', fileOpen') = "closed"
                     /\ \E S \in SUBSET Blocks : Got(slot) \subseteq S /\ Got(slot') = S
                     /\ slot'.job = slot.job /\ booted' = booted
  /\ File!Verify <=> /\ Phase(slot, fileOpen) = "open"
                     /\ Phase(slot', fileOpen') = "verified"
                     /\ \E b \in Blocks \ Got(slot) : Got(slot) \cup {b} = Blocks
                     /\ Got(slot') = Blocks /\ slot'.job = slot.job
                     /\ booted' \in {booted, slot.job}
<1> USE DEF Phase, Got
<1>1. (File!vars' = File!vars) <=>
        /\ Phase(slot', fileOpen') = Phase(slot, fileOpen) /\ slot'.job = slot.job
        /\ Got(slot') = Got(slot) /\ booted' = booted
  BY DEF File!vars
<1>2. File!Init <=> /\ Phase(slot, fileOpen) = "closed" /\ slot.job = NoJob
                    /\ Got(slot) = {} /\ booted = NoJob
  BY DEF File!Init
<1>3. File!Create <=> /\ \E j \in Jobs : slot'.job = j
                      /\ Phase(slot', fileOpen') = "open" /\ Got(slot') = {}
                      /\ booted' = booted
  BY DEF File!Create
<1>4. File!Store <=> /\ Phase(slot, fileOpen) = "open"
                     /\ \E b \in Blocks \ Got(slot) : Got(slot') = Got(slot) \cup {b}
                     /\ Phase(slot', fileOpen') = Phase(slot, fileOpen)
                     /\ slot'.job = slot.job /\ booted' = booted
  BY DEF File!Store
<1>5. File!GiveUp <=> /\ Phase(slot, fileOpen) = "open"
                      /\ Phase(slot', fileOpen') = "closed"
                      /\ \E S \in SUBSET Blocks : Got(slot) \subseteq S /\ Got(slot') = S
                      /\ slot'.job = slot.job /\ booted' = booted
  BY DEF File!GiveUp
<1>6. File!Verify <=> /\ Phase(slot, fileOpen) = "open"
                      /\ Phase(slot', fileOpen') = "verified"
                      /\ \E b \in Blocks \ Got(slot) : Got(slot) \cup {b} = Blocks
                      /\ Got(slot') = Blocks /\ slot'.job = slot.job
                      /\ booted' \in {booted, slot.job}
  BY DEF File!Verify
<1> QED  BY <1>1, <1>2, <1>3, <1>4, <1>5, <1>6

LEMMA InitImplements == Init => File!Init
<1> SUFFICES ASSUME Init PROVE File!Init
  OBVIOUS
<1>1. slot = EmptySlot(NoJob) /\ ~fileOpen /\ booted = NoJob
  BY DEF Init
<1>2. slot.job = NoJob /\ slot.verified = FALSE /\ \A b \in Blocks : slot.data[b] = NoJob
  BY <1>1 DEF EmptySlot
<1>3. Phase(slot, fileOpen) = "closed"
  BY <1>1, <1>2 DEF Phase
<1>4. Got(slot) = {}
  BY <1>2 DEF Got
<1> QED  BY <1>1, <1>2, <1>3, <1>4, FileActions

(* A step of the agent is a step of OtaFile, or leaves it alone.           *)
LEMMA StepImplements ==
  ASSUME TypeInv, DownloadAccounting, [Next]_vars
  PROVE  [File!Next]_File!vars
<1>0. slot \in SlotType /\ Got(slot) \subseteq Blocks
  BY DEF TypeInv, TypeOK, FileTypeOK, SlotType, Got
<1>1. CASE Untouched
  <2>1. slot' = slot /\ booted' = booted /\ (fileOpen' => fileOpen)
    BY <1>1 DEF Untouched
  <2>2. CASE Phase(slot', fileOpen') = Phase(slot, fileOpen)
    <3>1. File!vars' = File!vars
      BY <2>1, <2>2, FileActions
    <3> QED  BY <3>1
  <2>3. CASE Phase(slot', fileOpen') # Phase(slot, fileOpen)
    <3>1. Phase(slot, fileOpen) = "open" /\ Phase(slot', fileOpen') = "closed"
      BY <2>1, <2>3 DEF Phase
    <3> QED  BY <1>0, <2>1, <3>1, FileActions DEF File!Next
  <2> QED  BY <2>2, <2>3
<1>2. CASE FileCreated
  <2>1. PICK j \in Jobs : slot' = EmptySlot(j)
    BY <1>2 DEF FileCreated
  <2>2. slot'.job = j /\ slot'.verified = FALSE /\ \A b \in Blocks : slot'.data[b] = NoJob
    BY <2>1 DEF EmptySlot
  <2>3. fileOpen'
    BY <1>2 DEF FileCreated
  <2>4. Phase(slot', fileOpen') = "open" /\ Got(slot') = {}
    BY <2>2, <2>3 DEF Phase, Got
  <2>5. File!Create
    BY <1>2, <2>2, <2>4, FileActions DEF FileCreated
  <2> QED  BY <2>5 DEF File!Next
<1>3. CASE BlockWritten
  <2>1. /\ cur.id = "ReceivedFileBlock" /\ Fresh
        /\ AcceptBlock \/ CloseFailed \/ FileComplete
    BY <1>3 DEF BlockWritten, AcceptBlock, CloseFailed, FileComplete
  <2> DEFINE b == cur.data.block
  <2>2. /\ fileOpen /\ b \in Blocks /\ slot.job \in Jobs /\ ~slot.verified
        /\ Stored.job = slot.job /\ ~Stored.verified /\ slot.data[b] = NoJob
        /\ b \in bitmap
        /\ \A c \in Blocks : c \in bitmap <=> slot.data[c] = NoJob
        /\ \A c \in Blocks : c \in bitmap \ {b} <=> Stored.data[c] = NoJob
        /\ Cardinality(bitmap \ {b}) = remaining - 1
    BY <2>1, BlockStored DEF DownloadAccounting
  <2> HIDE DEF b
  <2>3. b \in Blocks \ Got(slot) /\ Got(Stored) = Got(slot) \cup {b}
    BY <2>2 DEF Got
  <2>4. Phase(slot, fileOpen) = "open"
    BY <2>2 DEF Phase
  <2>5. CASE AcceptBlock
    <3>1. slot' = Stored /\ fileOpen' = fileOpen /\ booted' = booted
      BY <2>5 DEF AcceptBlock, flash
    <3>2. Phase(slot', fileOpen') = "open"
      BY <2>2, <3>1 DEF Phase
    <3>3. File!Store
      BY <2>2, <2>3, <2>4, <3>1, <3>2, FileActions
    <3> QED  BY <3>3 DEF File!Next
  <2>6. CASE CloseFailed
    <3>1. slot' = Stored /\ ~fileOpen' /\ booted' = booted
      BY <2>6 DEF CloseFailed, FailDownload
    <3>2. Phase(slot', fileOpen') = "closed"
      BY <2>2, <3>1 DEF Phase
    <3>3. Got(slot') \in SUBSET Blocks /\ Got(slot) \subseteq Got(slot')
      BY <2>3, <3>1 DEF Got
    <3>4. File!GiveUp
      BY <2>2, <2>4, <3>1, <3>2, <3>3, FileActions
    <3> QED  BY <3>4 DEF File!Next
  <2>7. CASE FileComplete
    <3>1. /\ slot' = [Stored EXCEPT !.verified = TRUE] /\ Genuine(Stored) /\ remaining = 1
          /\ booted' \in {booted, slot.job}
      BY <2>7 DEF FileComplete
    <3>2. Stored \in SlotType
      BY <2>1, StoredType DEF TypeInv, TypeOK
    <3>3. slot'.verified /\ slot'.job = slot.job /\ slot'.data = Stored.data
      BY <2>2, <3>1, <3>2 DEF SlotType
    <3>4. Phase(slot', fileOpen') = "verified"
      BY <3>3 DEF Phase
    <3>5. \A c \in Blocks : Stored.data[c] # NoJob
      BY <2>2, <3>1, JobsAssumption DEF Genuine
    <3>6. Got(slot') = Blocks /\ Got(slot) \cup {b} = Blocks
      BY <2>3, <3>3, <3>5 DEF Got
    <3>7. File!Verify
      BY <2>3, <2>4, <3>1, <3>3, <3>4, <3>6, FileActions
    <3> QED  BY <3>7 DEF File!Next
  <2> QED  BY <2>1, <2>5, <2>6, <2>7
<1> QED  BY <1>1, <1>2, <1>3, FileMoves

(* The agent implements OtaFile: under every order of events, faults and   *)
(* resets, blocks only accumulate in a slot open for one job, the image is *)
(* verified only when the slot is complete, and only it is ever booted.    *)
THEOREM Implements == Spec => FileSpec
<1>1. TypeInv /\ DownloadAccounting /\ [Next]_vars => [File!Next]_File!vars
  BY StepImplements
<1> QED  BY <1>1, InitImplements, AccountingAlways, PTL DEF Spec, FileSpec, File!Spec

-----------------------------------------------------------------------------
(* Suspensions. A Suspend event is under way only while the MQTT task      *)
(* waits for it to be seen (or has stopped on an assertion), and no second *)
(* one beside it; so an agent that is back at work has none in front of it.*)

NoSuspend(q)  == \A i \in DOMAIN q : q[i].id # "Suspend"
OneSuspend(q) == \A i, k \in DOMAIN q : q[i].id = "Suspend" /\ q[k].id = "Suspend" => i = k

SuspendsInTurn ==
  /\ conn \notin {"suspendWait", "halted"} => NoSuspend(queue) /\ cur.id # "Suspend"
  /\ conn = "suspendWait" =>
       /\ OneSuspend(queue)
       /\ cur.id = "Suspend" \/ state = "Suspended" => NoSuspend(queue)
       /\ state = "Suspended" => cur.id # "Suspend"
  /\ state = "Suspended" => conn \notin {"up", "suspending"}

(* What a step that adds an event other than Suspend leaves as it was.     *)
SuspendsKept == /\ NoSuspend(queue) => NoSuspend(queue')
                /\ OneSuspend(queue) => OneSuspend(queue')

LEMMA AddedKeeps ==
  ASSUME NEW q \in Seq(Events), NEW e \in Events, e.id # "Suspend"
  PROVE  /\ NoSuspend(q) => NoSuspend(Append(q, e))
         /\ OneSuspend(q) => OneSuspend(Append(q, e))
BY DEF NoSuspend, OneSuspend

LEMMA SignalKeeps ==
  ASSUME QueueTypeOK, NEW e \in Events, e.id # "Suspend", queue' = Signal(e)
  PROVE  SuspendsKept
BY AddedKeeps DEF QueueTypeOK, Signal, SuspendsKept

LEMMA PlainKeeps ==
  ASSUME QueueTypeOK,
         queue' = queue \/ \E i \in PlainIds \ {"Suspend"} : queue' = Signal(Event(i))
  PROVE  SuspendsKept
<1>1. CASE queue' = queue
  BY <1>1 DEF SuspendsKept, NoSuspend, OneSuspend
<1>2. ASSUME NEW i \in PlainIds \ {"Suspend"}, queue' = Signal(Event(i))
      PROVE  SuspendsKept
  <2>1. Event(i) \in Events /\ Event(i).id # "Suspend"
    BY PlainEvents DEF Event
  <2> QED  BY <1>2, <2>1, SignalKeeps
<1> QED  BY <1>1, <1>2

(* A handler that does not reset the device ends with no event in hand and *)
(* suspends the agent only on a Suspend event.                             *)
Handles ==
  /\ cur' = NoEvent /\ conn' = conn /\ SuspendsKept
  /\ state' = "Suspended" => cur.id = "Suspend" \/ state = "Suspended"

LEMMA HandlersKeep ==
  ASSUME QueueTypeOK, ExecuteHandler
  PROVE  ResetDevice \/ Handles

<1> USE DEF Done, Takes
<1>1. CASE StartHandler
  BY <1>1, PlainKeeps DEF StartHandler, Handles, PlainIds
<1>2. CASE RequestJobHandler
  BY <1>2, PlainKeeps DEF RequestJobHandler, RetryOrShutdown, Handles, PlainIds
<1>3. CASE ProcessJobHandler
  <2>0. cur.id = "ReceivedJobDocument" /\ state = "WaitingForJob"
    BY <1>3 DEF ProcessJobHandler, Takes
  <2>1. CASE DocWithoutJob
    BY <2>0, <2>1, PlainKeeps DEF DocWithoutJob, NullFileContext, Handles, PlainIds
  <2>2. CASE DocRejected
    BY <2>0, <2>2, PlainKeeps DEF DocRejected, NullFileContext, Report, Updated, IsDoc, Handles, PlainIds
  <2>3. CASE DocOfSizeZero
    BY <2>0, <2>3, PlainKeeps DEF DocOfSizeZero, NullFileContext, Handles, PlainIds
  <2>4. CASE DocTooLarge
    BY <2>0, <2>4, PlainKeeps DEF DocTooLarge, NullFileContext, ParseDocument, ParsedOld, ParsedSelfTest, PlatformAfterVerify, DropStream, Outcomes, IsDoc, Handles, PlainIds
  <2>5. CASE DocOfActiveJob
    BY <2>0, <2>5, PlainKeeps DEF DocOfActiveJob, ParseDocument, ParsedOld, ParsedSelfTest, RejectWhileTesting, IsDoc, Handles, PlainIds
  <2>6. CASE DocInSelfTest
    BY <2>0, <2>6, PlainKeeps DEF DocInSelfTest, NullFileContext, ParseDocument, ParsedOld, ParsedSelfTest, PlatformAfterVerify, DropStream, Outcomes, DropActiveFile, IsDoc, Handles, PlainIds
  <2>7. CASE DocOfNewJob
    <3>0. IsDoc({"firmware", "file"})
      BY <2>7 DEF DocOfNewJob
    <3>1. PICK p \in {platState, "Aborted"} : RejectWhileTesting(p) \/ StartNewJob(p)
      BY <2>7 DEF DocOfNewJob, PlatformAfterVerify, Outcomes
    <3>2. CASE RejectWhileTesting(p)
      BY <2>0, PlainKeeps, <3>0, <3>2 DEF RejectWhileTesting, ParseDocument, ParsedOld, ParsedSelfTest, IsDoc, Handles, PlainIds
    <3>3. CASE StartNewJob(p)
      BY <2>0, PlainKeeps, <3>0, <3>3 DEF StartNewJob, NewDownload, DropStream, NullFileContext, ParseDocument, ParsedOld, ParsedSelfTest, IsDoc, Handles, PlainIds
    <3> QED  BY <3>1, <3>2, <3>3
  <2> QED  BY <1>3, <2>1, <2>2, <2>3, <2>4, <2>5, <2>6, <2>7 DEF ProcessJobHandler
<1>4. CASE InSelfTestHandler
  BY <1>4, PlainKeeps DEF InSelfTestHandler, Handles, PlainIds
<1>5. CASE InitFileHandler
  BY <1>5, PlainKeeps DEF InitFileHandler, RetryOrShutdown, Handles, PlainIds
<1>6. CASE RequestDataHandler
  BY <1>6, PlainKeeps DEF RequestDataHandler, Handles, PlainIds
<1>7. CASE ProcessDataHandler
  <2>0. cur.id = "ReceivedFileBlock" /\ state = "WaitingForFileBlock"
    BY <1>7 DEF ProcessDataHandler, Takes
  <2>1. CASE RejectBlock
    BY <2>0, <2>1, PlainKeeps DEF RejectBlock, FailDownload, Handles, PlainIds
  <2>2. CASE IgnoreDuplicate
    BY <2>0, <2>2, PlainKeeps DEF IgnoreDuplicate, Handles, PlainIds
  <2>3. CASE AcceptBlock
    BY <2>0, <2>3, PlainKeeps DEF AcceptBlock, Handles, PlainIds
  <2>4. CASE CloseFailed
    BY <2>0, <2>4, PlainKeeps DEF CloseFailed, FailDownload, Handles, PlainIds
  <2>5. CASE FileComplete
    <3>1. CASE ResetDevice
      BY <3>1
    <3>2. CASE ~ResetDevice
      <4> DEFINE closing == Signal(Event("CloseFile"))
      <4>1. /\ cur' = NoEvent /\ state' = "WaitingForFileBlock" /\ conn' = conn
            /\ \/ queue' = closing
               \/ Len(closing) < QueueLen /\ queue' = Append(closing, Event("Shutdown"))
        BY <2>5, <3>2 DEF FileComplete, Done
      <4>2. /\ Event("CloseFile") \in Events /\ Event("Shutdown") \in Events
            /\ Event("CloseFile").id # "Suspend" /\ Event("Shutdown").id # "Suspend"
        BY PlainEvents DEF PlainIds, Event
      <4>3. /\ closing \in Seq(Events)
            /\ NoSuspend(queue) => NoSuspend(closing)
            /\ OneSuspend(queue) => OneSuspend(closing)
        BY <4>2, SignalType, AddedKeeps DEF QueueTypeOK, Signal
      <4> HIDE DEF closing
      <4>4. SuspendsKept
        BY <4>1, <4>2, <4>3, AddedKeeps DEF SuspendsKept
      <4> QED  BY <4>1, <4>4 DEF Handles
    <3> QED  BY <3>1, <3>2
  <2> QED  BY <1>7, <2>1, <2>2, <2>3, <2>4, <2>5 DEF ProcessDataHandler
<1>8. CASE CloseFileHandler
  BY <1>8, PlainKeeps DEF CloseFileHandler, Handles, PlainIds
<1>9. CASE JobNotificationHandler
  BY <1>9, PlainKeeps DEF JobNotificationHandler, Handles, PlainIds
<1>10. CASE UserAbortHandler
  BY <1>10, PlainKeeps DEF UserAbortHandler, Handles, PlainIds
<1>11. CASE ShutdownHandler
  BY <1>11, PlainKeeps DEF ShutdownHandler, Handles, PlainIds
<1>12. CASE SuspendHandler
  BY <1>12, PlainKeeps DEF SuspendHandler, Handles, PlainIds
<1>13. CASE ResumeHandler
  BY <1>13, PlainKeeps DEF ResumeHandler, Handles, PlainIds
<1>14. CASE HandleUnexpectedEvents
  BY <1>14, PlainKeeps DEF HandleUnexpectedEvents, Handles, PlainIds
<1> QED  BY <1>1, <1>2, <1>3, <1>4, <1>5, <1>6, <1>7, <1>8, <1>9, <1>10, <1>11, <1>12, <1>13, <1>14 DEF ExecuteHandler

LEMMA SuspendsStep ==
  ASSUME QueueTypeOK, ControlTypeOK, FileTypeOK, SuspendsInTurn, [Next]_vars
  PROVE  SuspendsInTurn'
<1>1. CASE ExecuteHandler
  <2>1. CASE ResetDevice
    BY <2>1 DEF ResetDevice, SuspendsInTurn, NoSuspend, NoEvent
  <2>2. CASE Handles
    BY <2>2 DEF Handles, SuspendsInTurn, SuspendsKept, NoEvent
  <2> QED  BY <1>1, <2>1, <2>2, HandlersKeep
<1>2. CASE Receive
  <2>1. /\ queue \in Seq(Events) /\ queue # <<>> /\ cur' = Head(queue)
        /\ queue' = Tail(queue) /\ UNCHANGED <<state, conn>>
    BY <1>2 DEF Receive, QueueTypeOK
  <2>2. /\ NoSuspend(queue) => NoSuspend(Tail(queue)) /\ Head(queue).id # "Suspend"
        /\ OneSuspend(queue) => /\ OneSuspend(Tail(queue))
                                /\ Head(queue).id = "Suspend" => NoSuspend(Tail(queue))
    BY <2>1 DEF NoSuspend, OneSuspend
  <2> QED  BY <2>1, <2>2 DEF SuspendsInTurn
<1>3. CASE OtaInit
  BY <1>3 DEF OtaInit, SuspendsInTurn, NoSuspend, OneSuspend, NoEvent
<1>4. CASE OtaEventProcessingTask
  BY <1>4, PlainKeeps DEF OtaEventProcessingTask, SuspendsInTurn, SuspendsKept, PlainIds
<1>5. CASE RequestTimerExpires
  BY <1>5, PlainKeeps DEF RequestTimerExpires, SuspendsInTurn, SuspendsKept, PlainIds
<1>6. CASE SelfTestTimerExpires
  BY <1>6 DEF SelfTestTimerExpires, ResetDevice, SuspendsInTurn, NoSuspend, NoEvent
<1>7. CASE PowerLoss
  BY <1>7 DEF PowerLoss, ResetDevice, SuspendsInTurn, NoSuspend, NoEvent
<1>8. CASE JobDocumentArrives
  <2>1. \E e \in Events : e.id # "Suspend" /\ Deliver(e)
    BY <1>8 DEF JobDocumentArrives, Offered, DocumentOf, Events, JobDocs
  <2>2. SuspendsKept
    BY <2>1, SignalKeeps DEF Deliver, SuspendsKept, NoSuspend, OneSuspend
  <2>3. UNCHANGED <<state, cur, conn>>
    BY <1>8 DEF JobDocumentArrives
  <2> QED  BY <2>2, <2>3 DEF SuspendsInTurn, SuspendsKept
<1>9. CASE FileBlockArrives
  <2>1. \E e \in Events : e.id # "Suspend" /\ Deliver(e)
    BY <1>9 DEF FileBlockArrives, FileBlockEvent, Events, FileBlocks, ControlTypeOK, FileTypeOK
  <2>2. SuspendsKept
    BY <2>1, SignalKeeps DEF Deliver, SuspendsKept, NoSuspend, OneSuspend
  <2>3. UNCHANGED <<state, cur, conn>>
    BY <1>9 DEF FileBlockArrives
  <2> QED  BY <2>2, <2>3 DEF SuspendsInTurn, SuspendsKept
<1>10. CASE NoisyBlockArrives
  <2>1. \E e \in Events : e.id # "Suspend" /\ Deliver(e)
    BY <1>10 DEF NoisyBlockArrives, FileBlockEvent, Events, FileBlocks, ControlTypeOK
  <2>2. SuspendsKept
    BY <2>1, SignalKeeps DEF Deliver, SuspendsKept, NoSuspend, OneSuspend
  <2>3. UNCHANGED <<state, cur, conn>>
    BY <1>10 DEF NoisyBlockArrives
  <2> QED  BY <2>2, <2>3 DEF SuspendsInTurn, SuspendsKept
<1>11. CASE ConnectionLost
  BY <1>11, PlainKeeps DEF ConnectionLost, SuspendsInTurn, SuspendsKept, PlainIds
<1>12. CASE SuspendSignalled
  <2>1. /\ conn = "suspending" /\ UNCHANGED <<state, cur>> /\ queue \in Seq(Events)
        /\ \/ queue' = Append(queue, Event("Suspend")) /\ conn' = "suspendWait"
           \/ queue' = queue /\ conn' = "halted"
    BY <1>12 DEF SuspendSignalled, SignalFrom, Signal, QueueTypeOK
  <2>2. NoSuspend(queue) /\ cur.id # "Suspend" /\ state # "Suspended"
    BY <2>1 DEF SuspendsInTurn
  <2>3. OneSuspend(Append(queue, Event("Suspend")))
    BY <2>1, <2>2 DEF NoSuspend, OneSuspend
  <2> QED  BY <2>1, <2>2, <2>3 DEF SuspendsInTurn
<1>13. CASE SuspendSeen
  BY <1>13, PlainKeeps DEF SuspendSeen, SuspendsInTurn, SuspendsKept, PlainIds
<1>14. CASE Reconnected
  BY <1>14, PlainKeeps DEF Reconnected, SuspendsInTurn, SuspendsKept, PlainIds
<1>15. CASE ResumeTimers
  BY <1>15, PlainKeeps DEF ResumeTimers, SuspendsInTurn, SuspendsKept, PlainIds
<1>16. CASE ResumeSignalled
  BY <1>16, PlainKeeps DEF ResumeSignalled, SignalFrom, SuspendsInTurn, SuspendsKept, PlainIds
<1>17. CASE ResumeSeen
  BY <1>17, PlainKeeps DEF ResumeSeen, SuspendsInTurn, SuspendsKept, PlainIds
<1>18. CASE ApiCall
  BY <1>18, PlainKeeps DEF ApiCall, SuspendsInTurn, SuspendsKept, PlainIds
<1>19. CASE JobCanceled
  BY <1>19, PlainKeeps DEF JobCanceled, Updated, SuspendsInTurn, SuspendsKept, PlainIds
<1>20. CASE UNCHANGED vars
  BY <1>20, PlainKeeps DEF vars, SuspendsInTurn, SuspendsKept, PlainIds
<1> QED  BY <1>1, <1>2, <1>3, <1>4, <1>5, <1>6, <1>7, <1>8, <1>9, <1>10, <1>11, <1>12, <1>13, <1>14, <1>15, <1>16, <1>17, <1>18, <1>19, <1>20 DEF Next, AgentTask, MqttTask

(* The self-test timer, from the Start event to a lost connection and from *)
(* OTA_Resume on.                                                          *)
TestWatched ==
  InSelfTest(platState) /\ imageState = "Unknown" /\ conn \in {"up", "resuming", "resumeWait"}
    /\ state \notin {"Stopped", "Init", "Ready"}
    => selfTestTimer

LEMMA WatchedStep ==
  ASSUME TypeInv, SuspendsInTurn, TestWatched, [Next]_vars
  PROVE  TestWatched'
<1> USE DEF TestWatched, InSelfTest, Done, Takes, agent, file, doc, pace, timers, flash, stream, bounds, StartSelfTestTimer, ResetDevice
<1>1. CASE ExecuteHandler
  <2>1. CASE StartHandler
    BY <2>1 DEF StartHandler
  <2>2. CASE RequestJobHandler
    BY <2>2 DEF RequestJobHandler, RetryOrShutdown
  <2>3. CASE ProcessJobHandler
    <3>0. cur.id = "ReceivedJobDocument" /\ state = "WaitingForJob"
      BY <2>3 DEF ProcessJobHandler, Takes
    <3>1. CASE DocWithoutJob
      BY <3>0, <3>1 DEF DocWithoutJob, NullFileContext
    <3>2. CASE DocRejected
      BY <3>0, <3>2 DEF DocRejected, NullFileContext, Report, Updated, IsDoc
    <3>3. CASE DocOfSizeZero
      BY <3>0, <3>3 DEF DocOfSizeZero, NullFileContext
    <3>4. CASE DocTooLarge
      BY <3>0, <3>4 DEF DocTooLarge, NullFileContext, ParseDocument, ParsedOld, ParsedSelfTest, PlatformAfterVerify, DropStream, Outcomes, IsDoc
    <3>5. CASE DocOfActiveJob
      BY <3>0, <3>5 DEF DocOfActiveJob, ParseDocument, ParsedOld, ParsedSelfTest, RejectWhileTesting, IsDoc, SetImageState
    <3>6. CASE DocInSelfTest
      BY <3>0, <3>6 DEF DocInSelfTest, NullFileContext, ParseDocument, ParsedOld, ParsedSelfTest, PlatformAfterVerify, DropStream, Outcomes, DropActiveFile, IsDoc, SetImageState
    <3>7. CASE DocOfNewJob
      <4>0. IsDoc({"firmware", "file"})
        BY <3>7 DEF DocOfNewJob
      <4>1. PICK p \in {platState, "Aborted"} : RejectWhileTesting(p) \/ StartNewJob(p)
        BY <3>7 DEF DocOfNewJob, PlatformAfterVerify, Outcomes
      <4>2. CASE RejectWhileTesting(p)
        BY <3>0, <4>0, <4>2 DEF RejectWhileTesting, ParseDocument, ParsedOld, ParsedSelfTest, IsDoc, SetImageState
      <4>3. CASE StartNewJob(p)
        BY <3>0, <4>0, <4>3 DEF StartNewJob, NewDownload, DropStream, NullFileContext, ParseDocument, ParsedOld, ParsedSelfTest, IsDoc, SetImageState
      <4> QED  BY <4>1, <4>2, <4>3
    <3> QED  BY <2>3, <3>1, <3>2, <3>3, <3>4, <3>5, <3>6, <3>7 DEF ProcessJobHandler
  <2>4. CASE InSelfTestHandler
    BY <2>4 DEF InSelfTestHandler, SetImageState
  <2>5. CASE InitFileHandler
    BY <2>5 DEF InitFileHandler, RetryOrShutdown
  <2>6. CASE RequestDataHandler
    BY <2>6 DEF RequestDataHandler, SetImageState
  <2>7. CASE ProcessDataHandler
    <3>0. cur.id = "ReceivedFileBlock" /\ state = "WaitingForFileBlock"
      BY <2>7 DEF ProcessDataHandler, Takes
    <3>1. CASE RejectBlock
      BY <3>0, <3>1 DEF RejectBlock, FailDownload
    <3>2. CASE IgnoreDuplicate
      BY <3>0, <3>2 DEF IgnoreDuplicate
    <3>3. CASE AcceptBlock
      BY <3>0, <3>3 DEF AcceptBlock
    <3>4. CASE CloseFailed
      BY <3>0, <3>4 DEF CloseFailed, FailDownload
    <3>5. CASE FileComplete
      BY <3>0, <3>5 DEF FileComplete
    <3> QED  BY <2>7, <3>1, <3>2, <3>3, <3>4, <3>5 DEF ProcessDataHandler
  <2>8. CASE CloseFileHandler
    BY <2>8 DEF CloseFileHandler
  <2>9. CASE JobNotificationHandler
    BY <2>9 DEF JobNotificationHandler
  <2>10. CASE UserAbortHandler
    BY <2>10 DEF UserAbortHandler, SetImageState
  <2>11. CASE ShutdownHandler
    BY <2>11 DEF ShutdownHandler
  <2>12. CASE SuspendHandler
    BY <2>12 DEF SuspendHandler, SuspendsInTurn
  <2>13. CASE ResumeHandler
    BY <2>13 DEF ResumeHandler
  <2>14. CASE HandleUnexpectedEvents
    BY <2>14 DEF HandleUnexpectedEvents
  <2> QED  BY <1>1, <2>1, <2>2, <2>3, <2>4, <2>5, <2>6, <2>7, <2>8, <2>9, <2>10, <2>11, <2>12, <2>13, <2>14 DEF ExecuteHandler
<1>2. CASE Receive
  BY <1>2 DEF Receive
<1>3. CASE OtaInit
  BY <1>3 DEF OtaInit
<1>4. CASE OtaEventProcessingTask
  BY <1>4 DEF OtaEventProcessingTask
<1>5. CASE RequestTimerExpires
  BY <1>5 DEF RequestTimerExpires
<1>6. CASE SelfTestTimerExpires
  BY <1>6 DEF SelfTestTimerExpires
<1>7. CASE PowerLoss
  BY <1>7 DEF PowerLoss
<1>8. CASE JobDocumentArrives
  BY <1>8 DEF JobDocumentArrives, Deliver
<1>9. CASE FileBlockArrives
  BY <1>9 DEF FileBlockArrives, Deliver
<1>10. CASE NoisyBlockArrives
  BY <1>10 DEF NoisyBlockArrives, Deliver
<1>11. CASE ConnectionLost
  BY <1>11 DEF ConnectionLost
<1>12. CASE SuspendSignalled
  BY <1>12 DEF SuspendSignalled, SignalFrom
<1>13. CASE SuspendSeen
  BY <1>13 DEF SuspendSeen
<1>14. CASE Reconnected
  BY <1>14 DEF Reconnected
<1>15. CASE ResumeTimers
  BY <1>15 DEF ResumeTimers
<1>16. CASE ResumeSignalled
  BY <1>16 DEF ResumeSignalled, SignalFrom
<1>17. CASE ResumeSeen
  BY <1>17 DEF ResumeSeen
<1>18. CASE ApiCall
  BY <1>18 DEF ApiCall
<1>19. CASE JobCanceled
  BY <1>19 DEF JobCanceled, Updated
<1>20. CASE UNCHANGED vars
  BY <1>20 DEF vars
<1> QED  BY <1>1, <1>2, <1>3, <1>4, <1>5, <1>6, <1>7, <1>8, <1>9, <1>10, <1>11, <1>12, <1>13, <1>14, <1>15, <1>16, <1>17, <1>18, <1>19, <1>20 DEF Next, AgentTask, MqttTask

(* What the documents of the session announced: a self-test under way, an  *)
(* image the agent knows to be under test, or another job's name over an   *)
(* open file, come from a document with the self-test flag.                *)
TestAnnounced ==
  /\ imageState = "Testing" => selfTestDoc
  /\ state = "CreatingFile" /\ InSelfTest(platState) => selfTestDoc
  /\ fileOpen /\ activeJob \notin {slot.job, NoJob} => selfTestDoc

LEMMA AnnouncedStep ==
  ASSUME TypeInv, TestAnnounced, [Next]_vars
  PROVE  TestAnnounced'
<1> USE DEF TestAnnounced, InSelfTest, Done, Takes, agent, file, doc, pace, timers, flash, stream, bounds, OtaClose, ResetDevice
<1>1. CASE ExecuteHandler
  <2>1. CASE StartHandler
    BY <2>1 DEF StartHandler
  <2>2. CASE RequestJobHandler
    BY <2>2 DEF RequestJobHandler, RetryOrShutdown
  <2>3. CASE ProcessJobHandler
    <3>0. cur.id = "ReceivedJobDocument" /\ state = "WaitingForJob"
      BY <2>3 DEF ProcessJobHandler, Takes
    <3>1. CASE DocWithoutJob
      BY <3>0, <3>1 DEF DocWithoutJob, NullFileContext
    <3>2. CASE DocRejected
      BY <3>0, <3>2 DEF DocRejected, NullFileContext, Report, Updated, IsDoc
    <3>3. CASE DocOfSizeZero
      BY <3>0, <3>3 DEF DocOfSizeZero, NullFileContext
    <3>4. CASE DocTooLarge
      BY <3>0, <3>4 DEF DocTooLarge, NullFileContext, ParseDocument, ParsedOld, ParsedSelfTest, PlatformAfterVerify, DropStream, Outcomes, IsDoc
    <3>5. CASE DocOfActiveJob
      <4>1. CASE ResetDevice
        BY <4>1
      <4>2. CASE ~ResetDevice
        <5>1. /\ platState # "Testing" /\ ParseDocument
              /\ fileOpen' = fileOpen /\ slot' = slot
          BY <3>5, <4>2 DEF DocOfActiveJob, RejectWhileTesting
        <5>2. \/ UNCHANGED <<activeJob, imageState, platState>>
              \/ imageState' = "Aborted" /\ platState' \in {"Aborted", platState} /\ activeJob' = NoJob
          BY <3>5, <4>2 DEF DocOfActiveJob, RejectWhileTesting, SetImageState
        <5>3. selfTestDoc => selfTestDoc'
          BY <5>1 DEF ParseDocument, ParsedSelfTest
        <5> QED  BY <5>1, <5>2, <5>3
      <4> QED  BY <4>1, <4>2
    <3>6. CASE DocInSelfTest
      BY <3>0, <3>6 DEF DocInSelfTest, NullFileContext, ParseDocument, ParsedOld, ParsedSelfTest, PlatformAfterVerify, DropStream, Outcomes, DropActiveFile, IsDoc, SetImageState
    <3>7. CASE DocOfNewJob
      <4>0. IsDoc({"firmware", "file"}) /\ ~ParsedSelfTest
        BY <3>7 DEF DocOfNewJob
      <4>1. PICK p \in {platState, "Aborted"} :
               RejectWhileTesting(p) \/ (~InSelfTest(p) /\ StartNewJob(p))
        BY <3>7 DEF DocOfNewJob, PlatformAfterVerify, Outcomes
      <4>2. CASE RejectWhileTesting(p)
        BY <3>0, <4>0, <4>2 DEF RejectWhileTesting, ParseDocument, ParsedOld, ParsedSelfTest, IsDoc, SetImageState, EmptySlot
      <4>3. CASE ~InSelfTest(p) /\ StartNewJob(p)
        BY <3>0, <4>0, <4>3 DEF StartNewJob, NewDownload, DropStream, NullFileContext, ParseDocument, ParsedOld, ParsedSelfTest, IsDoc, SetImageState, EmptySlot, InSelfTest
      <4> QED  BY <4>1, <4>2, <4>3
    <3> QED  BY <2>3, <3>1, <3>2, <3>3, <3>4, <3>5, <3>6, <3>7 DEF ProcessJobHandler
  <2>4. CASE InSelfTestHandler
    BY <2>4 DEF InSelfTestHandler, SetImageState
  <2>5. CASE InitFileHandler
    BY <2>5 DEF InitFileHandler, RetryOrShutdown
  <2>6. CASE RequestDataHandler
    BY <2>6 DEF RequestDataHandler, SetImageState
  <2>7. CASE ProcessDataHandler
    <3>0. cur.id = "ReceivedFileBlock" /\ state = "WaitingForFileBlock"
      BY <2>7 DEF ProcessDataHandler, Takes
    <3>1. CASE RejectBlock
      BY <3>0, <3>1 DEF RejectBlock, FailDownload
    <3>2. CASE IgnoreDuplicate
      BY <3>0, <3>2 DEF IgnoreDuplicate
    <3>3. CASE AcceptBlock
      BY <3>0, <3>3 DEF AcceptBlock, Stored
    <3>4. CASE CloseFailed
      BY <3>0, <3>4 DEF CloseFailed, FailDownload, Stored
    <3>5. CASE FileComplete
      BY <3>0, <3>5 DEF FileComplete, Stored
    <3> QED  BY <2>7, <3>1, <3>2, <3>3, <3>4, <3>5 DEF ProcessDataHandler
  <2>8. CASE CloseFileHandler
    BY <2>8 DEF CloseFileHandler
  <2>9. CASE JobNotificationHandler
    BY <2>9 DEF JobNotificationHandler
  <2>10. CASE UserAbortHandler
    BY <2>10 DEF UserAbortHandler, SetImageState
  <2>11. CASE ShutdownHandler
    BY <2>11 DEF ShutdownHandler
  <2>12. CASE SuspendHandler
    BY <2>12 DEF SuspendHandler
  <2>13. CASE ResumeHandler
    BY <2>13 DEF ResumeHandler
  <2>14. CASE HandleUnexpectedEvents
    BY <2>14 DEF HandleUnexpectedEvents
  <2> QED  BY <1>1, <2>1, <2>2, <2>3, <2>4, <2>5, <2>6, <2>7, <2>8, <2>9, <2>10, <2>11, <2>12, <2>13, <2>14 DEF ExecuteHandler
<1>2. CASE Receive
  BY <1>2 DEF Receive
<1>3. CASE OtaInit
  BY <1>3 DEF OtaInit
<1>4. CASE OtaEventProcessingTask
  BY <1>4 DEF OtaEventProcessingTask
<1>5. CASE RequestTimerExpires
  BY <1>5 DEF RequestTimerExpires
<1>6. CASE SelfTestTimerExpires
  BY <1>6 DEF SelfTestTimerExpires
<1>7. CASE PowerLoss
  BY <1>7 DEF PowerLoss
<1>8. CASE JobDocumentArrives
  BY <1>8 DEF JobDocumentArrives, Deliver
<1>9. CASE FileBlockArrives
  BY <1>9 DEF FileBlockArrives, Deliver
<1>10. CASE NoisyBlockArrives
  BY <1>10 DEF NoisyBlockArrives, Deliver
<1>11. CASE ConnectionLost
  BY <1>11 DEF ConnectionLost
<1>12. CASE SuspendSignalled
  BY <1>12 DEF SuspendSignalled, SignalFrom
<1>13. CASE SuspendSeen
  BY <1>13 DEF SuspendSeen
<1>14. CASE Reconnected
  BY <1>14 DEF Reconnected
<1>15. CASE ResumeTimers
  BY <1>15 DEF ResumeTimers
<1>16. CASE ResumeSignalled
  BY <1>16 DEF ResumeSignalled, SignalFrom
<1>17. CASE ResumeSeen
  BY <1>17 DEF ResumeSeen
<1>18. CASE ApiCall
  BY <1>18 DEF ApiCall
<1>19. CASE JobCanceled
  BY <1>19 DEF JobCanceled, Updated
<1>20. CASE UNCHANGED vars
  BY <1>20 DEF vars
<1> QED  BY <1>1, <1>2, <1>3, <1>4, <1>5, <1>6, <1>7, <1>8, <1>9, <1>10, <1>11, <1>12, <1>13, <1>14, <1>15, <1>16, <1>17, <1>18, <1>19, <1>20 DEF Next, AgentTask, MqttTask

LEMMA SelfTestAlways == Spec => [](TypeInv /\ SuspendsInTurn /\ TestWatched /\ TestAnnounced)
<1> DEFINE Inv == TypeInv /\ SuspendsInTurn /\ TestWatched /\ TestAnnounced
<1>1. Init => Inv
  <2> SUFFICES ASSUME Init PROVE Inv
    OBVIOUS
  <2>1. TypeInv
    BY InitTyped
  <2> QED  BY <2>1 DEF Init, SuspendsInTurn, NoSuspend, NoEvent, TestWatched, TestAnnounced
<1>2. Inv /\ [Next]_vars => Inv'
  BY TypedStep, SuspendsStep, WatchedStep, AnnouncedStep DEF TypeInv, TypeOK
<1> QED  BY <1>1, <1>2, PTL DEF Spec

(* An image under test never waits for its verdict without the watchdog,   *)
(* however the events of the agent, the MQTT task and the timers fall.     *)
THEOREM TestStaysWatched == Spec => []SelfTestWatched
<1>1. TestWatched => SelfTestWatched
  BY DEF TestWatched, SelfTestWatched
<1> QED  BY <1>1, SelfTestAlways, PTL

(* Every step that reports a job Succeeded has a reason for it.            *)
LEMMA EarnedStep ==
  ASSUME TypeInv, TestAnnounced, [Next]_vars, NEW j \in Jobs,
         jobStatus[j] # "Succeeded", jobStatus'[j] = "Succeeded"
  PROVE  \/ JobKind[j] # "firmware" /\ slot'.job = j /\ slot'.verified
         \/ selfTestDoc /\ (InSelfTest(platState) \/ slot'.verified)
<1> USE DEF Takes, agent, file, doc, pace, timers, flash, stream, bounds, TypeInv, TypeOK, ControlTypeOK, FileTypeOK
<1>1. CASE ExecuteHandler
  <2>1. CASE StartHandler
    BY <2>1 DEF StartHandler, Report, Updated
  <2>2. CASE RequestJobHandler
    BY <2>2 DEF RequestJobHandler, RetryOrShutdown, Report, Updated
  <2>3. CASE ProcessJobHandler
    <3>0. cur.id = "ReceivedJobDocument" /\ state = "WaitingForJob"
      BY <2>3 DEF ProcessJobHandler, Takes
    <3>1. CASE DocWithoutJob
      BY <3>0, <3>1 DEF DocWithoutJob, NullFileContext, Report, Updated
    <3>2. CASE DocRejected
      BY <3>0, <3>2 DEF DocRejected, NullFileContext, IsDoc, Report, Updated
    <3>3. CASE DocOfSizeZero
      BY <3>0, <3>3 DEF DocOfSizeZero, NullFileContext, Report, Updated
    <3>4. CASE DocTooLarge
      BY <3>0, <3>4 DEF DocTooLarge, NullFileContext, ParseDocument, ParsedOld, ParsedSelfTest, PlatformAfterVerify, DropStream, Outcomes, IsDoc, Report, Updated
    <3>5. CASE DocOfActiveJob
      BY <3>0, <3>5 DEF DocOfActiveJob, ParseDocument, ParsedOld, ParsedSelfTest, RejectWhileTesting, IsDoc, Report, Updated, SetImageState, StatusOf
    <3>6. CASE DocInSelfTest
      BY <3>0, <3>6 DEF DocInSelfTest, NullFileContext, ParseDocument, ParsedOld, ParsedSelfTest, PlatformAfterVerify, DropStream, Outcomes, DropActiveFile, IsDoc, Report, Updated, SetImageState, StatusOf
    <3>7. CASE DocOfNewJob
      <4>0. IsDoc({"firmware", "file"})
        BY <3>7 DEF DocOfNewJob
      <4>1. PICK p \in {platState, "Aborted"} : RejectWhileTesting(p) \/ StartNewJob(p)
        BY <3>7 DEF DocOfNewJob, PlatformAfterVerify, Outcomes
      <4>2. CASE RejectWhileTesting(p)
        BY <3>0, <4>0, <4>2 DEF RejectWhileTesting, ParseDocument, ParsedOld, ParsedSelfTest, IsDoc, Report, Updated, SetImageState, StatusOf
      <4>3. CASE StartNewJob(p)
        BY <3>0, <4>0, <4>3 DEF StartNewJob, NewDownload, DropStream, NullFileContext, ParseDocument, ParsedOld, ParsedSelfTest, IsDoc, Report, Updated, SetImageState, StatusOf
      <4> QED  BY <4>1, <4>2, <4>3
    <3> QED  BY <2>3, <3>1, <3>2, <3>3, <3>4, <3>5, <3>6, <3>7 DEF ProcessJobHandler
  <2>4. CASE InSelfTestHandler
    BY <2>4 DEF InSelfTestHandler, Report, Updated, SetImageState, StatusOf, TestAnnounced, InSelfTest
  <2>5. CASE InitFileHandler
    BY <2>5 DEF InitFileHandler, RetryOrShutdown, Report, Updated
  <2>6. CASE RequestDataHandler
    BY <2>6 DEF RequestDataHandler, Report, Updated, SetImageState, StatusOf
  <2>7. CASE ProcessDataHandler
    <3>0. cur.id = "ReceivedFileBlock" /\ state = "WaitingForFileBlock"
      BY <2>7 DEF ProcessDataHandler, Takes
    <3>1. CASE RejectBlock
      BY <3>0, <3>1 DEF RejectBlock, FailDownload, Report, Updated
    <3>2. CASE IgnoreDuplicate
      BY <3>0, <3>2 DEF IgnoreDuplicate, Report, Updated
    <3>3. CASE AcceptBlock
      BY <3>0, <3>3 DEF AcceptBlock, Report, Updated, Stored
    <3>4. CASE CloseFailed
      BY <3>0, <3>4 DEF CloseFailed, FailDownload, Report, Updated, Stored
    <3>5. CASE FileComplete
      <4>1. /\ fileOpen /\ slot'.job = slot.job /\ slot'.verified
            /\ \E ok \in BOOLEAN : Report(activeJob, CompletedStatus(slot.job), ok)
        BY <3>0, <3>5, StoredType DEF FileComplete, Fresh, CanStore, Stored, Outcomes, NetOutcomes, SlotType
      <4>2. j = activeJob /\ JobKind[slot.job] # "firmware"
        BY <4>1 DEF Report, Updated, CompletedStatus
      <4>3. CASE activeJob = slot.job
        BY <4>1, <4>2, <4>3
      <4>4. CASE activeJob # slot.job
        <5>1. selfTestDoc
          BY <4>1, <4>2, <4>4, JobsAssumption DEF TestAnnounced
        <5> QED  BY <4>1, <5>1
      <4> QED  BY <4>3, <4>4
    <3> QED  BY <2>7, <3>1, <3>2, <3>3, <3>4, <3>5 DEF ProcessDataHandler
  <2>8. CASE CloseFileHandler
    BY <2>8 DEF CloseFileHandler, Report, Updated
  <2>9. CASE JobNotificationHandler
    BY <2>9 DEF JobNotificationHandler, Report, Updated
  <2>10. CASE UserAbortHandler
    BY <2>10 DEF UserAbortHandler, Report, Updated, SetImageState, StatusOf
  <2>11. CASE ShutdownHandler
    BY <2>11 DEF ShutdownHandler, Report, Updated
  <2>12. CASE SuspendHandler
    BY <2>12 DEF SuspendHandler, Report, Updated
  <2>13. CASE ResumeHandler
    BY <2>13 DEF ResumeHandler, Report, Updated
  <2>14. CASE HandleUnexpectedEvents
    BY <2>14 DEF HandleUnexpectedEvents, Report, Updated
  <2> QED  BY <1>1, <2>1, <2>2, <2>3, <2>4, <2>5, <2>6, <2>7, <2>8, <2>9, <2>10, <2>11, <2>12, <2>13, <2>14 DEF ExecuteHandler
<1>2. CASE Receive
  BY <1>2 DEF Receive, Report, Updated
<1>3. CASE OtaInit
  BY <1>3 DEF OtaInit, Report, Updated
<1>4. CASE OtaEventProcessingTask
  BY <1>4 DEF OtaEventProcessingTask, Report, Updated
<1>5. CASE RequestTimerExpires
  BY <1>5 DEF RequestTimerExpires, Report, Updated
<1>6. CASE SelfTestTimerExpires
  BY <1>6 DEF SelfTestTimerExpires, Report, Updated
<1>7. CASE PowerLoss
  BY <1>7 DEF PowerLoss, Report, Updated
<1>8. CASE JobDocumentArrives
  BY <1>8 DEF JobDocumentArrives, Deliver, Report, Updated
<1>9. CASE FileBlockArrives
  BY <1>9 DEF FileBlockArrives, Deliver, Report, Updated
<1>10. CASE NoisyBlockArrives
  BY <1>10 DEF NoisyBlockArrives, Deliver, Report, Updated
<1>11. CASE ConnectionLost
  BY <1>11 DEF ConnectionLost, Report, Updated
<1>12. CASE SuspendSignalled
  BY <1>12 DEF SuspendSignalled, SignalFrom, Report, Updated
<1>13. CASE SuspendSeen
  BY <1>13 DEF SuspendSeen, Report, Updated
<1>14. CASE Reconnected
  BY <1>14 DEF Reconnected, Report, Updated
<1>15. CASE ResumeTimers
  BY <1>15 DEF ResumeTimers, Report, Updated
<1>16. CASE ResumeSignalled
  BY <1>16 DEF ResumeSignalled, SignalFrom, Report, Updated
<1>17. CASE ResumeSeen
  BY <1>17 DEF ResumeSeen, Report, Updated
<1>18. CASE ApiCall
  BY <1>18 DEF ApiCall, Report, Updated
<1>19. CASE JobCanceled
  BY <1>19 DEF JobCanceled, Report, Updated
<1>20. CASE UNCHANGED vars
  BY <1>20 DEF vars, Report, Updated
<1> QED  BY <1>1, <1>2, <1>3, <1>4, <1>5, <1>6, <1>7, <1>8, <1>9, <1>10, <1>11, <1>12, <1>13, <1>14, <1>15, <1>16, <1>17, <1>18, <1>19, <1>20 DEF Next, AgentTask, MqttTask

(* A job is only reported Succeeded for its own verified file, or by a     *)
(* self-test its session was told about.                                   *)
THEOREM SuccessEarned == Spec => SucceededEarned
<1>1. TypeInv /\ TestAnnounced /\ [Next]_vars =>
        [\A j \in Jobs :
           jobStatus[j] # "Succeeded" /\ jobStatus'[j] = "Succeeded"
             => \/ JobKind[j] # "firmware" /\ slot'.job = j /\ slot'.verified
                \/ selfTestDoc /\ (InSelfTest(platState) \/ slot'.verified)]_vars
  BY EarnedStep
<1> QED  BY <1>1, SelfTestAlways, PTL DEF Spec, SucceededEarned

-----------------------------------------------------------------------------
(* What keeps a download going. When the request timer goes off and the    *)
(* queue is full, there must be something in it that the agent does not    *)
(* ignore. The queue is taken from its front: behind the last block request*)
(* (or in all of the queue, when there is none) are only events that came  *)
(* from outside since the download began to ask for blocks, and of those   *)
(* that hold no buffer, one for each call that was made.                   *)
Downloading == state \in {"RequestingFileBlock", "WaitingForFileBlock"} /\ activeJob # NoJob

OwnCalls    == {"RequestJobDocument", "UserAbort", "Resume"}
FromOutside == OwnCalls \cup {"ReceivedJobDocument", "ReceivedFileBlock", "Shutdown", "Suspend",
                              "RequestTimer"}

CallsBehind(q, p) == {i \in 1..Len(q) : i > p /\ q[i].id \in OwnCalls}
FreshBehind(q, p, n) ==
  /\ p = 0 \/ q[p].id = "RequestFileBlock"
  /\ \A i \in 1..Len(q) : i > p => q[i].id \in FromOutside
  /\ Cardinality(CallsBehind(q, p)) + n <= MaxApi
FreshQueue(q, n) == \E p \in 0..Len(q) : FreshBehind(q, p, n)

(* A lost connection is a call whose Resume is still to come.              *)
ResumeDue == conn \in {"suspending", "suspendWait", "down", "arming", "resuming"}
CallsLeft == apiLeft + IF ResumeDue THEN 1 ELSE 0
NoneStale == CallsLeft <= MaxApi /\ (Downloading => FreshQueue(queue, CallsLeft))

(* The events that a download never ignores and that do not count on the   *)
(* request timer to start.                                                 *)
GoesOn == {"RequestFileBlock", "RequestTimer", "Suspend", "Shutdown"}
Queued(q, ids) == \E i \in 1..Len(q) : q[i].id \in ids

Suspending == conn \in {"suspending", "suspendWait", "halted"}
GoingOn ==
  Downloading /\ remaining > 0 /\ ~Suspending
    => reqTimer \/ cur.id \in GoesOn \/ Queued(queue, GoesOn)

Awake == NoneStale /\ GoingOn

LEMMA BehindFinite ==
  ASSUME NEW q \in Seq(Events), NEW p
  PROVE  IsFiniteSet(CallsBehind(q, p)) /\ Cardinality(CallsBehind(q, p)) \in Nat
<1>1. IsFiniteSet(1..Len(q))
  BY FS_Interval
<1>2. CallsBehind(q, p) \subseteq 1..Len(q)
  BY DEF CallsBehind
<1> QED  BY <1>1, <1>2, FS_Subset, FS_CardinalityType

(* An event that comes from outside; a call counts as one.                 *)
LEMMA FreshGrows ==
  ASSUME NEW q \in Seq(Events), NEW e \in Events, NEW n \in Nat, NEW m \in Nat,
         e.id \in FromOutside, FreshQueue(q, n), m <= n, e.id \in OwnCalls => m < n
  PROVE  FreshQueue(Append(q, e), m)
<1> DEFINE r == Append(q, e)
<1>1. PICK p \in 0..Len(q) : FreshBehind(q, p, n)
  BY DEF FreshQueue
<1>2. /\ r \in Seq(Events) /\ Len(r) = Len(q) + 1 /\ r[Len(q) + 1] = e /\ Len(q) \in Nat
      /\ \A i \in 1..Len(q) : r[i] = q[i]
  OBVIOUS
<1> HIDE DEF r
<1>3. p \in 0..Len(r) /\ (p = 0 \/ r[p].id = "RequestFileBlock")
  BY <1>1, <1>2 DEF FreshBehind
<1>4. \A i \in 1..Len(r) : i > p => r[i].id \in FromOutside
  BY <1>1, <1>2 DEF FreshBehind
<1>5. MaxApi \in Nat /\ Cardinality(CallsBehind(q, p)) \in Nat /\ IsFiniteSet(CallsBehind(q, p))
      /\ Cardinality(CallsBehind(q, p)) + n <= MaxApi
  BY <1>1, BehindFinite, BoundsAssumption DEF FreshBehind
<1>6. Cardinality(CallsBehind(r, p)) + m <= MaxApi
  <2>1. CASE e.id \in OwnCalls
    <3>1. CallsBehind(r, p) = CallsBehind(q, p) \cup {Len(q) + 1}
      BY <1>2, <2>1 DEF CallsBehind
    <3>2. Len(q) + 1 \notin CallsBehind(q, p)
      BY <1>2 DEF CallsBehind
    <3>3. Cardinality(CallsBehind(r, p)) = Cardinality(CallsBehind(q, p)) + 1
      BY <1>5, <3>1, <3>2, FS_AddElement
    <3> QED  BY <1>5, <2>1, <3>3
  <2>2. CASE e.id \notin OwnCalls
    <3>1. CallsBehind(r, p) = CallsBehind(q, p)
      BY <1>2, <2>2 DEF CallsBehind
    <3> QED  BY <1>5, <3>1
  <2> QED  BY <2>1, <2>2
<1> QED  BY <1>3, <1>4, <1>6 DEF FreshQueue, FreshBehind, r

(* A block request at the end: nothing is behind it.                       *)
LEMMA FreshRequest ==
  ASSUME NEW q \in Seq(Events), NEW e \in Events, NEW n \in Nat, n <= MaxApi,
         e.id = "RequestFileBlock"
  PROVE  FreshQueue(Append(q, e), n)
<1> DEFINE r == Append(q, e)
<1>1. Len(r) = Len(q) + 1 /\ r[Len(r)].id = "RequestFileBlock" /\ Len(r) \in 0..Len(r)
  OBVIOUS
<1>2. CallsBehind(r, Len(r)) = {}
  BY DEF CallsBehind
<1>3. Cardinality(CallsBehind(r, Len(r))) + n <= MaxApi
  BY <1>2, FS_EmptySet
<1> HIDE DEF r
<1>4. \A i \in 1..Len(r) : i > Len(r) => r[i].id \in FromOutside
  BY <1>1
<1> QED  BY <1>1, <1>3, <1>4 DEF FreshQueue, FreshBehind, r

(* Taking the event in front.                                              *)
LEMMA FreshTail ==
  ASSUME NEW q \in Seq(Events), q # <<>>, NEW n \in Nat, FreshQueue(q, n)
  PROVE  FreshQueue(Tail(q), n)
<1> DEFINE r == Tail(q)
<1>1. PICK p \in 0..Len(q) : FreshBehind(q, p, n)
  BY DEF FreshQueue
<1>2. /\ r \in Seq(Events) /\ Len(q) \in Nat \ {0} /\ Len(r) = Len(q) - 1
      /\ \A i \in 1..Len(r) : r[i] = q[i + 1] /\ i + 1 \in 1..Len(q)
  OBVIOUS
<1> HIDE DEF r
<1> DEFINE k == IF p = 0 THEN 0 ELSE p - 1
           f == [i \in CallsBehind(r, k) |-> i + 1]
<1>3. k \in 0..Len(r) /\ k <= p /\ p <= k + 1 /\ k \in Nat
  BY <1>2
<1>4. k = 0 \/ r[k].id = "RequestFileBlock"
  BY <1>1, <1>2 DEF FreshBehind
<1> HIDE DEF k
<1>5. \A i \in 1..Len(r) : i > k => r[i].id \in FromOutside
  BY <1>1, <1>2, <1>3 DEF FreshBehind
<1>6. Cardinality(CallsBehind(r, k)) <= Cardinality(CallsBehind(q, p))
  <2>1. \A i \in CallsBehind(r, k) : i \in Nat /\ i + 1 \in CallsBehind(q, p)
    BY <1>2, <1>3 DEF CallsBehind
  <2>2. f \in Injection(CallsBehind(r, k), CallsBehind(q, p))
    BY <2>1 DEF Injection, IsInjective
  <2> HIDE DEF f
  <2> QED  BY <2>2, BehindFinite, FS_Injection
<1>7. Cardinality(CallsBehind(r, k)) + n <= MaxApi
  <2>1. Cardinality(CallsBehind(r, k)) \in Nat /\ Cardinality(CallsBehind(q, p)) \in Nat
        /\ MaxApi \in Nat
    BY <1>2, BehindFinite, BoundsAssumption
  <2> QED  BY <1>1, <1>6, <2>1 DEF FreshBehind
<1> QED  BY <1>3, <1>4, <1>5, <1>7 DEF FreshQueue, FreshBehind, r

(* A full queue is not full of what is ignored.                            *)
LEMMA FullGoesOn ==
  ASSUME NEW q \in Seq(Events), NEW n \in Nat, FreshQueue(q, n),
         Held(q) <= NumBuffers, Len(q) > NumBuffers + MaxApi
  PROVE  Queued(q, {"RequestFileBlock", "RequestTimer", "Suspend", "Shutdown"})
<1> DEFINE H == {i \in DOMAIN q : HoldsBuffer(q[i])}
           C == CallsBehind(q, 0)
<1>1. PICK p \in 0..Len(q) : FreshBehind(q, p, n)
  BY DEF FreshQueue
<1>2. CASE p # 0
  BY <1>1, <1>2 DEF FreshBehind, Queued
<1>3. CASE p = 0
  <2> SUFFICES ASSUME ~Queued(q, {"RequestFileBlock", "RequestTimer", "Suspend", "Shutdown"})
               PROVE  FALSE
    OBVIOUS
  <2>1. \A i \in 1..Len(q) : q[i].id \in OwnCalls \cup {"ReceivedJobDocument", "ReceivedFileBlock"}
    BY <1>1, <1>3 DEF FreshBehind, FromOutside, Queued
  <2>2. 1..Len(q) = H \cup C
    BY <2>1 DEF CallsBehind, HoldsBuffer
  <2>3. IsFiniteSet(H) /\ IsFiniteSet(C) /\ Cardinality(C) \in Nat
    <3>1. IsFiniteSet(1..Len(q)) /\ H \subseteq 1..Len(q)
      BY FS_Interval
    <3> QED  BY <3>1, FS_Subset, BehindFinite
  <2>4. Cardinality(1..Len(q)) = Len(q) /\ Cardinality(H) = Held(q)
    <3>1. ASSUME NEW k \in Nat PROVE Cardinality(1..k) = k
      <4>1. Cardinality(1..k) = IF 1 > k THEN 0 ELSE k - 1 + 1
        BY FS_Interval
      <4> QED  BY <4>1
    <3>2. Cardinality(1..Len(q)) = Len(q)
      <4>1. Len(q) \in Nat
        OBVIOUS
      <4> QED  BY <3>1, <4>1
    <3> QED  BY <3>2 DEF Held
  <2> HIDE DEF H, C
  <2>5. /\ Cardinality(H \cup C) = Cardinality(H) + Cardinality(C) - Cardinality(H \cap C)
        /\ Cardinality(H) \in Nat /\ Cardinality(H \cap C) \in Nat
    <3>1. IsFiniteSet(H \cap C)
      BY <2>3, FS_Subset
    <3> QED  BY <2>3, <3>1, FS_Union, FS_CardinalityType
  <2>6. Cardinality(C) <= MaxApi
    BY <1>1, <1>3, <2>3, BoundsAssumption DEF FreshBehind, C
  <2>7. MaxApi \in Nat /\ NumBuffers \in Nat /\ Len(q) \in Nat
    BY BoundsAssumption, SizesAssumption
  <2>8. Len(q) = Held(q) + Cardinality(C) - Cardinality(H \cap C) /\ Held(q) \in Nat
    BY <2>2, <2>4, <2>5
  <2>9. Len(q) <= Held(q) + Cardinality(C)
    BY <2>3, <2>5, <2>7, <2>8
  <2> QED  BY <2>3, <2>6, <2>7, <2>8, <2>9
<1> QED  BY <1>2, <1>3

(* Steps after which there is no download.                                 *)
LEMMA AwakeQuits ==
  ASSUME CountTypeOK, NoneStale, ~Downloading', apiLeft' = apiLeft, conn' \in {conn, "up"}
  PROVE  Awake'
<1>1. CallsLeft' <= CallsLeft /\ CallsLeft \in Nat /\ CallsLeft' \in Nat
  BY Sizes DEF CallsLeft, ResumeDue, CountTypeOK
<1> QED  BY <1>1, Sizes DEF Awake, NoneStale, GoingOn

(* Steps that leave the agent alone and may add an event from outside, a   *)
(* call for one that was left.                                             *)
LEMMA AwakeOutside ==
  ASSUME QueueTypeOK, CountTypeOK, Awake, NEW e \in Events, e.id \in FromOutside,
         UNCHANGED <<state, activeJob, remaining, cur>>,
         queue' = queue \/ queue' = Append(queue, e),
         CallsLeft' \in Nat, CallsLeft' <= CallsLeft,
         queue' = Append(queue, e) /\ e.id \in OwnCalls => CallsLeft' < CallsLeft,
         Suspending' \/ (~Suspending /\ (reqTimer => reqTimer'))
  PROVE  Awake'
<1>1. queue \in Seq(Events) /\ CallsLeft \in Nat /\ MaxApi \in Nat
  BY Sizes DEF QueueTypeOK, CallsLeft, CountTypeOK
<1>2. ASSUME Downloading' PROVE FreshQueue(queue', CallsLeft')
  <2>1. FreshQueue(queue, CallsLeft)
    BY <1>2 DEF Awake, NoneStale, Downloading
  <2>2. CASE queue' = queue
    <3>1. PICK p \in 0..Len(queue) : FreshBehind(queue, p, CallsLeft)
      BY <2>1 DEF FreshQueue
    <3>2. FreshBehind(queue, p, CallsLeft')
      <4>1. Cardinality(CallsBehind(queue, p)) \in Nat
        BY <1>1, BehindFinite
      <4> QED  BY <1>1, <3>1, <4>1 DEF FreshBehind
    <3> QED  BY <2>2, <3>2 DEF FreshQueue
  <2>3. CASE queue' = Append(queue, e)
    BY <1>1, <2>1, <2>3, FreshGrows
  <2> QED  BY <2>2, <2>3
<1>3. NoneStale'
  <2>1. CallsLeft' <= MaxApi
    BY <1>1 DEF Awake, NoneStale
  <2> QED  BY <1>2, <2>1 DEF NoneStale, FreshQueue, FreshBehind, CallsBehind
<1>4. GoingOn'
  <2> SUFFICES ASSUME Downloading', remaining' > 0, ~Suspending', ~reqTimer',
                      cur'.id \notin GoesOn'
               PROVE  Queued(queue, GoesOn)'
    BY DEF GoingOn
  <2>1. Queued(queue, GoesOn) /\ GoesOn' = GoesOn
    BY DEF Awake, GoingOn, Downloading, GoesOn
  <2>2. PICK i \in 1..Len(queue) : queue[i].id \in GoesOn
    BY <2>1 DEF Queued
  <2>3. i \in 1..Len(queue') /\ queue'[i] = queue[i]
    BY <1>1
  <2> QED  BY <2>1, <2>2, <2>3 DEF Queued
<1> QED  BY <1>3, <1>4 DEF Awake

(* A handler that stays in the download: the timer is armed, or what it    *)
(* signals, or the full queue, keeps the download going.                   *)
LEMMA AwakeStays ==
  ASSUME QueueLen > NumBuffers + MaxApi,
         QueueTypeOK, CountTypeOK, BuffersHeld, Awake, Downloading,
         NEW e \in Events,
         \/ queue' = queue /\ (reqTimer' = TRUE \/ (reqTimer' = reqTimer /\ cur.id \notin GoesOn))
         \/ queue' = Signal(e) /\ e.id \in {"RequestFileBlock", "Shutdown", "RequestTimer"},
         remaining' > 0 => remaining > 0, apiLeft' = apiLeft, conn' = conn
  PROVE  Awake'
<1>1. /\ queue \in Seq(Events) /\ Len(queue) <= QueueLen /\ CallsLeft \in Nat /\ MaxApi \in Nat
      /\ CallsLeft <= MaxApi /\ FreshQueue(queue, CallsLeft) /\ Len(queue) \in Nat
      /\ QueueLen \in Nat
  BY Sizes DEF QueueTypeOK, CallsLeft, CountTypeOK, Awake, NoneStale
<1>2. CallsLeft' = CallsLeft /\ Suspending' = Suspending
  BY DEF CallsLeft, ResumeDue, Suspending
<1>3. FreshQueue(queue', CallsLeft)
  <2>1. CASE queue' = queue
    BY <1>1, <2>1
  <2>2. CASE queue' = Append(queue, e) /\ e.id = "RequestFileBlock"
    BY <1>1, <2>2, FreshRequest
  <2>3. CASE queue' = Append(queue, e) /\ e.id \in {"Shutdown", "RequestTimer"}
    BY <1>1, <2>3, FreshGrows DEF FromOutside, OwnCalls
  <2> QED  BY <2>1, <2>2, <2>3 DEF Signal
<1>4. remaining > 0 /\ ~Suspending => reqTimer' \/ Queued(queue', GoesOn)
  <2>1. CASE queue' = queue /\ reqTimer' = TRUE
    BY <2>1
  <2>2. CASE queue' = queue /\ reqTimer' = reqTimer /\ cur.id \notin GoesOn
    BY <2>2 DEF Awake, GoingOn
  <2>3. CASE queue' = Append(queue, e) /\ e.id \in GoesOn
    <3>1. queue'[Len(queue')] = e /\ Len(queue') \in 1..Len(queue')
      BY <1>1, <2>3
    <3> QED  BY <2>3, <3>1 DEF Queued
  <2>4. CASE queue' = queue /\ ~Room
    <3>1. Held(queue) <= NumBuffers
      <4>1. Held(queue) \in Nat /\ HeldBy(cur) \in Nat /\ buffers \in 0..NumBuffers
            /\ NumBuffers \in Nat
        BY <1>1, HeldNat, Sizes DEF QueueTypeOK, HeldBy
      <4> QED  BY <4>1 DEF BuffersHeld
    <3>2. Len(queue) > NumBuffers + MaxApi
      BY <1>1, <2>4, Sizes DEF Room
    <3> QED  BY <1>1, <2>4, <3>1, <3>2, FullGoesOn DEF GoesOn
  <2> QED  BY <2>1, <2>2, <2>3, <2>4 DEF Signal, GoesOn
<1>5. NoneStale'
  BY <1>1, <1>2, <1>3 DEF NoneStale, FreshQueue, FreshBehind, CallsBehind
<1>6. GoingOn'
  BY <1>2, <1>4 DEF GoingOn, Queued, GoesOn
<1> QED  BY <1>5, <1>6 DEF Awake

(* The handlers.                                                           *)
LEMMA AwakeHandler ==
  ASSUME QueueLen > NumBuffers + MaxApi, TypeInv, Awake, ExecuteHandler
  PROVE  Awake'
<1>0. /\ QueueTypeOK /\ ControlTypeOK /\ CountTypeOK /\ BuffersHeld /\ NoneStale
      /\ apiLeft' = apiLeft /\ conn' \in {conn, "up"}
      /\ NoJob \notin Jobs
  <2>1. apiLeft' = apiLeft
    BY DEF ExecuteHandler, bounds
  <2>2. conn' \in {conn, "up"}
    BY HandlersKeep DEF TypeInv, TypeOK, Handles, ResetDevice
  <2> QED  BY <2>1, <2>2, JobsAssumption DEF TypeInv, TypeOK, Awake
<1>1. ASSUME ~Downloading' PROVE Awake'
  BY <1>0, <1>1, AwakeQuits
<1>2. CASE ResetDevice
  BY <1>1, <1>2 DEF ResetDevice, Downloading
<1>3. /\ Event("Shutdown") \in Events /\ Event("Shutdown").id = "Shutdown"
      /\ Event("RequestFileBlock") \in Events /\ Event("RequestFileBlock").id = "RequestFileBlock"
  BY PlainEvents DEF Event, PlainIds
<1> USE DEF Done, Takes
<1>4. CASE StartHandler \/ ResumeHandler \/ SuspendHandler \/ ShutdownHandler \/ CloseFileHandler
  BY <1>1, <1>4 DEF StartHandler, ResumeHandler, SuspendHandler, ShutdownHandler,
                    CloseFileHandler, Downloading
<1>5. CASE RequestJobHandler
  <2>1. CASE ~Downloading'
    BY <1>1, <2>1
  <2>2. CASE Downloading'
    <3>1. Downloading /\ conn' = conn /\ remaining' = remaining
          /\ \/ queue' = queue /\ (reqTimer' = TRUE \/ (reqTimer' = reqTimer /\ cur.id \notin GoesOn))
             \/ queue' = Signal(Event("Shutdown"))
      BY <1>5, <2>2 DEF GoesOn, RequestJobHandler, RetryOrShutdown, ArmRequestTimer, TimerFails, Downloading, agent, file
    <3> QED  BY <1>0, <1>3, <3>1, AwakeStays
  <2> QED  BY <2>1, <2>2
<1>6. CASE ProcessJobHandler
  <2>0. cur.id = "ReceivedJobDocument" /\ state = "WaitingForJob"
    BY <1>6 DEF ProcessJobHandler
  <2>1. ~Downloading'
    <3>1. CASE DocWithoutJob
      BY <2>0, <3>1 DEF DocWithoutJob, NullFileContext, Downloading
    <3>2. CASE DocRejected
      BY <2>0, <3>2 DEF DocRejected, NullFileContext, Downloading
    <3>3. CASE DocOfSizeZero
      BY <2>0, <3>3 DEF DocOfSizeZero, NullFileContext, Downloading
    <3>4. CASE DocTooLarge
      BY <2>0, <3>4 DEF DocTooLarge, NullFileContext, Downloading
    <3>5. CASE DocOfActiveJob
      BY <2>0, <3>5 DEF DocOfActiveJob, RejectWhileTesting, ResetDevice, Downloading
    <3>6. CASE DocInSelfTest
      BY <2>0, <3>6 DEF DocInSelfTest, NullFileContext, ResetDevice, Downloading
    <3>7. CASE DocOfNewJob
      BY <2>0, <3>7 DEF DocOfNewJob, StartNewJob, NullFileContext, RejectWhileTesting, ResetDevice, Downloading
    <3> QED  BY <1>6, <3>1, <3>2, <3>3, <3>4, <3>5, <3>6, <3>7 DEF ProcessJobHandler
  <2> QED  BY <1>1, <2>1
<1>7. CASE InSelfTestHandler
  <2>1. ~Downloading'
    BY <1>7 DEF InSelfTestHandler, ResetDevice, Downloading
  <2> QED  BY <1>1, <2>1
<1>8. CASE InitFileHandler
  <2>1. CASE ~Downloading'
    BY <1>1, <2>1
  <2>2. CASE Downloading'
    <3>1. queue' = Append(queue, Event("RequestFileBlock")) /\ conn' = conn
      BY <1>8, <2>2 DEF InitFileHandler, Downloading, Signal
    <3>2. /\ queue \in Seq(Events) /\ CallsLeft \in Nat /\ CallsLeft <= MaxApi
          /\ CallsLeft' = CallsLeft
      BY <1>0, <3>1, Sizes DEF QueueTypeOK, NoneStale, CallsLeft, ResumeDue, CountTypeOK
    <3>3. FreshQueue(queue', CallsLeft)
      BY <1>3, <3>1, <3>2, FreshRequest
    <3>4. Queued(queue', {"RequestFileBlock"})
      <4>1. queue'[Len(queue')] = Event("RequestFileBlock") /\ Len(queue') \in 1..Len(queue')
        BY <3>1, <3>2
      <4> QED  BY <1>3, <4>1 DEF Queued
    <3>5. Queued(queue, GoesOn)'
      BY <3>4 DEF Queued, GoesOn, WakeUps
    <3> QED  BY <3>2, <3>3, <3>5
             DEF Awake, NoneStale, GoingOn, FreshQueue, FreshBehind, CallsBehind
  <2> QED  BY <2>1, <2>2
<1>9. CASE RequestDataHandler
  <2>1. CASE ~Downloading'
    BY <1>1, <2>1
  <2>2. CASE Downloading' /\ remaining > 0
    <3>0. /\ Outcomes("setPlatform") \subseteq BOOLEAN
          /\ NetOutcomes("status") \subseteq BOOLEAN
      BY DEF Outcomes, NetOutcomes
    <3>1. remaining' = remaining /\ conn' = conn
          /\ state \in {"RequestingFileBlock", "WaitingForFileBlock"}
      BY <1>9 DEF RequestDataHandler, file
    <3>2. CASE activeJob' = activeJob /\ queue' = queue /\ reqTimer' = TRUE
      <4>1. Downloading
        BY <2>2, <3>1, <3>2 DEF Downloading
      <4> QED  BY <1>0, <1>3, <3>1, <3>2, <4>1, AwakeStays
    <3>3. CASE \E pal, ok \in BOOLEAN : SetImageState(activeJob, platState, "Aborted", pal, ok)
      BY <2>2, <3>3 DEF SetImageState, Downloading
    <3>4. \/ activeJob' = activeJob /\ queue' = queue /\ reqTimer' = TRUE
          \/ \E pal, ok \in BOOLEAN : SetImageState(activeJob, platState, "Aborted", pal, ok)
      BY <1>9, <2>2, <3>0 DEF RequestDataHandler, ArmRequestTimer, agent
    <3> QED  BY <3>2, <3>3, <3>4
  <2>3. CASE Downloading' /\ ~(remaining > 0)
    <3>1. Downloading /\ conn' = conn /\ queue' = queue /\ remaining' = remaining
      BY <1>9, <2>3 DEF RequestDataHandler, Downloading, agent, file
    <3> QED  BY <1>0, <2>3, <3>1
             DEF Awake, NoneStale, GoingOn, CallsLeft, ResumeDue, FreshQueue, FreshBehind, CallsBehind
  <2> QED  BY <2>1, <2>2, <2>3
<1>10. CASE ProcessDataHandler
  <2>0. cur.id = "ReceivedFileBlock" /\ state = "WaitingForFileBlock"
    BY <1>10 DEF ProcessDataHandler
  <2>1. CASE RejectBlock
    <3>1. ~Downloading'
      BY <2>1 DEF RejectBlock, FailDownload, Downloading
    <3> QED  BY <1>1, <3>1
  <2>2. CASE CloseFailed
    <3>1. ~Downloading'
      BY <2>2 DEF CloseFailed, FailDownload, Downloading
    <3> QED  BY <1>1, <3>1
  <2>3. CASE FileComplete
    <3>1. ~Downloading'
      BY <2>3 DEF FileComplete, ResetDevice, Downloading
    <3> QED  BY <1>1, <3>1
  <2>4. CASE (IgnoreDuplicate \/ AcceptBlock) /\ Downloading'
    <3>1. Downloading /\ conn' = conn /\ (remaining' > 0 => remaining > 0)
      <4>1. Downloading /\ conn' = conn /\ remaining' \in {remaining, remaining - 1}
        BY <2>0, <2>4 DEF IgnoreDuplicate, AcceptBlock, Downloading, agent, file
      <4>2. remaining \in Nat
        BY DEF TypeInv, TypeOK, FileTypeOK
      <4> QED  BY <4>1, <4>2
    <3>2. /\ reqTimer' = TRUE \/ (reqTimer' = reqTimer /\ cur.id \notin GoesOn)
          /\ queue' = queue \/ queue' = Signal(Event("RequestFileBlock"))
      BY <2>0, <2>4 DEF GoesOn, IgnoreDuplicate, AcceptBlock, StartRequestTimer, ArmRequestTimer
    <3> QED  BY <1>0, <1>3, <3>1, <3>2, AwakeStays
  <2> QED  BY <1>1, <1>10, <2>1, <2>2, <2>3, <2>4 DEF ProcessDataHandler
<1>11. CASE JobNotificationHandler
  <2>1. ~Downloading'
    BY <1>11 DEF JobNotificationHandler, Downloading
  <2> QED  BY <1>1, <2>1
<1>12. CASE UserAbortHandler
  <2>1. ~Downloading'
    BY <1>12 DEF UserAbortHandler, SetImageState, Downloading, agent
  <2> QED  BY <1>1, <2>1
<1>13. CASE HandleUnexpectedEvents
  <2>1. CASE ~Downloading'
    BY <1>1, <2>1
  <2>2. CASE Downloading'
    <3>1. UNCHANGED <<state, activeJob, remaining, queue, conn, reqTimer>> /\ cur' = NoEvent
          /\ ~Handled(state, cur.id)
      BY <1>13 DEF HandleUnexpectedEvents, agent, file, timers
    <3>2. Downloading /\ cur.id \notin GoesOn
      BY <2>2, <3>1 DEF Downloading, GoesOn, WakeUps, Handled
    <3>3. NoneStale'
      BY <1>0, <3>1 DEF NoneStale, CallsLeft, ResumeDue, Downloading, FreshQueue, FreshBehind,
                        CallsBehind
    <3>4. GoingOn'
      BY <3>1, <3>2 DEF Awake, GoingOn, Downloading, GoesOn, Queued, Suspending
    <3> QED  BY <3>3, <3>4 DEF Awake
  <2> QED  BY <2>1, <2>2
<1> QED  BY <1>4, <1>5, <1>6, <1>7, <1>8, <1>9, <1>10, <1>11, <1>12, <1>13 DEF ExecuteHandler

LEMMA AwakeStep ==
  ASSUME QueueLen > NumBuffers + MaxApi, TypeInv, Awake, [Next]_vars
  PROVE  Awake'
<1>0. /\ QueueTypeOK /\ ControlTypeOK /\ CountTypeOK /\ FileTypeOK /\ NoneStale
      /\ apiLeft \in Nat /\ queue \in Seq(Events)
  BY DEF TypeInv, TypeOK, Awake, CountTypeOK, QueueTypeOK
<1>1. ASSUME NEW e \in Events, e.id \in FromOutside, e.id \notin OwnCalls,
             UNCHANGED <<state, activeJob, remaining, cur, conn, apiLeft>>,
             reqTimer => reqTimer',
             queue' = queue \/ queue' = Append(queue, e)
      PROVE  Awake'
  <2>1. CallsLeft' = CallsLeft /\ CallsLeft \in Nat /\ Suspending' = Suspending
    BY <1>0, <1>1 DEF CallsLeft, ResumeDue, Suspending
  <2> QED  BY <1>0, <1>1, <2>1, AwakeOutside
<1>2. \A i \in {"RequestTimer", "Suspend", "Resume", "RequestJobDocument", "UserAbort", "Shutdown"} :
        Event(i) \in Events /\ Event(i).id = i /\ i \in FromOutside
  BY PlainEvents DEF PlainIds, Event, FromOutside, OwnCalls
<1>3. "RequestTimer" \notin OwnCalls /\ "Suspend" \notin OwnCalls /\ "Shutdown" \notin OwnCalls
  BY DEF OwnCalls
<1>4. \A e : Signal(e) = queue \/ Signal(e) = Append(queue, e)
  BY DEF Signal
<1> USE DEF agent, file, doc, pace, timers, flash, stream, bounds
<1>5. CASE ExecuteHandler
  BY <1>5, AwakeHandler
<1>6. CASE Receive
  <2>1. /\ queue # <<>> /\ cur' = Head(queue) /\ queue' = Tail(queue) /\ cur = NoEvent
        /\ UNCHANGED <<state, activeJob, remaining, conn, reqTimer, apiLeft>>
    BY <1>6 DEF Receive
  <2>2. NoneStale'
    <3>1. CallsLeft' = CallsLeft /\ CallsLeft \in Nat /\ Downloading' = Downloading
      BY <1>0, <2>1 DEF CallsLeft, ResumeDue, Downloading
    <3>2. Downloading => FreshQueue(queue', CallsLeft)
      BY <1>0, <2>1, <3>1, FreshTail DEF NoneStale
    <3> QED  BY <1>0, <3>1, <3>2 DEF NoneStale, FreshQueue, FreshBehind, CallsBehind
  <2>3. GoingOn'
    <3>1. GoesOn' = GoesOn /\ NoEvent.id \notin GoesOn
      BY <2>1 DEF GoesOn, WakeUps, NoEvent
    <3>2. Queued(queue, GoesOn) => cur'.id \in GoesOn \/ Queued(Tail(queue), GoesOn)
      <4> SUFFICES ASSUME NEW i \in 1..Len(queue), queue[i].id \in GoesOn
                   PROVE  cur'.id \in GoesOn \/ Queued(Tail(queue), GoesOn)
        BY DEF Queued
      <4>1. i = 1 \/ (i - 1 \in 1..Len(Tail(queue)) /\ Tail(queue)[i - 1] = queue[i])
        BY <1>0, <2>1
      <4>2. i = 1 => cur' = queue[i]
        BY <1>0, <2>1
      <4> QED  BY <4>1, <4>2 DEF Queued
    <3> QED  BY <2>1, <3>1, <3>2 DEF Awake, GoingOn, Downloading, Suspending, Queued
  <2> QED  BY <2>2, <2>3 DEF Awake
<1>7. CASE OtaInit
  <2>1. ~Downloading' /\ apiLeft' = apiLeft /\ conn' = conn
    BY <1>7 DEF OtaInit, Downloading
  <2> QED  BY <1>0, <2>1, AwakeQuits
<1>8. CASE OtaEventProcessingTask
  <2>1. ~Downloading' /\ apiLeft' = apiLeft /\ conn' = conn
    BY <1>8 DEF OtaEventProcessingTask, Downloading
  <2> QED  BY <1>0, <2>1, AwakeQuits
<1>9. CASE RequestTimerExpires
  <2>1. CASE ~Downloading'
    BY <1>0, <1>9, <2>1, AwakeQuits DEF RequestTimerExpires
  <2>2. CASE Downloading'
    <3>1. /\ UNCHANGED <<state, activeJob, conn, apiLeft, remaining>> /\ Downloading
          /\ queue' = Signal(Event("RequestTimer"))
      BY <1>9, <2>2 DEF RequestTimerExpires, Downloading, file
    <3>2. BuffersHeld
      BY DEF TypeInv
    <3> QED  BY <1>0, <1>2, <3>1, <3>2, AwakeStays
  <2> QED  BY <2>1, <2>2
<1>10. CASE SelfTestTimerExpires \/ PowerLoss
  <2>1. ~Downloading' /\ apiLeft' = apiLeft /\ conn' = "up"
    BY <1>10 DEF SelfTestTimerExpires, PowerLoss, ResetDevice, Downloading
  <2> QED  BY <1>0, <2>1, AwakeQuits
<1>11. CASE JobDocumentArrives \/ FileBlockArrives \/ NoisyBlockArrives
  <2>1. \E e \in Events : /\ e.id \in {"ReceivedJobDocument", "ReceivedFileBlock"}
                          /\ Deliver(e)
    <3>1. CASE JobDocumentArrives
      BY <3>1 DEF JobDocumentArrives, Offered, DocumentOf, Events, JobDocs
    <3>2. CASE FileBlockArrives
      BY <1>0, <3>2 DEF FileBlockArrives, FileBlockEvent, Events, FileBlocks, ControlTypeOK, FileTypeOK
    <3>3. CASE NoisyBlockArrives
      BY <1>0, <3>3 DEF NoisyBlockArrives, FileBlockEvent, Events, FileBlocks, ControlTypeOK
    <3> QED  BY <1>11, <3>1, <3>2, <3>3
  <2>2. PICK e \in Events : /\ e.id \in {"ReceivedJobDocument", "ReceivedFileBlock"}
                            /\ queue' = queue \/ queue' = Append(queue, e)
    BY <1>4, <2>1 DEF Deliver
  <2>3. e.id \in FromOutside /\ e.id \notin OwnCalls
    BY <2>2 DEF FromOutside, OwnCalls
  <2>4. UNCHANGED <<state, activeJob, remaining, cur, conn, apiLeft, reqTimer>>
    BY <1>11 DEF JobDocumentArrives, FileBlockArrives, NoisyBlockArrives
  <2> QED  BY <1>1, <2>2, <2>3, <2>4
<1>12. CASE ConnectionLost
  <2>1. /\ UNCHANGED <<state, activeJob, remaining, cur, queue>>
        /\ conn = "up" /\ conn' = "suspending" /\ apiLeft > 0 /\ apiLeft' = apiLeft - 1
    BY <1>12 DEF ConnectionLost
  <2>2. CallsLeft' = CallsLeft /\ CallsLeft \in Nat /\ Suspending'
    BY <1>0, <2>1 DEF CallsLeft, ResumeDue, Suspending
  <2>3. queue # Append(queue, Event("Suspend"))
    BY <1>0, <1>2
  <2> QED  BY <1>0, <1>2, <1>3, <2>1, <2>2, <2>3, AwakeOutside
<1>13. CASE SuspendSignalled
  <2>1. /\ UNCHANGED <<state, activeJob, remaining, cur, apiLeft>>
        /\ conn = "suspending" /\ conn' \in {"suspendWait", "halted"}
        /\ queue' = queue \/ queue' = Append(queue, Event("Suspend"))
    BY <1>4, <1>13 DEF SuspendSignalled, SignalFrom
  <2>2. CallsLeft' <= CallsLeft /\ CallsLeft' \in Nat /\ Suspending'
    BY <1>0, <2>1 DEF CallsLeft, ResumeDue, Suspending
  <2> QED  BY <1>0, <1>2, <1>3, <2>1, <2>2, AwakeOutside
<1>14. CASE SuspendSeen
  <2>1. CASE ~Downloading
    <3>1. /\ UNCHANGED <<state, activeJob, apiLeft>> /\ conn = "suspendWait"
          /\ conn' \in {"down", "halted"}
      BY <1>14 DEF SuspendSeen
    <3>2. ~Downloading' /\ CallsLeft' <= CallsLeft /\ CallsLeft' \in Nat
          /\ CallsLeft \in Nat /\ MaxApi \in Nat
      BY <1>0, <2>1, <3>1, Sizes DEF Downloading, CallsLeft, ResumeDue
    <3> QED  BY <1>0, <3>2 DEF Awake, NoneStale, GoingOn
  <2>2. CASE Downloading
    <3>1. /\ UNCHANGED <<state, activeJob, remaining, cur, apiLeft, queue>>
          /\ conn = "suspendWait" /\ conn' = "halted"
      BY <1>14, <2>2 DEF SuspendSeen, Downloading
    <3>2. CallsLeft' <= CallsLeft /\ CallsLeft' \in Nat /\ Suspending'
      BY <1>0, <3>1 DEF CallsLeft, ResumeDue, Suspending
    <3> QED  BY <1>0, <1>2, <1>3, <3>1, <3>2, AwakeOutside
  <2> QED  BY <2>1, <2>2
<1>15. CASE Reconnected \/ ResumeTimers
  <2>1. /\ UNCHANGED <<state, activeJob, remaining, cur, apiLeft, queue>> /\ (reqTimer => reqTimer')
        /\ conn \in {"down", "arming"} /\ conn' \in {"arming", "resuming", "halted"}
    BY <1>15 DEF Reconnected, ResumeTimers, StartRequestTimer, ArmRequestTimer, TimerFails
  <2>2. CallsLeft' <= CallsLeft /\ CallsLeft' \in Nat /\ ~Suspending
    BY <1>0, <2>1 DEF CallsLeft, ResumeDue, Suspending
  <2> QED  BY <1>0, <1>2, <1>3, <2>1, <2>2, AwakeOutside
<1>16. CASE ResumeSignalled
  <2>1. /\ UNCHANGED <<state, activeJob, remaining, cur, apiLeft, reqTimer>>
        /\ conn = "resuming" /\ conn' \in {"resumeWait", "halted"}
        /\ queue' = queue \/ queue' = Append(queue, Event("Resume"))
    BY <1>4, <1>16 DEF ResumeSignalled, SignalFrom
  <2>2. CallsLeft' < CallsLeft /\ CallsLeft' \in Nat /\ CallsLeft \in Nat /\ ~Suspending
    BY <1>0, <2>1 DEF CallsLeft, ResumeDue, Suspending
  <2>3. CallsLeft' <= CallsLeft
    BY <2>2
  <2> QED  BY <1>0, <1>2, <2>1, <2>2, <2>3, AwakeOutside
<1>17. CASE ResumeSeen
  <2>1. /\ UNCHANGED <<state, activeJob, remaining, cur, apiLeft, queue, reqTimer>>
        /\ conn = "resumeWait" /\ conn' \in {"up", "halted"}
    BY <1>17 DEF ResumeSeen
  <2>2. CallsLeft' <= CallsLeft /\ CallsLeft' \in Nat /\ ~Suspending
    BY <1>0, <2>1 DEF CallsLeft, ResumeDue, Suspending
  <2> QED  BY <1>0, <1>2, <1>3, <2>1, <2>2, AwakeOutside
<1>18. CASE ApiCall
  <2>1. PICK i \in {"RequestJobDocument", "UserAbort", "Shutdown"} : queue' = Signal(Event(i))
    BY <1>18 DEF ApiCall
  <2>2. /\ UNCHANGED <<state, activeJob, remaining, cur, reqTimer, conn>>
        /\ apiLeft > 0 /\ apiLeft' = apiLeft - 1
        /\ queue' = queue \/ queue' = Append(queue, Event(i))
    BY <1>4, <1>18, <2>1 DEF ApiCall
  <2>3. CallsLeft' < CallsLeft /\ CallsLeft' \in Nat /\ CallsLeft \in Nat
        /\ Suspending' = Suspending
    BY <1>0, <2>2 DEF CallsLeft, ResumeDue, Suspending
  <2>4. CallsLeft' <= CallsLeft
    BY <2>3
  <2> QED  BY <1>0, <1>2, <2>2, <2>3, <2>4, AwakeOutside
<1>19. CASE JobCanceled
  <2>1. /\ UNCHANGED <<state, activeJob, remaining, cur, queue, reqTimer, conn>>
        /\ apiLeft > 0 /\ apiLeft' = apiLeft - 1
    BY <1>19 DEF JobCanceled
  <2>2. CallsLeft' <= CallsLeft /\ CallsLeft' \in Nat /\ Suspending' = Suspending
    BY <1>0, <2>1 DEF CallsLeft, ResumeDue, Suspending
  <2> QED  BY <1>0, <1>2, <1>3, <2>1, <2>2, AwakeOutside
<1>20. CASE UNCHANGED vars
  <2>1. UNCHANGED <<state, activeJob, remaining, cur, queue, conn, apiLeft, reqTimer>>
    BY <1>20 DEF vars
  <2> QED  BY <1>1, <1>2, <1>3, <2>1
<1> QED  BY <1>5, <1>6, <1>7, <1>8, <1>9, <1>10, <1>11, <1>12, <1>13, <1>14, <1>15, <1>16,
            <1>17, <1>18, <1>19, <1>20 DEF Next, AgentTask, MqttTask

(* An active download never falls asleep, whatever else is in the queue,   *)
(* when that has room beside all buffers and all calls of the application. *)
THEOREM DownloadStaysAwake ==
  ASSUME QueueLen > NumBuffers + MaxApi
  PROVE  Spec => []DownloadAwake
<1>1. Init => Awake
  <2> SUFFICES ASSUME Init PROVE Awake
    OBVIOUS
  <2>1. apiLeft = MaxApi /\ ~ResumeDue /\ ~Downloading
    BY DEF Init, ResumeDue, Downloading
  <2> QED  BY <2>1, Sizes DEF Awake, NoneStale, GoingOn, CallsLeft
<1>2. TypeInv /\ Awake /\ [Next]_vars => Awake'
  BY AwakeStep
<1>3. TypeInv /\ Awake => DownloadAwake
  <2> SUFFICES ASSUME TypeInv, Awake,
                      state \in {"RequestingFileBlock", "WaitingForFileBlock"}, activeJob # NoJob,
                      remaining > 0, conn = "up", ~reqTimer, cur = NoEvent
               PROVE  \E i \in DOMAIN queue : queue[i].id \in WakeUps
    BY DEF DownloadAwake
  <2>1. Queued(queue, GoesOn)
    BY DEF Awake, GoingOn, Downloading, Suspending, NoEvent, GoesOn, WakeUps
  <2>2. GoesOn \subseteq WakeUps
    BY DEF GoesOn, WakeUps
  <2>3. DOMAIN queue = 1..Len(queue)
    BY DEF TypeInv, TypeOK, QueueTypeOK
  <2> QED  BY <2>1, <2>2, <2>3 DEF Queued
<1> QED  BY <1>1, <1>2, <1>3, TypedAlways, PTL DEF Spec
=============================================================================
