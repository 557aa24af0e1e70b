-------------------------- MODULE JobSystemProofs --------------------------
(***************************************************************************)
(* Proofs, for every value of the constants, of the type invariant and of  *)
(* the safety properties of JobSystem that hold whatever the number of     *)
(* invocations, requests, deletions, surviving stage bodies and faults.    *)
(***************************************************************************)
EXTENDS JobSystem, TLAPS

-----------------------------------------------------------------------------
(* Writes of the row.                                                       *)

\* The write that ends a stage body leaves a well-formed row.
LEMMA StageWriteType ==
  ASSUME RowType, NEW x, x.report \in Contents, StageWrite(x)
  PROVE  RowType'
<1>1. CASE saveTranscript
  BY <1>1 DEF RowType, saveTranscript
<1>2. CASE replaceReport(x.report)
  BY <1>2 DEF RowType, replaceReport
<1>3. CASE setPdfReady
  BY <1>3 DEF RowType, setPdfReady, JobStatus
<1> QED
  BY <1>1, <1>2, <1>3 DEF StageWrite

\* Marking a job FAILED with a message leaves a well-formed row.
LEMMA FailedRowType ==
  ASSUME RowType, setStatusAndError("FAILED", TRUE)
  PROVE  RowType'
  BY DEF RowType, setStatusAndError, JobStatus

-----------------------------------------------------------------------------
(* Updates of one invocation's record.                                      *)

\* A finished invocation slot is well-formed.
LEMMA IdleInvocationType == IdleInvocation \in Invocation
  BY DEF IdleInvocation, Invocation, InvocationPC, STAGE, Contents

\* Replacing one invocation's record by another one keeps the invocations typed.
LEMMA InvUpdateType ==
  ASSUME InvType, NEW i \in Invocations, NEW x \in Invocation
  PROVE  [inv EXCEPT ![i] = x] \in [Invocations -> Invocation]
  BY DEF InvType

\* So does moving one invocation to another step.
LEMMA InvMoveType ==
  ASSUME InvType, NEW i \in Invocations, NEW p \in InvocationPC
  PROVE  [inv EXCEPT ![i].pc = p] \in [Invocations -> Invocation]
<1>1. [inv[i] EXCEPT !.pc = p] \in Invocation
  BY DEF InvType, Invocation
<1> QED
  BY <1>1 DEF InvType

\* An invocation whose promise settles is well-formed.
LEMMA SettlingType ==
  ASSUME InvType, NEW i \in Invocations, NEW o \in {"ok", "transient", "permanent"}
  PROVE  Settling(i, o) \in [Invocations -> Invocation]
<1>1. [IdleInvocation EXCEPT !.pc = "settle", !.outcome = o] \in Invocation
  BY DEF InvType, IdleInvocation, Invocation, InvocationPC, STAGE, Contents
<1> QED
  BY <1>1 DEF InvType, Settling

\* A transient error leaves well-formed invocations.
LEMMA ThrowType ==
  ASSUME InvType, NEW i \in Invocations, Throw(i)
  PROVE  InvType'
  BY SettlingType DEF InvType, Throw

\* An invocation that enters a stage is well-formed.
LEMMA EnteringType ==
  ASSUME InvType, NEW i \in Invocations, NEW s \in STAGE
  PROVE  Entering(i, s) \in Invocation
  BY DEF InvType, Invocation, Entering, InvocationPC

\* Parts of the state that a step leaves alone stay well-formed.
LEMMA Frame ==
  /\ RowType /\ UNCHANGED row => RowType'
  /\ BucketType /\ UNCHANGED bucket => BucketType'
  /\ QueueType /\ UNCHANGED redis => QueueType'
  /\ QueueInv /\ UNCHANGED queue => QueueInv'
  /\ InvType /\ UNCHANGED inv => InvType'
  /\ LateType /\ UNCHANGED late => LateType'
  /\ ApiType /\ UNCHANGED api => ApiType'
<1>1. RowType /\ UNCHANGED row => RowType'
  BY DEF RowType, row
<1>2. BucketType /\ UNCHANGED bucket => BucketType'
  BY DEF BucketType, bucket
<1>3. (QueueType /\ UNCHANGED redis => QueueType') /\ (QueueInv /\ UNCHANGED queue => QueueInv')
  BY DEF QueueType, QueueInv, redis
<1>4. (InvType /\ UNCHANGED inv => InvType') /\ (LateType /\ UNCHANGED late => LateType')
  BY DEF InvType, LateType
<1>5. ApiType /\ UNCHANGED api => ApiType'
  BY DEF ApiType, api
<1> QED
  BY <1>1, <1>2, <1>3, <1>4, <1>5

-----------------------------------------------------------------------------
(* One step of the system.                                                  *)

\* Every action keeps the state well-formed and the queue entry in order.
LEMMA TypeStep == TypeOK /\ QueueInv /\ [Next]_vars => TypeOK' /\ QueueInv'
<1> SUFFICES ASSUME TypeOK, QueueInv, [Next]_vars PROVE TypeOK' /\ QueueInv'
  OBVIOUS
<1>1. /\ RowType /\ BucketType /\ QueueType /\ InvType /\ LateType /\ ApiType
      /\ faults \in 0..MaxFaults
  BY DEF TypeOK
<1> USE <1>1
<1>2. ASSUME NEW t \in Triggers, ProcessRead(t)
      PROVE  TypeOK' /\ QueueInv'
  <2>1. RowType' /\ BucketType' /\ QueueType' /\ QueueInv' /\ InvType' /\ LateType' /\ (faults \in 0..MaxFaults)'
    BY <1>2, Frame DEF ProcessRead, bucket, redis, worker, api
  <2>2. ApiType'
    BY <1>2 DEF ProcessRead, ApiType, TriggerPC, api
  <2> QED
    BY <2>1, <2>2 DEF TypeOK
<1>3. ASSUME NEW t \in Triggers, ProcessHead(t)
      PROVE  TypeOK' /\ QueueInv'
  <2>1. RowType' /\ BucketType' /\ QueueType' /\ QueueInv' /\ InvType' /\ LateType' /\ (faults \in 0..MaxFaults)'
    BY <1>3, Frame DEF ProcessHead, bucket, redis, worker, api
  <2>2. ApiType'
    BY <1>3 DEF ProcessHead, ApiType, TriggerPC, api
  <2> QED
    BY <2>1, <2>2 DEF TypeOK
<1>4. ASSUME NEW t \in Triggers, ProcessSetQueued(t)
      PROVE  TypeOK' /\ QueueInv'
  <2>1. BucketType' /\ QueueType' /\ QueueInv' /\ InvType' /\ LateType' /\ (faults \in 0..MaxFaults)'
    BY <1>4, Frame DEF ProcessSetQueued, bucket, redis, worker, api
  <2>2. RowType'
    BY <1>4 DEF ProcessSetQueued, RowType, setStatusAndError, JobStatus, IN_FLIGHT
  <2>3. ApiType'
    BY <1>4 DEF ProcessSetQueued, ApiType, TriggerPC
  <2> QED
    BY <2>1, <2>2, <2>3 DEF TypeOK
<1>5. ASSUME NEW t \in Triggers, GetJob(t)
      PROVE  TypeOK' /\ QueueInv'
  <2>1. RowType' /\ BucketType' /\ QueueType' /\ QueueInv' /\ InvType' /\ LateType' /\ (faults \in 0..MaxFaults)'
    BY <1>5, Frame DEF GetJob, bucket, redis, worker, api
  <2>2. ApiType'
    BY <1>5 DEF GetJob, ApiType, TriggerPC, api
  <2> QED
    BY <2>1, <2>2 DEF TypeOK
<1>6. ASSUME NEW t \in Triggers, GetState(t)
      PROVE  TypeOK' /\ QueueInv'
  <2>1. RowType' /\ BucketType' /\ QueueType' /\ QueueInv' /\ InvType' /\ LateType' /\ (faults \in 0..MaxFaults)'
    BY <1>6, Frame DEF GetState, bucket, redis, worker, api
  <2>2. ApiType'
    BY <1>6 DEF GetState, ApiType, TriggerPC, api
  <2> QED
    BY <2>1, <2>2 DEF TypeOK
<1>7. ASSUME NEW t \in Triggers, Remove(t)
      PROVE  TypeOK' /\ QueueInv'
  <2>1. RowType' /\ BucketType' /\ InvType' /\ LateType' /\ (faults \in 0..MaxFaults)'
    BY <1>7, Frame DEF Remove, bucket, redis, worker, api
  <2>2. QueueType' /\ QueueInv'
    BY <1>7, ConstantsAssumption DEF Remove, QueueType, QueueInv, QueueEntry, NoEntry, Locked
  <2>3. ApiType'
    BY <1>7 DEF Remove, ApiType, TriggerPC
  <2> QED
    BY <2>1, <2>2, <2>3 DEF TypeOK
<1>8. ASSUME NEW t \in Triggers, Add(t)
      PROVE  TypeOK' /\ QueueInv'
  <2>1. RowType' /\ BucketType' /\ InvType' /\ LateType' /\ (faults \in 0..MaxFaults)'
    BY <1>8, Frame DEF Add, bucket, redis, worker, api
  <2>2. QueueType' /\ QueueInv'
    BY <1>8, ConstantsAssumption DEF Add, QueueType, QueueInv, QueueEntry, NoEntry
  <2>3. ApiType'
    BY <1>8 DEF Add, ApiType, TriggerPC
  <2> QED
    BY <2>1, <2>2, <2>3 DEF TypeOK
<1>9. ASSUME NEW t \in Triggers, LoseTrigger(t)
      PROVE  TypeOK' /\ QueueInv'
  <2>1. RowType' /\ BucketType' /\ QueueType' /\ QueueInv' /\ InvType' /\ LateType'
    BY <1>9, Frame DEF LoseTrigger, bucket, redis, worker, api
  <2>2. ApiType'
    BY <1>9 DEF LoseTrigger, ApiType, TriggerPC
  <2>3. (faults \in 0..MaxFaults)'
    BY <1>9, ConstantsAssumption DEF LoseTrigger, Fault
  <2> QED
    BY <2>1, <2>2, <2>3 DEF TypeOK
<1>10. ASSUME NEW i \in Invocations, Take(i)
      PROVE  TypeOK' /\ QueueInv'
  <2>1. RowType' /\ BucketType' /\ LateType' /\ ApiType' /\ (faults \in 0..MaxFaults)'
    BY <1>10, Frame DEF Take, bucket, redis, worker, api
  <2>2. QueueType' /\ QueueInv'
    BY <1>10, ConstantsAssumption DEF Take, QueueType, QueueInv, QueueEntry, NoEntry
  <2>3. InvType'
    <3>1. [IdleInvocation EXCEPT !.pc = "settle", !.outcome = "permanent"] \in Invocation
      BY IdleInvocationType DEF Invocation, InvocationPC
    <3>2. [IdleInvocation EXCEPT !.pc = "load"] \in Invocation
      BY IdleInvocationType DEF Invocation, InvocationPC
    <3> QED
      BY <1>10, <3>1, <3>2, InvUpdateType DEF Take, InvType
  <2> QED
    BY <2>1, <2>2, <2>3 DEF TypeOK
<1>11. ASSUME NEW i \in Invocations, Load(i)
      PROVE  TypeOK' /\ QueueInv'
  <2>1. RowType' /\ BucketType' /\ QueueType' /\ QueueInv' /\ LateType' /\ ApiType' /\ (faults \in 0..MaxFaults)'
    BY <1>11, Frame DEF Load, bucket, redis, worker, api
  <2>2. InvType'
    <3>1. CASE Throw(i)
      BY <3>1, ThrowType
    <3>2. CASE inv' = Settling(i, "ok")
      BY <3>2, SettlingType DEF InvType
    <3>3. CASE inv' = [inv EXCEPT ![i] = [Entering(i, FirstStage(transcript, report)) EXCEPT !.report = report]]
      <4>1. Entering(i, FirstStage(transcript, report)) \in Invocation
        BY EnteringType DEF FirstStage, CompileOrRender, STAGE
      <4>2. [Entering(i, FirstStage(transcript, report)) EXCEPT !.report = report] \in Invocation
        BY <4>1 DEF RowType, Invocation
      <4> QED
        BY <3>3, <4>2, InvUpdateType DEF InvType
    <3> QED
      BY <1>11, <3>1, <3>2, <3>3 DEF Load
  <2> QED
    BY <2>1, <2>2 DEF TypeOK
<1>12. ASSUME NEW i \in Invocations, StageStart(i)
      PROVE  TypeOK' /\ QueueInv'
  <2>1. BucketType' /\ QueueType' /\ QueueInv' /\ LateType' /\ ApiType' /\ (faults \in 0..MaxFaults)'
    BY <1>12, Frame DEF StageStart, bucket, redis, worker, api
  <2>2. RowType'
    <3>1. CASE UNCHANGED row
      BY <3>1, Frame
    <3>2. CASE setStatus(StageStatus(inv[i].stage))
      <4>1. StageStatus(inv[i].stage) \in JobStatus
        BY DEF InvType, Invocation, STAGE, StageStatus, JobStatus, IN_FLIGHT
      <4> QED
        BY <3>2, <4>1 DEF RowType, setStatus
    <3> QED
      BY <1>12, <3>1, <3>2 DEF StageStart
  <2>3. InvType'
    <3>1. CASE Throw(i)
      BY <3>1, ThrowType
    <3>2. CASE inv' = [inv EXCEPT ![i].pc = "call"]
      BY <3>2, InvMoveType DEF InvType, InvocationPC
    <3> QED
      BY <1>12, <3>1, <3>2 DEF StageStart
  <2> QED
    BY <2>1, <2>2, <2>3 DEF TypeOK
<1>13. ASSUME NEW i \in Invocations, Call(i)
      PROVE  TypeOK' /\ QueueInv'
  <2>1. RowType' /\ BucketType' /\ QueueType' /\ QueueInv' /\ LateType' /\ ApiType' /\ (faults \in 0..MaxFaults)'
    BY <1>13, Frame DEF Call, bucket, redis, worker, api
  <2>2. InvType'
    <3>1. CASE Throw(i)
      BY <3>1, ThrowType
    <3>2. CASE inv' = [inv EXCEPT ![i].pc = "markRead"]
      BY <3>2, InvMoveType DEF InvType, InvocationPC
    <3>3. ASSUME NEW r \in CallResults(inv[i]),
                 inv' = [inv EXCEPT ![i].pc = AfterCall(inv[i].stage), ![i].report = r]
          PROVE  InvType'
      <4>1. r \in Contents
        BY DEF CallResults, InvType, Invocation
      <4>2. [inv[i] EXCEPT !.pc = AfterCall(inv[i].stage), !.report = r] \in Invocation
        BY <4>1 DEF InvType, Invocation, InvocationPC, AfterCall
      <4> QED
        BY <3>3, <4>2 DEF InvType
    <3> QED
      BY <1>13, <3>1, <3>2, <3>3 DEF Call
  <2> QED
    BY <2>1, <2>2 DEF TypeOK
<1>14. ASSUME NEW i \in Invocations, Put(i)
      PROVE  TypeOK' /\ QueueInv'
  <2>1. RowType' /\ QueueType' /\ QueueInv' /\ LateType' /\ ApiType' /\ (faults \in 0..MaxFaults)'
    BY <1>14, Frame DEF Put, bucket, redis, worker, api
  <2>2. BucketType'
    BY <1>14 DEF Put, BucketType, InvType, Invocation
  <2>3. InvType'
    <3>1. CASE Throw(i)
      BY <3>1, ThrowType
    <3>2. CASE inv' = [inv EXCEPT ![i].pc = "save"]
      BY <3>2, InvMoveType DEF InvType, InvocationPC
    <3> QED
      BY <1>14, <3>1, <3>2 DEF Put
  <2> QED
    BY <2>1, <2>2, <2>3 DEF TypeOK
<1>15. ASSUME NEW i \in Invocations, Save(i)
      PROVE  TypeOK' /\ QueueInv'
  <2>1. BucketType' /\ QueueType' /\ QueueInv' /\ LateType' /\ ApiType' /\ (faults \in 0..MaxFaults)'
    BY <1>15, Frame DEF Save, bucket, redis, worker, api
  <2>2. RowType'
    BY <1>15, StageWriteType, Frame DEF Save, InvType, Invocation
  <2>3. InvType'
    <3>1. CASE Throw(i)
      BY <3>1, ThrowType
    <3>2. CASE inv' = AfterStage(i)
      <4>1. Entering(i, CompileOrRender(inv[i].report)) \in Invocation /\ Entering(i, "render") \in Invocation
        BY EnteringType DEF CompileOrRender, STAGE
      <4>2. inv[i].stage \in STAGE
        BY DEF InvType, Invocation
      <4> QED
        BY <3>2, <4>1, <4>2, InvUpdateType, SettlingType DEF InvType, AfterStage, STAGE
    <3> QED
      BY <1>15, <3>1, <3>2 DEF Save
  <2> QED
    BY <2>1, <2>2, <2>3 DEF TypeOK
<1>16. ASSUME NEW i \in Invocations, NEW c \in Closures, Timeout(i, c)
      PROVE  TypeOK' /\ QueueInv'
  <2>1. RowType' /\ BucketType' /\ QueueType' /\ QueueInv' /\ ApiType' /\ (faults \in 0..MaxFaults)'
    BY <1>16, Frame DEF Timeout, bucket, redis, worker, api
  <2>2. InvType'
    BY <1>16, ThrowType DEF Timeout
  <2>3. LateType'
    BY <1>16 DEF Timeout, LateType, Closure, InvType, Invocation
  <2> QED
    BY <2>1, <2>2, <2>3 DEF TypeOK
<1>17. ASSUME NEW i \in Invocations, MarkRead(i)
      PROVE  TypeOK' /\ QueueInv'
  <2>1. RowType' /\ BucketType' /\ QueueType' /\ QueueInv' /\ LateType' /\ ApiType' /\ (faults \in 0..MaxFaults)'
    BY <1>17, Frame DEF MarkRead, bucket, redis, worker, api
  <2>2. InvType'
    <3>1. CASE Throw(i)
      BY <3>1, ThrowType
    <3>2. CASE inv' = Settling(i, "permanent")
      BY <3>2, SettlingType DEF InvType
    <3>3. CASE inv' = [inv EXCEPT ![i].pc = "markSet"]
      BY <3>3, InvMoveType DEF InvType, InvocationPC
    <3> QED
      BY <1>17, <3>1, <3>2, <3>3 DEF MarkRead
  <2> QED
    BY <2>1, <2>2 DEF TypeOK
<1>18. ASSUME NEW i \in Invocations, MarkSet(i)
      PROVE  TypeOK' /\ QueueInv'
  <2>1. BucketType' /\ QueueType' /\ QueueInv' /\ LateType' /\ ApiType' /\ (faults \in 0..MaxFaults)'
    BY <1>18, Frame DEF MarkSet, bucket, redis, worker, api
  <2>2. RowType'
    BY <1>18, FailedRowType, Frame DEF MarkSet
  <2>3. InvType'
    <3>1. CASE Throw(i)
      BY <3>1, ThrowType
    <3>2. CASE inv' = Settling(i, "permanent")
      BY <3>2, SettlingType DEF InvType
    <3> QED
      BY <1>18, <3>1, <3>2 DEF MarkSet
  <2> QED
    BY <2>1, <2>2, <2>3 DEF TypeOK
<1>19. ASSUME NEW i \in Invocations, Settle(i)
      PROVE  TypeOK' /\ QueueInv'
  <2>1. RowType' /\ BucketType' /\ LateType' /\ ApiType' /\ (faults \in 0..MaxFaults)'
    BY <1>19, Frame DEF Settle, bucket, redis, worker, api
  <2>2. QueueType' /\ QueueInv'
    <3>1. CASE UNCHANGED queue
      BY <1>19, <3>1, Frame DEF Settle, redis
    <3>2. CASE queue.lock = i /\ inv[i].outcome = "ok"
      BY <1>19, <3>2, ConstantsAssumption DEF Settle, QueueType, QueueInv, QueueEntry
    <3>3. CASE queue.lock = i /\ inv[i].outcome # "ok"
      <4>1. queue.attemptsMade \in Nat /\ queue.attemptsMade < MaxAttempts /\ MaxAttempts \in Nat
        BY <3>3, ConstantsAssumption DEF QueueType, QueueInv, QueueEntry
      <4>2. queue.attemptsMade + 1 \in 0..MaxAttempts
        BY <4>1
      <4>3. ~Exhausted(inv[i].outcome) => queue.attemptsMade + 1 < MaxAttempts
        BY <4>1 DEF Exhausted
      <4>4. CASE Exhausted(inv[i].outcome)
        <5>1. queue' = [queue EXCEPT !.state = "failed", !.lock = NoInvocation, !.attemptsMade = @ + 1]
          BY <1>19, <3>3, <4>4 DEF Settle
        <5> QED
          BY <1>19, <5>1, <4>2 DEF Settle, QueueType, QueueInv, QueueEntry
      <4>5. CASE ~Exhausted(inv[i].outcome)
        <5>1. queue' = [queue EXCEPT !.state = "delayed", !.lock = NoInvocation, !.attemptsMade = @ + 1]
          BY <1>19, <3>3, <4>5 DEF Settle
        <5> QED
          BY <1>19, <5>1, <4>2, <4>3, <4>5 DEF Settle, QueueType, QueueInv, QueueEntry
      <4> QED
        BY <4>4, <4>5
    <3> QED
      BY <1>19, <3>1, <3>2, <3>3 DEF Settle
  <2>3. InvType'
    <3>1. [IdleInvocation EXCEPT !.pc = "failRead"] \in Invocation
      BY DEF InvType, IdleInvocation, Invocation, InvocationPC, STAGE, Contents
    <3> QED
      BY <1>19, <3>1, IdleInvocationType, InvUpdateType DEF Settle, InvType
  <2> QED
    BY <2>1, <2>2, <2>3 DEF TypeOK
<1>20. ASSUME NEW i \in Invocations, FailRead(i)
      PROVE  TypeOK' /\ QueueInv'
  <2>1. RowType' /\ BucketType' /\ QueueType' /\ QueueInv' /\ LateType' /\ ApiType' /\ (faults \in 0..MaxFaults)'
    BY <1>20, Frame DEF FailRead, bucket, redis, worker, api
  <2>2. InvType'
    BY <1>20, InvMoveType DEF FailRead, InvType, InvocationPC
  <2> QED
    BY <2>1, <2>2 DEF TypeOK
<1>21. ASSUME NEW i \in Invocations, FailSet(i)
      PROVE  TypeOK' /\ QueueInv'
  <2>1. BucketType' /\ QueueType' /\ QueueInv' /\ LateType' /\ ApiType' /\ (faults \in 0..MaxFaults)'
    BY <1>21, Frame DEF FailSet, bucket, redis, worker, api
  <2>2. RowType'
    BY <1>21, FailedRowType DEF FailSet
  <2>3. InvType'
    BY <1>21, InvMoveType DEF FailSet, InvType, InvocationPC
  <2> QED
    BY <2>1, <2>2, <2>3 DEF TypeOK
<1>22. ASSUME NEW i \in Invocations, FailDlq(i)
      PROVE  TypeOK' /\ QueueInv'
  <2>1. RowType' /\ BucketType' /\ LateType' /\ ApiType' /\ (faults \in 0..MaxFaults)'
    BY <1>22, Frame DEF FailDlq, bucket, redis, worker, api
  <2>2. QueueType' /\ QueueInv'
    BY <1>22 DEF FailDlq, QueueType, QueueInv
  <2>3. InvType'
    BY <1>22, IdleInvocationType, InvUpdateType DEF FailDlq, InvType
  <2> QED
    BY <2>1, <2>2, <2>3 DEF TypeOK
<1>23. ASSUME NEW i \in Invocations, Crash(i)
      PROVE  TypeOK' /\ QueueInv'
  <2>1. RowType' /\ BucketType' /\ LateType' /\ ApiType'
    BY <1>23, Frame DEF Crash, bucket, redis, worker, api
  <2>2. QueueType' /\ QueueInv'
    BY <1>23, ConstantsAssumption DEF Crash, QueueType, QueueInv, QueueEntry, NoEntry, Unlock
  <2>3. InvType'
    BY <1>23, IdleInvocationType, InvUpdateType DEF Crash, InvType
  <2>4. (faults \in 0..MaxFaults)'
    BY <1>23, ConstantsAssumption DEF Crash, Fault
  <2> QED
    BY <2>1, <2>2, <2>3, <2>4 DEF TypeOK
<1>24. ASSUME NEW i \in Invocations, LoseLock(i)
      PROVE  TypeOK' /\ QueueInv'
  <2>1. RowType' /\ BucketType' /\ InvType' /\ LateType' /\ ApiType'
    BY <1>24, Frame DEF LoseLock, bucket, redis, worker, api
  <2>2. QueueType' /\ QueueInv'
    BY <1>24, ConstantsAssumption DEF LoseLock, QueueType, QueueInv, QueueEntry, NoEntry, Unlock
  <2>3. (faults \in 0..MaxFaults)'
    BY <1>24, ConstantsAssumption DEF LoseLock, Fault
  <2> QED
    BY <2>1, <2>2, <2>3 DEF TypeOK
<1>25. ASSUME NEW i \in Invocations, LoseHandler(i)
      PROVE  TypeOK' /\ QueueInv'
  <2>1. RowType' /\ BucketType' /\ QueueType' /\ QueueInv' /\ LateType' /\ ApiType'
    BY <1>25, Frame DEF LoseHandler, bucket, redis, worker, api
  <2>2. InvType'
    BY <1>25, IdleInvocationType, InvUpdateType DEF LoseHandler, InvType
  <2>3. (faults \in 0..MaxFaults)'
    BY <1>25, ConstantsAssumption DEF LoseHandler, Fault
  <2> QED
    BY <2>1, <2>2, <2>3 DEF TypeOK
<1>26. ASSUME NEW c \in Closures, LateCall(c)
      PROVE  TypeOK' /\ QueueInv'
  <2>1. RowType' /\ BucketType' /\ QueueType' /\ QueueInv' /\ InvType' /\ ApiType' /\ (faults \in 0..MaxFaults)'
    BY <1>26, Frame DEF LateCall, bucket, redis, worker, api
  <2>2. LateType'
    <3>1. PICK r \in CallResults(late[c]) :
              late' = [late EXCEPT ![c].pc = AfterCall(late[c].stage), ![c].report = r]
      BY <1>26 DEF LateCall
    <3>2. r \in Contents
      BY DEF CallResults, LateType, Closure
    <3>3. [late[c] EXCEPT !.pc = AfterCall(late[c].stage), !.report = r] \in Closure
      BY <3>2 DEF LateType, Closure, AfterCall
    <3> QED
      BY <3>1, <3>3 DEF LateType
  <2> QED
    BY <2>1, <2>2 DEF TypeOK
<1>27. ASSUME NEW c \in Closures, LatePut(c)
      PROVE  TypeOK' /\ QueueInv'
  <2>1. RowType' /\ QueueType' /\ QueueInv' /\ InvType' /\ ApiType' /\ (faults \in 0..MaxFaults)'
    BY <1>27, Frame DEF LatePut, bucket, redis, worker, api
  <2>2. BucketType'
    BY <1>27 DEF LatePut, BucketType, LateType, Closure
  <2>3. LateType'
    BY <1>27 DEF LatePut, LateType, Closure
  <2> QED
    BY <2>1, <2>2, <2>3 DEF TypeOK
<1>28. ASSUME NEW c \in Closures, LateSave(c)
      PROVE  TypeOK' /\ QueueInv'
  <2>1. BucketType' /\ QueueType' /\ QueueInv' /\ InvType' /\ ApiType' /\ (faults \in 0..MaxFaults)'
    BY <1>28, Frame DEF LateSave, bucket, redis, worker, api
  <2>2. RowType'
    BY <1>28, StageWriteType DEF LateSave, LateType, Closure
  <2>3. LateType'
    BY <1>28 DEF LateSave, LateType, Closure, IdleClosure, STAGE, Contents
  <2> QED
    BY <2>1, <2>2, <2>3 DEF TypeOK
<1>29. ASSUME NEW c \in Closures, LateEnd(c)
      PROVE  TypeOK' /\ QueueInv'
  <2>1. RowType' /\ BucketType' /\ QueueType' /\ QueueInv' /\ InvType' /\ ApiType' /\ (faults \in 0..MaxFaults)'
    BY <1>29, Frame DEF LateEnd, bucket, redis, worker, api
  <2>2. LateType'
    BY <1>29 DEF LateEnd, LateType, Closure, IdleClosure, STAGE, Contents
  <2> QED
    BY <2>1, <2>2 DEF TypeOK
<1>30. ASSUME NEW d \in Deletes, DeleteRead(d)
      PROVE  TypeOK' /\ QueueInv'
  <2>1. RowType' /\ BucketType' /\ QueueType' /\ QueueInv' /\ InvType' /\ LateType' /\ (faults \in 0..MaxFaults)'
    BY <1>30, Frame DEF DeleteRead, bucket, redis, worker, api
  <2>2. ApiType'
    BY <1>30 DEF DeleteRead, ApiType, DeleteRequest, RowType
  <2> QED
    BY <2>1, <2>2 DEF TypeOK
<1>31. ASSUME NEW d \in Deletes, DeleteSoft(d)
      PROVE  TypeOK' /\ QueueInv'
  <2>1. BucketType' /\ QueueType' /\ QueueInv' /\ InvType' /\ LateType' /\ (faults \in 0..MaxFaults)'
    BY <1>31, Frame DEF DeleteSoft, bucket, redis, worker, api
  <2>2. RowType'
    BY <1>31, Frame DEF DeleteSoft, RowType, softDelete
  <2>3. ApiType'
    <3>1. DoneDelete \in DeleteRequest /\ [del[d] EXCEPT !.pc = "objects"] \in DeleteRequest
      BY DEF ApiType, DeleteRequest, DoneDelete
    <3> QED
      BY <1>31, <3>1 DEF DeleteSoft, ApiType
  <2> QED
    BY <2>1, <2>2, <2>3 DEF TypeOK
<1>32. ASSUME NEW d \in Deletes, DeleteObjects(d)
      PROVE  TypeOK' /\ QueueInv'
  <2>1. RowType' /\ QueueType' /\ QueueInv' /\ InvType' /\ LateType' /\ (faults \in 0..MaxFaults)'
    BY <1>32, Frame DEF DeleteObjects, bucket, redis, worker, api
  <2>2. BucketType'
    BY <1>32 DEF DeleteObjects, BucketType, bucket
  <2>3. ApiType'
    BY <1>32 DEF DeleteObjects, ApiType, DeleteRequest, DoneDelete
  <2> QED
    BY <2>1, <2>2, <2>3 DEF TypeOK
<1>33. ASSUME NEW r \in Edits, Update(r)
      PROVE  TypeOK' /\ QueueInv'
  <2>1. BucketType' /\ QueueType' /\ QueueInv' /\ InvType' /\ LateType' /\ ApiType' /\ (faults \in 0..MaxFaults)'
    BY <1>33, Frame DEF Update, bucket, redis, worker, api
  <2>2. RowType'
    BY <1>33, ConstantsAssumption DEF Update, RowType, replaceReport, Contents
  <2> QED
    BY <2>1, <2>2 DEF TypeOK
<1>34. CASE Promote
  <2>1. RowType' /\ BucketType' /\ InvType' /\ LateType' /\ ApiType' /\ (faults \in 0..MaxFaults)'
    BY <1>34, Frame DEF Promote, bucket, redis, worker, api
  <2>2. QueueType' /\ QueueInv'
    BY <1>34 DEF Promote, QueueType, QueueInv, QueueEntry, NoEntry
  <2> QED
    BY <2>1, <2>2 DEF TypeOK
<1>35. CASE Stall
  <2>1. RowType' /\ BucketType' /\ InvType' /\ LateType' /\ ApiType' /\ (faults \in 0..MaxFaults)'
    BY <1>35, Frame DEF Stall, bucket, redis, worker, api
  <2>2. QueueType' /\ QueueInv'
    <3>1. queue.stalled + 1 \in Nat
      BY DEF QueueType, QueueEntry
    <3> QED
      BY <1>35, <3>1 DEF Stall, QueueType, QueueInv, QueueEntry
  <2> QED
    BY <2>1, <2>2 DEF TypeOK
<1>36. CASE Evict
  <2>1. RowType' /\ BucketType' /\ InvType' /\ LateType' /\ ApiType' /\ (faults \in 0..MaxFaults)'
    BY <1>36, Frame DEF Evict, bucket, redis, worker, api
  <2>2. QueueType' /\ QueueInv'
    BY <1>36, ConstantsAssumption DEF Evict, QueueType, QueueInv, QueueEntry, NoEntry
  <2> QED
    BY <2>1, <2>2 DEF TypeOK
<1>37. CASE Upload
  <2>1. RowType' /\ QueueType' /\ QueueInv' /\ InvType' /\ LateType' /\ ApiType' /\ (faults \in 0..MaxFaults)'
    BY <1>37, Frame DEF Upload, bucket, redis, worker, api
  <2>2. BucketType'
    BY <1>37 DEF Upload, BucketType
  <2> QED
    BY <2>1, <2>2 DEF TypeOK
<1>38. CASE UNCHANGED vars
  BY <1>38, Frame DEF TypeOK, vars, redis, worker
<1> QED
  BY <1>2, <1>3, <1>4, <1>5, <1>6, <1>7, <1>8, <1>9, <1>10, <1>11, <1>12, <1>13, <1>14, <1>15, <1>16, <1>17, <1>18, <1>19, <1>20, <1>21, <1>22, <1>23, <1>24, <1>25, <1>26, <1>27, <1>28, <1>29, <1>30, <1>31, <1>32, <1>33, <1>34, <1>35, <1>36, <1>37, <1>38
  DEF Next, TriggerStep, InvocationStep, ClosureStep, DeleteStep

\* A draft job is well-formed.
LEMMA TypeInit == Init => TypeOK /\ QueueInv
<1> SUFFICES ASSUME Init PROVE TypeOK /\ QueueInv
  OBVIOUS
<1>1. RowType /\ BucketType
  BY DEF Init, RowType, BucketType, JobStatus, Contents
<1>2. QueueType /\ QueueInv
  <2>1. NoEntry \in QueueEntry
    BY ConstantsAssumption DEF NoEntry, QueueEntry
  <2>2. NoEntry.lock = NoInvocation /\ NoEntry.attemptsMade < MaxAttempts
    BY ConstantsAssumption DEF NoEntry
  <2> QED
    BY <2>1, <2>2 DEF Init, QueueType, QueueInv
<1>3. InvType
  BY IdleInvocationType DEF Init, InvType
<1>4. LateType
  BY DEF Init, LateType, IdleClosure, Closure, STAGE, Contents
<1>5. ApiType
  BY DEF Init, ApiType, TriggerPC, NewDelete, DeleteRequest
<1>6. faults \in 0..MaxFaults
  BY ConstantsAssumption DEF Init
<1> QED
  BY <1>1, <1>2, <1>3, <1>4, <1>5, <1>6 DEF TypeOK

\* Every reachable state of a job's row, its objects, its queue entry and the
\* code working on it is well-formed; no entry gets more than MaxAttempts
\* attempts (JOB_MAX_ATTEMPTS), however it is retried, stalled or re-added.
THEOREM TypeCorrect == Spec => []TypeOK
<1> QED
  BY TypeInit, TypeStep, PTL DEF Spec

-----------------------------------------------------------------------------
(* What an invocation's own steps do to its place in process().             *)

\* Invocation i goes to one of the steps in pcs, in the given stage, and no
\* other invocation moves.
Moves(i, pcs, stages) ==
  /\ inv'[i].pc \in pcs /\ inv'[i].stage \in stages
  /\ \A j \in Invocations : j # i => inv'[j] = inv[j]

\* An invocation that settles does nothing but report to the queue.
LEMMA SettlingMoves ==
  ASSUME InvType, NEW i \in Invocations, NEW o, inv' = Settling(i, o)
  PROVE  Moves(i, {"settle"}, STAGE)
  BY DEF InvType, Settling, IdleInvocation, Invocation, STAGE, Moves

\* The same for one that throws.
LEMMA ThrowMoves ==
  ASSUME InvType, NEW i \in Invocations, Throw(i)
  PROVE  Moves(i, {"settle"}, STAGE)
  BY SettlingMoves DEF Throw

\* process() starts with the first stage that its row does not show as done.
LEMMA LoadMoves ==
  ASSUME InvType, NEW i \in Invocations, Load(i)
  PROVE  \/ Moves(i, {"settle"}, STAGE)
         \/ Moves(i, {"stage"}, {FirstStage(transcript, report)})
<1>1. CASE Throw(i)
  BY <1>1, ThrowMoves
<1>2. CASE inv' = Settling(i, "ok")
  BY <1>2, SettlingMoves
<1>3. CASE inv' = [inv EXCEPT ![i] = [Entering(i, FirstStage(transcript, report)) EXCEPT !.report = report]]
  <2> DEFINE fs == FirstStage(transcript, report)
  <2> HIDE DEF fs
  <2>1. inv' = [inv EXCEPT ![i] = [[inv[i] EXCEPT !.pc = "stage", !.stage = fs] EXCEPT !.report = report]]
    BY <1>3 DEF Entering, fs
  <2>2. inv'[i].pc = "stage" /\ inv'[i].stage = fs
    BY <2>1 DEF InvType, Invocation
  <2>3. \A j \in Invocations : j # i => inv'[j] = inv[j]
    BY <2>1 DEF InvType
  <2> QED
    BY <2>2, <2>3 DEF Moves, fs
<1> QED
  BY <1>1, <1>2, <1>3 DEF Load

\* runStage starts the stage body or throws.
LEMMA StageStartMoves ==
  ASSUME InvType, NEW i \in Invocations, StageStart(i)
  PROVE  Moves(i, {"settle"}, STAGE) \/ Moves(i, {"call"}, {inv[i].stage})
<1>1. CASE Throw(i)
  BY <1>1, ThrowMoves
<1>2. CASE inv' = [inv EXCEPT ![i].pc = "call"]
  BY <1>2 DEF InvType, Invocation, Moves
<1> QED
  BY <1>1, <1>2 DEF StageStart

\* A stage body whose call returned goes to its writes.
LEMMA CallMoves ==
  ASSUME InvType, NEW i \in Invocations, Call(i)
  PROVE  \/ Moves(i, {"settle", "markRead"}, STAGE)
         \/ Moves(i, {AfterCall(inv[i].stage)}, {inv[i].stage})
<1>1. CASE Throw(i)
  BY <1>1, ThrowMoves DEF Moves
<1>2. CASE inv' = [inv EXCEPT ![i].pc = "markRead"]
  BY <1>2 DEF InvType, Invocation, Moves
<1>3. ASSUME NEW r, inv' = [inv EXCEPT ![i].pc = AfterCall(inv[i].stage), ![i].report = r]
      PROVE  Moves(i, {AfterCall(inv[i].stage)}, {inv[i].stage})
  BY <1>3 DEF InvType, Invocation, Moves
<1> QED
  BY <1>1, <1>2, <1>3 DEF Call

\* READY is only written after the PDF was put.
LEMMA PutMoves ==
  ASSUME InvType, NEW i \in Invocations, Put(i)
  PROVE  \/ Moves(i, {"settle"}, STAGE) /\ UNCHANGED pdf
         \/ Moves(i, {"save"}, {inv[i].stage}) /\ pdf' = inv[i].report
<1>1. CASE Throw(i) /\ UNCHANGED pdf
  BY <1>1, ThrowMoves
<1>2. CASE inv' = [inv EXCEPT ![i].pc = "save"] /\ pdf' = inv[i].report
  BY <1>2 DEF InvType, Invocation, Moves
<1> QED
  BY <1>1, <1>2 DEF Put

\* After its write a stage hands over to the next one, or process() ends.
LEMMA SaveMoves ==
  ASSUME InvType, NEW i \in Invocations, Save(i)
  PROVE  \/ Moves(i, {"settle"}, STAGE)
         \/ Moves(i, {"stage"}, STAGE) /\ StageWrite(inv[i])
<1>1. CASE Throw(i)
  BY <1>1, ThrowMoves
<1>2. CASE StageWrite(inv[i]) /\ inv' = AfterStage(i)
  <2>1. \A s \in STAGE : inv' = [inv EXCEPT ![i] = Entering(i, s)] => Moves(i, {"stage"}, STAGE)
    BY DEF InvType, Invocation, Entering, Moves
  <2>2. CompileOrRender(inv[i].report) \in STAGE /\ "render" \in STAGE /\ inv[i].stage \in STAGE
    BY DEF CompileOrRender, STAGE, InvType, Invocation
  <2> QED
    BY <1>2, <2>1, <2>2, SettlingMoves DEF AfterStage, STAGE
<1> QED
  BY <1>1, <1>2 DEF Save

\* markFailed inside process() ends in the queue too.
LEMMA MarkMoves ==
  ASSUME InvType, NEW i \in Invocations, MarkRead(i) \/ MarkSet(i)
  PROVE  Moves(i, {"settle", "markSet"}, STAGE)
<1>1. CASE Throw(i) \/ inv' = Settling(i, "permanent")
  BY <1>1, ThrowMoves, SettlingMoves DEF Moves
<1>2. CASE inv' = [inv EXCEPT ![i].pc = "markSet"]
  BY <1>2 DEF InvType, Invocation, Moves
<1> QED
  BY <1>1, <1>2 DEF MarkRead, MarkSet

\* A settled invocation is over, or its failure handler takes over.
LEMMA SettleMoves ==
  ASSUME InvType, NEW i \in Invocations, Settle(i)
  PROVE  Moves(i, {"idle", "failRead"}, STAGE)
<1>1. CASE inv' = [inv EXCEPT ![i] = IdleInvocation]
  BY <1>1 DEF InvType, IdleInvocation, STAGE, Moves
<1>2. CASE inv' = [inv EXCEPT ![i] = [IdleInvocation EXCEPT !.pc = "failRead"]]
  BY <1>2 DEF InvType, IdleInvocation, STAGE, Moves
<1> QED
  BY <1>1, <1>2 DEF Settle

-----------------------------------------------------------------------------
(* The inductive invariants.                                                *)

\* No step leaves a job READY, or about to be, without its PDF.
LEMMA PdfStep == TypeOK /\ PdfInv /\ [Next]_vars => PdfInv'
<1> SUFFICES ASSUME TypeOK, PdfInv, [Next]_vars PROVE PdfInv'
  OBVIOUS
<1>1. RowType /\ BucketType /\ QueueType /\ InvType /\ LateType /\ ApiType
  BY DEF TypeOK
<1>2. ASSUME NEW t \in Triggers, ProcessRead(t) PROVE PdfInv'
  BY <1>1, <1>2 DEF PdfInv, row, bucket, redis, worker, api, ProcessRead
<1>3. ASSUME NEW t \in Triggers, ProcessHead(t) PROVE PdfInv'
  BY <1>1, <1>3 DEF PdfInv, row, bucket, redis, worker, api, ProcessHead
<1>4. ASSUME NEW t \in Triggers, ProcessSetQueued(t) PROVE PdfInv'
  BY <1>1, <1>4 DEF PdfInv, row, bucket, redis, worker, api, ProcessSetQueued, setStatusAndError
<1>5. ASSUME NEW t \in Triggers, GetJob(t) PROVE PdfInv'
  BY <1>1, <1>5 DEF PdfInv, row, bucket, redis, worker, api, GetJob
<1>6. ASSUME NEW t \in Triggers, GetState(t) PROVE PdfInv'
  BY <1>1, <1>6 DEF PdfInv, row, bucket, redis, worker, api, GetState, Clearable
<1>7. ASSUME NEW t \in Triggers, Remove(t) PROVE PdfInv'
  BY <1>1, <1>7 DEF PdfInv, row, bucket, redis, worker, api, Remove, Locked, NoEntry
<1>8. ASSUME NEW t \in Triggers, Add(t) PROVE PdfInv'
  BY <1>1, <1>8 DEF PdfInv, row, bucket, redis, worker, api, Add, NoEntry
<1>9. ASSUME NEW t \in Triggers, LoseTrigger(t) PROVE PdfInv'
  BY <1>1, <1>9 DEF PdfInv, row, bucket, redis, worker, api, LoseTrigger, Fault
<1>10. ASSUME NEW i \in Invocations, Take(i) PROVE PdfInv'
  BY <1>1, <1>10, ConstantsAssumption DEF PdfInv, InvType, Invocation, LateType, Closure, row, bucket, redis, worker, api, Take, IdleInvocation
<1>11. ASSUME NEW i \in Invocations, Load(i) PROVE PdfInv'
  BY <1>1, <1>11, LoadMoves DEF PdfInv, Load, Moves, row, bucket, api
<1>12. ASSUME NEW i \in Invocations, StageStart(i) PROVE PdfInv'
  BY <1>1, <1>12, StageStartMoves DEF PdfInv, StageStart, StageStatus, setStatus, Moves, row, bucket, api, InvType, Invocation, STAGE
<1>13. ASSUME NEW i \in Invocations, Call(i) PROVE PdfInv'
  BY <1>1, <1>13, CallMoves DEF PdfInv, Call, AfterCall, Moves, row, bucket, api
<1>14. ASSUME NEW i \in Invocations, Put(i) PROVE PdfInv'
  <2>1. inv[i].report # NoPdf
    BY <1>1, ConstantsAssumption DEF InvType, Invocation, Contents
  <2> QED
    BY <1>1, <1>14, <2>1, PutMoves DEF PdfInv, Put, Moves, row, api
<1>15. ASSUME NEW i \in Invocations, Save(i) PROVE PdfInv'
  <2>1. UNCHANGED <<pdf, deleted, late, del>>
    BY <1>15 DEF Save, row, bucket, api, StageWrite, saveTranscript, replaceReport, setPdfReady
  <2>2. status' = "READY" => pdf # NoPdf \/ deleted
    BY <1>15 DEF PdfInv, Save, row, StageWrite, saveTranscript, replaceReport, setPdfReady
  <2> QED
    BY <1>1, <1>15, <2>1, <2>2, SaveMoves DEF PdfInv, Moves
<1>16. ASSUME NEW i \in Invocations, NEW c \in Closures, Timeout(i, c) PROVE PdfInv'
  BY <1>1, <1>16 DEF PdfInv, InvType, Invocation, LateType, Closure, row, bucket, redis, worker, api, Timeout, Throw, Settling, IdleInvocation
<1>17. ASSUME NEW i \in Invocations, MarkRead(i) PROVE PdfInv'
  BY <1>1, <1>17, MarkMoves DEF PdfInv, MarkRead, setStatusAndError, Moves, row, bucket, api
<1>18. ASSUME NEW i \in Invocations, MarkSet(i) PROVE PdfInv'
  BY <1>1, <1>18, MarkMoves DEF PdfInv, MarkSet, setStatusAndError, Moves, row, bucket, api
<1>19. ASSUME NEW i \in Invocations, Settle(i) PROVE PdfInv'
  BY <1>1, <1>19, SettleMoves DEF PdfInv, Settle, Moves, row, bucket, api
<1>20. ASSUME NEW i \in Invocations, FailRead(i) PROVE PdfInv'
  BY <1>1, <1>20 DEF PdfInv, InvType, Invocation, LateType, Closure, row, bucket, redis, worker, api, FailRead, AlreadyFailed
<1>21. ASSUME NEW i \in Invocations, FailSet(i) PROVE PdfInv'
  BY <1>1, <1>21 DEF PdfInv, InvType, Invocation, LateType, Closure, row, bucket, redis, worker, api, FailSet, setStatusAndError
<1>22. ASSUME NEW i \in Invocations, FailDlq(i) PROVE PdfInv'
  BY <1>1, <1>22 DEF PdfInv, InvType, Invocation, LateType, Closure, row, bucket, redis, worker, api, FailDlq, IdleInvocation
<1>23. ASSUME NEW i \in Invocations, Crash(i) PROVE PdfInv'
  BY <1>1, <1>23 DEF PdfInv, InvType, Invocation, LateType, Closure, row, bucket, redis, worker, api, Crash, Fault, IdleInvocation, Unlock
<1>24. ASSUME NEW i \in Invocations, LoseLock(i) PROVE PdfInv'
  BY <1>1, <1>24 DEF PdfInv, InvType, Invocation, LateType, Closure, row, bucket, redis, worker, api, LoseLock, Fault, Unlock
<1>25. ASSUME NEW i \in Invocations, LoseHandler(i) PROVE PdfInv'
  BY <1>1, <1>25 DEF PdfInv, InvType, Invocation, LateType, Closure, row, bucket, redis, worker, api, LoseHandler, Fault, IdleInvocation
<1>26. ASSUME NEW c \in Closures, LateCall(c) PROVE PdfInv'
  BY <1>1, <1>26 DEF PdfInv, InvType, Invocation, LateType, Closure, row, bucket, redis, worker, api, LateCall, CallSucceeds, CallResults, AfterCall
<1>27. ASSUME NEW c \in Closures, LatePut(c) PROVE PdfInv'
  BY <1>1, <1>27, ConstantsAssumption DEF PdfInv, Contents, InvType, Invocation, LateType, Closure, row, bucket, redis, worker, api, LatePut
<1>28. ASSUME NEW c \in Closures, LateSave(c) PROVE PdfInv'
  BY <1>1, <1>28 DEF PdfInv, InvType, Invocation, LateType, Closure, row, bucket, redis, worker, api, LateSave, StageWrite, saveTranscript, replaceReport, setPdfReady, IdleClosure
<1>29. ASSUME NEW c \in Closures, LateEnd(c) PROVE PdfInv'
  BY <1>1, <1>29 DEF PdfInv, InvType, Invocation, LateType, Closure, row, bucket, redis, worker, api, LateEnd, IdleClosure
<1>30. ASSUME NEW d \in Deletes, DeleteRead(d) PROVE PdfInv'
  BY <1>1, <1>30 DEF PdfInv, ApiType, DeleteRequest, row, bucket, redis, worker, api, DeleteRead
<1>31. ASSUME NEW d \in Deletes, DeleteSoft(d) PROVE PdfInv'
  BY <1>1, <1>31 DEF PdfInv, ApiType, DeleteRequest, row, bucket, redis, worker, api, DeleteSoft, softDelete, DoneDelete
<1>32. ASSUME NEW d \in Deletes, DeleteObjects(d) PROVE PdfInv'
  BY <1>1, <1>32 DEF PdfInv, ApiType, DeleteRequest, row, bucket, redis, worker, api, DeleteObjects, DoneDelete
<1>33. ASSUME NEW r \in Edits, Update(r) PROVE PdfInv'
  BY <1>1, <1>33 DEF PdfInv, row, bucket, redis, worker, api, Update, replaceReport
<1>34. CASE Promote
  BY <1>1, <1>34 DEF PdfInv, row, bucket, redis, worker, api, Promote
<1>35. CASE Stall
  BY <1>1, <1>35 DEF PdfInv, row, bucket, redis, worker, api, Stall
<1>36. CASE Evict
  BY <1>1, <1>36 DEF PdfInv, row, bucket, redis, worker, api, Evict, NoEntry
<1>37. CASE Upload
  BY <1>1, <1>37 DEF PdfInv, row, bucket, redis, worker, api, Upload
<1>38. CASE UNCHANGED vars
  BY <1>38 DEF PdfInv, vars, row, bucket, redis, worker, api
<1> QED
  BY <1>2, <1>3, <1>4, <1>5, <1>6, <1>7, <1>8, <1>9, <1>10, <1>11, <1>12, <1>13, <1>14, <1>15, <1>16, <1>17, <1>18, <1>19, <1>20, <1>21, <1>22, <1>23, <1>24, <1>25, <1>26, <1>27, <1>28, <1>29, <1>30, <1>31, <1>32, <1>33, <1>34, <1>35, <1>36, <1>37, <1>38
  DEF Next, TriggerStep, InvocationStep, ClosureStep, DeleteStep

\* No step compiles, renders or finishes a job that has no transcript.
LEMMA TranscriptStep == TypeOK /\ TranscriptInv /\ [Next]_vars => TranscriptInv'
<1> SUFFICES ASSUME TypeOK, TranscriptInv, [Next]_vars PROVE TranscriptInv'
  OBVIOUS
<1>1. RowType /\ BucketType /\ QueueType /\ InvType /\ LateType /\ ApiType
  BY DEF TypeOK
<1>2. ASSUME NEW t \in Triggers, ProcessRead(t) PROVE TranscriptInv'
  BY <1>1, <1>2 DEF TranscriptInv, row, worker, ProcessRead
<1>3. ASSUME NEW t \in Triggers, ProcessHead(t) PROVE TranscriptInv'
  BY <1>1, <1>3 DEF TranscriptInv, row, worker, ProcessHead
<1>4. ASSUME NEW t \in Triggers, ProcessSetQueued(t) PROVE TranscriptInv'
  BY <1>1, <1>4 DEF TranscriptInv, row, worker, ProcessSetQueued, setStatusAndError
<1>5. ASSUME NEW t \in Triggers, GetJob(t) PROVE TranscriptInv'
  BY <1>1, <1>5 DEF TranscriptInv, row, worker, GetJob
<1>6. ASSUME NEW t \in Triggers, GetState(t) PROVE TranscriptInv'
  BY <1>1, <1>6 DEF TranscriptInv, row, worker, GetState, Clearable
<1>7. ASSUME NEW t \in Triggers, Remove(t) PROVE TranscriptInv'
  BY <1>1, <1>7 DEF TranscriptInv, row, worker, Remove, Locked, NoEntry
<1>8. ASSUME NEW t \in Triggers, Add(t) PROVE TranscriptInv'
  BY <1>1, <1>8 DEF TranscriptInv, row, worker, Add, NoEntry
<1>9. ASSUME NEW t \in Triggers, LoseTrigger(t) PROVE TranscriptInv'
  BY <1>1, <1>9 DEF TranscriptInv, row, worker, LoseTrigger, Fault
<1>10. ASSUME NEW i \in Invocations, Take(i) PROVE TranscriptInv'
  BY <1>1, <1>10 DEF TranscriptInv, InvType, Invocation, LateType, Closure, row, worker, Take, IdleInvocation
<1>11. ASSUME NEW i \in Invocations, Load(i) PROVE TranscriptInv'
  <2>1. FirstStage(transcript, report) # "transcribe" => transcript
    BY DEF FirstStage
  <2> QED
    BY <1>1, <1>11, <2>1, LoadMoves DEF TranscriptInv, Load, Moves, row
<1>12. ASSUME NEW i \in Invocations, StageStart(i) PROVE TranscriptInv'
  BY <1>1, <1>12, StageStartMoves DEF TranscriptInv, StageStart, StageStatus, setStatus, Moves, row, InvType, Invocation, STAGE
<1>13. ASSUME NEW i \in Invocations, Call(i) PROVE TranscriptInv'
  BY <1>1, <1>13, CallMoves DEF TranscriptInv, Call, AfterCall, Moves, row
<1>14. ASSUME NEW i \in Invocations, Put(i) PROVE TranscriptInv'
  BY <1>1, <1>14, PutMoves DEF TranscriptInv, Put, Moves, row
<1>15. ASSUME NEW i \in Invocations, Save(i) PROVE TranscriptInv'
  <2>1. UNCHANGED late /\ (transcript => transcript')
    BY <1>15 DEF Save, row, StageWrite, saveTranscript, replaceReport, setPdfReady
  <2>2. status' = "READY" => transcript'
    BY <1>15 DEF TranscriptInv, Save, row, StageWrite, saveTranscript, replaceReport, setPdfReady
  <2>3. StageWrite(inv[i]) => transcript'
    BY <1>15 DEF TranscriptInv, Save, StageWrite, saveTranscript, replaceReport, setPdfReady
  <2> QED
    BY <1>1, <1>15, <2>1, <2>2, <2>3, SaveMoves DEF TranscriptInv, Moves
<1>16. ASSUME NEW i \in Invocations, NEW c \in Closures, Timeout(i, c) PROVE TranscriptInv'
  BY <1>1, <1>16 DEF TranscriptInv, InvType, Invocation, LateType, Closure, row, worker, Timeout, Throw, Settling, IdleInvocation
<1>17. ASSUME NEW i \in Invocations, MarkRead(i) PROVE TranscriptInv'
  BY <1>1, <1>17, MarkMoves DEF TranscriptInv, MarkRead, setStatusAndError, Moves, row
<1>18. ASSUME NEW i \in Invocations, MarkSet(i) PROVE TranscriptInv'
  BY <1>1, <1>18, MarkMoves DEF TranscriptInv, MarkSet, setStatusAndError, Moves, row
<1>19. ASSUME NEW i \in Invocations, Settle(i) PROVE TranscriptInv'
  BY <1>1, <1>19, SettleMoves DEF TranscriptInv, Settle, Moves, row
<1>20. ASSUME NEW i \in Invocations, FailRead(i) PROVE TranscriptInv'
  BY <1>1, <1>20 DEF TranscriptInv, InvType, Invocation, LateType, Closure, row, worker, FailRead, AlreadyFailed
<1>21. ASSUME NEW i \in Invocations, FailSet(i) PROVE TranscriptInv'
  BY <1>1, <1>21 DEF TranscriptInv, InvType, Invocation, LateType, Closure, row, worker, FailSet, setStatusAndError
<1>22. ASSUME NEW i \in Invocations, FailDlq(i) PROVE TranscriptInv'
  BY <1>1, <1>22 DEF TranscriptInv, InvType, Invocation, LateType, Closure, row, worker, FailDlq, IdleInvocation
<1>23. ASSUME NEW i \in Invocations, Crash(i) PROVE TranscriptInv'
  BY <1>1, <1>23 DEF TranscriptInv, InvType, Invocation, LateType, Closure, row, worker, Crash, Fault, IdleInvocation, Unlock
<1>24. ASSUME NEW i \in Invocations, LoseLock(i) PROVE TranscriptInv'
  BY <1>1, <1>24 DEF TranscriptInv, InvType, Invocation, LateType, Closure, row, worker, LoseLock, Fault, Unlock
<1>25. ASSUME NEW i \in Invocations, LoseHandler(i) PROVE TranscriptInv'
  BY <1>1, <1>25 DEF TranscriptInv, InvType, Invocation, LateType, Closure, row, worker, LoseHandler, Fault, IdleInvocation
<1>26. ASSUME NEW c \in Closures, LateCall(c) PROVE TranscriptInv'
  BY <1>1, <1>26 DEF TranscriptInv, InvType, Invocation, LateType, Closure, row, worker, LateCall, CallSucceeds, CallResults, AfterCall
<1>27. ASSUME NEW c \in Closures, LatePut(c) PROVE TranscriptInv'
  BY <1>1, <1>27 DEF TranscriptInv, InvType, Invocation, LateType, Closure, row, worker, LatePut
<1>28. ASSUME NEW c \in Closures, LateSave(c) PROVE TranscriptInv'
  BY <1>1, <1>28 DEF TranscriptInv, InvType, Invocation, LateType, Closure, row, worker, LateSave, StageWrite, saveTranscript, replaceReport, setPdfReady, IdleClosure
<1>29. ASSUME NEW c \in Closures, LateEnd(c) PROVE TranscriptInv'
  BY <1>1, <1>29 DEF TranscriptInv, InvType, Invocation, LateType, Closure, row, worker, LateEnd, IdleClosure
<1>30. ASSUME NEW d \in Deletes, DeleteRead(d) PROVE TranscriptInv'
  BY <1>1, <1>30 DEF TranscriptInv, row, worker, DeleteRead
<1>31. ASSUME NEW d \in Deletes, DeleteSoft(d) PROVE TranscriptInv'
  BY <1>1, <1>31 DEF TranscriptInv, row, worker, DeleteSoft, softDelete, DoneDelete
<1>32. ASSUME NEW d \in Deletes, DeleteObjects(d) PROVE TranscriptInv'
  BY <1>1, <1>32 DEF TranscriptInv, row, worker, DeleteObjects, DoneDelete
<1>33. ASSUME NEW r \in Edits, Update(r) PROVE TranscriptInv'
  BY <1>1, <1>33 DEF TranscriptInv, row, worker, Update, replaceReport
<1>34. CASE Promote
  BY <1>1, <1>34 DEF TranscriptInv, row, worker, Promote
<1>35. CASE Stall
  BY <1>1, <1>35 DEF TranscriptInv, row, worker, Stall
<1>36. CASE Evict
  BY <1>1, <1>36 DEF TranscriptInv, row, worker, Evict, NoEntry
<1>37. CASE Upload
  BY <1>1, <1>37 DEF TranscriptInv, row, worker, Upload
<1>38. CASE UNCHANGED vars
  BY <1>38 DEF TranscriptInv, vars, row, bucket, redis, worker, api
<1> QED
  BY <1>2, <1>3, <1>4, <1>5, <1>6, <1>7, <1>8, <1>9, <1>10, <1>11, <1>12, <1>13, <1>14, <1>15, <1>16, <1>17, <1>18, <1>19, <1>20, <1>21, <1>22, <1>23, <1>24, <1>25, <1>26, <1>27, <1>28, <1>29, <1>30, <1>31, <1>32, <1>33, <1>34, <1>35, <1>36, <1>37, <1>38
  DEF Next, TriggerStep, InvocationStep, ClosureStep, DeleteStep

\* No step lets an invocation run without the entry's lock, unless locks get lost.
LEMMA LockStep == TypeOK /\ QueueInv /\ LockInv /\ [Next]_vars => LockInv'
<1> SUFFICES ASSUME TypeOK, QueueInv, LockInv, [Next]_vars PROVE LockInv'
  OBVIOUS
<1>1. RowType /\ BucketType /\ QueueType /\ InvType /\ LateType /\ ApiType
  BY DEF TypeOK
<1>2. ASSUME NEW t \in Triggers, ProcessRead(t) PROVE LockInv'
  BY <1>1, <1>2 DEF LockInv, Running, InvocationPC, redis, worker, ProcessRead
<1>3. ASSUME NEW t \in Triggers, ProcessHead(t) PROVE LockInv'
  BY <1>1, <1>3 DEF LockInv, Running, InvocationPC, redis, worker, ProcessHead
<1>4. ASSUME NEW t \in Triggers, ProcessSetQueued(t) PROVE LockInv'
  BY <1>1, <1>4 DEF LockInv, Running, InvocationPC, redis, worker, ProcessSetQueued, setStatusAndError
<1>5. ASSUME NEW t \in Triggers, GetJob(t) PROVE LockInv'
  BY <1>1, <1>5 DEF LockInv, Running, InvocationPC, redis, worker, GetJob
<1>6. ASSUME NEW t \in Triggers, GetState(t) PROVE LockInv'
  BY <1>1, <1>6 DEF LockInv, Running, InvocationPC, redis, worker, GetState, Clearable
<1>7. ASSUME NEW t \in Triggers, Remove(t) PROVE LockInv'
  BY <1>1, <1>7, ConstantsAssumption DEF LockInv, QueueInv, QueueType, QueueEntry, Running, InvocationPC, redis, worker, Remove, Locked, NoEntry
<1>8. ASSUME NEW t \in Triggers, Add(t) PROVE LockInv'
  BY <1>1, <1>8, ConstantsAssumption DEF LockInv, QueueInv, QueueType, QueueEntry, Running, InvocationPC, redis, worker, Add, NoEntry
<1>9. ASSUME NEW t \in Triggers, LoseTrigger(t) PROVE LockInv'
  BY <1>1, <1>9 DEF LockInv, Running, InvocationPC, redis, worker, LoseTrigger, Fault
<1>10. ASSUME NEW i \in Invocations, Take(i) PROVE LockInv'
  BY <1>1, <1>10, ConstantsAssumption DEF LockInv, QueueInv, QueueType, QueueEntry, InvType, Invocation, Running, InvocationPC, redis, worker, Take, IdleInvocation
<1>11. ASSUME NEW i \in Invocations, Load(i) PROVE LockInv'
  BY <1>1, <1>11, LoadMoves DEF LockInv, Running, InvocationPC, Load, Moves, redis
<1>12. ASSUME NEW i \in Invocations, StageStart(i) PROVE LockInv'
  BY <1>1, <1>12, StageStartMoves DEF LockInv, Running, InvocationPC, StageStart, Moves, redis
<1>13. ASSUME NEW i \in Invocations, Call(i) PROVE LockInv'
  BY <1>1, <1>13, CallMoves DEF LockInv, Running, InvocationPC, Call, Moves, redis
<1>14. ASSUME NEW i \in Invocations, Put(i) PROVE LockInv'
  BY <1>1, <1>14, PutMoves DEF LockInv, Running, InvocationPC, Put, Moves, redis
<1>15. ASSUME NEW i \in Invocations, Save(i) PROVE LockInv'
  BY <1>1, <1>15, SaveMoves DEF LockInv, Running, InvocationPC, Save, Moves, redis
<1>16. ASSUME NEW i \in Invocations, NEW c \in Closures, Timeout(i, c) PROVE LockInv'
  BY <1>1, <1>16 DEF LockInv, InvType, Invocation, Running, InvocationPC, redis, worker, Timeout, Throw, Settling, IdleInvocation
<1>17. ASSUME NEW i \in Invocations, MarkRead(i) PROVE LockInv'
  BY <1>1, <1>17, MarkMoves DEF LockInv, Running, InvocationPC, MarkRead, Moves, redis
<1>18. ASSUME NEW i \in Invocations, MarkSet(i) PROVE LockInv'
  BY <1>1, <1>18, MarkMoves DEF LockInv, Running, InvocationPC, MarkSet, Moves, redis
<1>19. ASSUME NEW i \in Invocations, Settle(i) PROVE LockInv'
  BY <1>1, <1>19, SettleMoves DEF LockInv, Running, InvocationPC, Settle, Moves
<1>20. ASSUME NEW i \in Invocations, FailRead(i) PROVE LockInv'
  BY <1>1, <1>20 DEF LockInv, InvType, Invocation, Running, InvocationPC, redis, worker, FailRead, AlreadyFailed
<1>21. ASSUME NEW i \in Invocations, FailSet(i) PROVE LockInv'
  BY <1>1, <1>21 DEF LockInv, InvType, Invocation, Running, InvocationPC, redis, worker, FailSet, setStatusAndError
<1>22. ASSUME NEW i \in Invocations, FailDlq(i) PROVE LockInv'
  BY <1>1, <1>22 DEF LockInv, InvType, Invocation, Running, InvocationPC, redis, worker, FailDlq, IdleInvocation
<1>23. ASSUME NEW i \in Invocations, Crash(i) PROVE LockInv'
  BY <1>1, <1>23, ConstantsAssumption DEF LockInv, QueueInv, QueueType, QueueEntry, InvType, Invocation, Running, InvocationPC, redis, worker, Crash, Fault, IdleInvocation, Unlock
<1>24. ASSUME NEW i \in Invocations, LoseLock(i) PROVE LockInv'
  BY <1>1, <1>24, ConstantsAssumption DEF LockInv, QueueInv, QueueType, QueueEntry, InvType, Invocation, Running, InvocationPC, redis, worker, LoseLock, Fault, Unlock
<1>25. ASSUME NEW i \in Invocations, LoseHandler(i) PROVE LockInv'
  BY <1>1, <1>25 DEF LockInv, InvType, Invocation, Running, InvocationPC, redis, worker, LoseHandler, Fault, IdleInvocation
<1>26. ASSUME NEW c \in Closures, LateCall(c) PROVE LockInv'
  BY <1>1, <1>26 DEF LockInv, Running, InvocationPC, redis, worker, LateCall, CallSucceeds, CallResults, AfterCall
<1>27. ASSUME NEW c \in Closures, LatePut(c) PROVE LockInv'
  BY <1>1, <1>27 DEF LockInv, Running, InvocationPC, redis, worker, LatePut
<1>28. ASSUME NEW c \in Closures, LateSave(c) PROVE LockInv'
  BY <1>1, <1>28 DEF LockInv, Running, InvocationPC, redis, worker, LateSave, StageWrite, saveTranscript, replaceReport, setPdfReady, IdleClosure
<1>29. ASSUME NEW c \in Closures, LateEnd(c) PROVE LockInv'
  BY <1>1, <1>29 DEF LockInv, Running, InvocationPC, redis, worker, LateEnd, IdleClosure
<1>30. ASSUME NEW d \in Deletes, DeleteRead(d) PROVE LockInv'
  BY <1>1, <1>30 DEF LockInv, Running, InvocationPC, redis, worker, DeleteRead
<1>31. ASSUME NEW d \in Deletes, DeleteSoft(d) PROVE LockInv'
  BY <1>1, <1>31 DEF LockInv, Running, InvocationPC, redis, worker, DeleteSoft, softDelete, DoneDelete
<1>32. ASSUME NEW d \in Deletes, DeleteObjects(d) PROVE LockInv'
  BY <1>1, <1>32 DEF LockInv, Running, InvocationPC, redis, worker, DeleteObjects, DoneDelete
<1>33. ASSUME NEW r \in Edits, Update(r) PROVE LockInv'
  BY <1>1, <1>33 DEF LockInv, Running, InvocationPC, redis, worker, Update, replaceReport
<1>34. CASE Promote
  BY <1>1, <1>34, ConstantsAssumption DEF LockInv, QueueInv, QueueType, QueueEntry, Running, InvocationPC, redis, worker, Promote
<1>35. CASE Stall
  BY <1>1, <1>35, ConstantsAssumption DEF LockInv, QueueInv, QueueType, QueueEntry, Running, InvocationPC, redis, worker, Stall
<1>36. CASE Evict
  BY <1>1, <1>36, ConstantsAssumption DEF LockInv, QueueInv, QueueType, QueueEntry, Running, InvocationPC, redis, worker, Evict, NoEntry
<1>37. CASE Upload
  BY <1>1, <1>37 DEF LockInv, Running, InvocationPC, redis, worker, Upload
<1>38. CASE UNCHANGED vars
  BY <1>38 DEF LockInv, Running, vars, row, bucket, redis, worker, api
<1> QED
  BY <1>2, <1>3, <1>4, <1>5, <1>6, <1>7, <1>8, <1>9, <1>10, <1>11, <1>12, <1>13, <1>14, <1>15, <1>16, <1>17, <1>18, <1>19, <1>20, <1>21, <1>22, <1>23, <1>24, <1>25, <1>26, <1>27, <1>28, <1>29, <1>30, <1>31, <1>32, <1>33, <1>34, <1>35, <1>36, <1>37, <1>38
  DEF Next, TriggerStep, InvocationStep, ClosureStep, DeleteStep

-----------------------------------------------------------------------------
(* The refinement.                                                          *)

\* A step that the abstract life cycle allows.
AbstractStep == [Lifecycle!Next]_(Lifecycle!vars)

\* Without a change of row and bucket nothing changes for the user.
LEMMA UnchangedMaps ==
  ASSUME UNCHANGED <<row, pdf>>
  PROVE  AbstractStep
  BY DEF AbstractStep, Lifecycle!vars, row, PdfServed

\* A new status other than READY takes the PDF back or changes nothing.
LEMMA StatusMaps ==
  ASSUME NEW s \in JobStatus \ {"READY"}, UNCHANGED pdf,
         setStatus(s) \/ setStatusAndError(s, TRUE) \/ setStatusAndError(s, FALSE)
  PROVE  AbstractStep
<1>1. PdfServed' = FALSE /\ UNCHANGED <<transcript, pdf, deleted>>
  BY DEF setStatus, setStatusAndError, PdfServed
<1> QED
  BY <1>1 DEF AbstractStep, Lifecycle!Next, Lifecycle!Retract

\* The write that ends a stage transcribes, offers or changes nothing.
LEMMA WriteMaps ==
  ASSUME RowType, NEW x, StageWrite(x), UNCHANGED pdf,
         x.stage = "render" => pdf # NoPdf \/ deleted
  PROVE  AbstractStep
<1>1. CASE saveTranscript
  BY <1>1 DEF saveTranscript, PdfServed, AbstractStep, Lifecycle!Next, Lifecycle!Transcribe
<1>2. CASE replaceReport(x.report)
  BY <1>2 DEF replaceReport, PdfServed, AbstractStep, Lifecycle!vars
<1>3. CASE x.stage = "render" /\ setPdfReady /\ deleted
  BY <1>3 DEF setPdfReady, PdfServed, AbstractStep, Lifecycle!vars
<1>4. CASE x.stage = "render" /\ setPdfReady /\ ~deleted
  <2>1. PdfServed' = TRUE /\ UNCHANGED <<transcript, pdf, deleted>>
    BY <1>4 DEF setPdfReady, PdfServed
  <2> QED
    BY <1>4, <2>1 DEF AbstractStep, Lifecycle!Next, Lifecycle!Offer
<1> QED
  BY <1>1, <1>2, <1>3, <1>4 DEF StageWrite

\* An upload of the PDF of a transcribed job renders it.
LEMMA PutMaps ==
  ASSUME UNCHANGED row, NEW r \in Contents, pdf' = r, transcript
  PROVE  AbstractStep
<1>1. (pdf # NoPdf)' = TRUE
  BY ConstantsAssumption DEF Contents
<1> QED
  BY <1>1 DEF row, PdfServed, AbstractStep, Lifecycle!Next, Lifecycle!Render

\* Every step of the system is a step of the abstract life cycle.
LEMMA LifecycleStep ==
  TypeOK /\ PdfInv /\ TranscriptInv /\ [Next]_vars => AbstractStep
<1> SUFFICES ASSUME TypeOK, PdfInv, TranscriptInv, [Next]_vars PROVE AbstractStep
  OBVIOUS
<1>1. RowType /\ BucketType /\ InvType /\ LateType /\ ApiType
  BY DEF TypeOK
<1>2. ASSUME NEW t \in Triggers, ProcessRead(t) \/ TriggerStep(t) \/ LoseTrigger(t)
      PROVE  AbstractStep
  <2>1. CASE ProcessSetQueued(t)
    BY <2>1, StatusMaps DEF ProcessSetQueued, JobStatus, IN_FLIGHT, bucket
  <2>2. CASE UNCHANGED <<row, bucket>>
    BY <2>2, UnchangedMaps DEF bucket
  <2> QED
    BY <1>2, <2>1, <2>2 DEF ProcessRead, TriggerStep, LoseTrigger, ProcessHead, GetJob, GetState, Remove, Add
<1>3. ASSUME NEW i \in Invocations, StageStart(i)
      PROVE  AbstractStep
  <2>1. StageStatus(inv[i].stage) \in JobStatus \ {"READY"}
    BY <1>1 DEF InvType, Invocation, STAGE, StageStatus, JobStatus, IN_FLIGHT
  <2>2. CASE UNCHANGED row
    BY <1>3, <2>2, UnchangedMaps DEF StageStart, bucket
  <2>3. CASE setStatus(StageStatus(inv[i].stage))
    BY <1>3, <2>1, <2>3, StatusMaps DEF StageStart, bucket
  <2> QED
    BY <1>3, <2>2, <2>3 DEF StageStart
<1>4. ASSUME NEW i \in Invocations, Put(i)
      PROVE  AbstractStep
  <2>1. CASE UNCHANGED pdf
    BY <1>4, <2>1, UnchangedMaps DEF Put
  <2>2. CASE pdf' = inv[i].report
    <3>1. inv[i].report \in Contents
      BY <1>1 DEF InvType, Invocation
    <3>2. transcript
      BY <1>4 DEF Put, TranscriptInv
    <3> QED
      BY <1>4, <2>2, <3>1, <3>2, PutMaps DEF Put
  <2> QED
    BY <1>4, <2>1, <2>2 DEF Put
<1>5. ASSUME NEW i \in Invocations, Save(i)
      PROVE  AbstractStep
  <2>1. CASE UNCHANGED row
    BY <1>5, <2>1, UnchangedMaps DEF Save, bucket
  <2>2. CASE StageWrite(inv[i])
    <3>1. inv[i].stage = "render" => pdf # NoPdf \/ deleted
      BY <1>5 DEF Save, PdfInv
    <3> QED
      BY <1>1, <1>5, <2>2, <3>1, WriteMaps DEF Save, bucket
  <2> QED
    BY <1>5, <2>1, <2>2 DEF Save
<1>6. ASSUME NEW i \in Invocations, MarkSet(i) \/ FailSet(i)
      PROVE  AbstractStep
  <2>1. CASE UNCHANGED row
    BY <1>6, <2>1, UnchangedMaps DEF MarkSet, FailSet, bucket
  <2>2. CASE setStatusAndError("FAILED", TRUE)
    BY <1>6, <2>2, StatusMaps DEF MarkSet, FailSet, bucket, JobStatus
  <2> QED
    BY <1>6, <2>1, <2>2 DEF MarkSet, FailSet
<1>7. ASSUME NEW i \in Invocations,
             \/ Take(i) \/ Load(i) \/ Call(i) \/ \E c \in Closures : Timeout(i, c)
             \/ MarkRead(i) \/ Settle(i) \/ FailRead(i) \/ FailDlq(i)
             \/ Crash(i) \/ LoseLock(i) \/ LoseHandler(i)
      PROVE  AbstractStep
  <2>1. UNCHANGED <<row, bucket>>
    BY <1>7 DEF Take, Load, Call, Timeout, MarkRead, Settle, FailRead, FailDlq, Crash, LoseLock, LoseHandler
  <2> QED
    BY <2>1, UnchangedMaps DEF bucket
<1>8. ASSUME NEW c \in Closures, ClosureStep(c)
      PROVE  AbstractStep
  <2>1. CASE LateCall(c) \/ LateEnd(c)
    BY <2>1, UnchangedMaps DEF LateCall, LateEnd, bucket
  <2>2. CASE LatePut(c)
    <3>1. late[c].report \in Contents
      BY <1>1 DEF LateType, Closure
    <3>2. transcript
      BY <2>2 DEF LatePut, TranscriptInv
    <3> QED
      BY <2>2, <3>1, <3>2, PutMaps DEF LatePut
  <2>3. CASE LateSave(c)
    <3>1. late[c].stage = "render" => pdf # NoPdf \/ deleted
      BY <2>3 DEF LateSave, PdfInv
    <3> QED
      BY <1>1, <2>3, <3>1, WriteMaps DEF LateSave, bucket
  <2> QED
    BY <1>8, <2>1, <2>2, <2>3 DEF ClosureStep
<1>9. ASSUME NEW d \in Deletes, DeleteStep(d)
      PROVE  AbstractStep
  <2>1. CASE UNCHANGED <<row, bucket>>
    BY <2>1, UnchangedMaps DEF bucket
  <2>2. CASE softDelete /\ UNCHANGED bucket
    <3>1. deleted' = TRUE /\ PdfServed' = FALSE /\ UNCHANGED <<transcript, pdf>>
      BY <2>2 DEF softDelete, PdfServed, bucket
    <3> QED
      BY <3>1 DEF AbstractStep, Lifecycle!Next, Lifecycle!Withdraw
  <2>3. CASE DeleteObjects(d) /\ pdf' = NoPdf
    <3>1. deleted /\ UNCHANGED row
      BY <2>3 DEF DeleteObjects, PdfInv
    <3>2. (pdf # NoPdf)' = FALSE
      BY <2>3
    <3> QED
      BY <3>1, <3>2 DEF row, PdfServed, AbstractStep, Lifecycle!Next, Lifecycle!Erase
  <2>4. CASE DeleteObjects(d) /\ pdf' = pdf
    BY <2>4, UnchangedMaps DEF DeleteObjects
  <2> QED
    BY <1>9, <2>1, <2>2, <2>3, <2>4 DEF DeleteStep, DeleteRead, DeleteSoft, DeleteObjects, bucket
<1>10. ASSUME NEW r \in Edits, Update(r)
      PROVE  AbstractStep
  BY <1>10 DEF Update, bucket, replaceReport, PdfServed, AbstractStep, Lifecycle!vars
<1>11. CASE Promote \/ Stall \/ Evict \/ Upload
  BY <1>11, UnchangedMaps DEF Promote, Stall, Evict, Upload, bucket
<1>12. CASE UNCHANGED vars
  BY <1>12, UnchangedMaps DEF vars, bucket
<1> QED
  BY <1>2, <1>3, <1>4, <1>5, <1>6, <1>7, <1>8, <1>9, <1>10, <1>11, <1>12 DEF Next, InvocationStep

-----------------------------------------------------------------------------
(* The theorems.                                                            *)

\* For any number of invocations, surviving stage bodies, requests, deletions
\* and faults: whenever GET /jobs/:id/pdf hands out a URL, the PDF it names is
\* in the bucket.
THEOREM ServedPdfExists == Spec => []PdfServedExists
<1>1. Init => PdfInv
  BY DEF Init, PdfInv, IdleInvocation, IdleClosure, NewDelete
<1>2. PdfInv => PdfServedExists
  BY DEF PdfInv, PdfServedExists, PdfServed
<1> QED
  BY <1>1, <1>2, TypeInit, TypeStep, PdfStep, PTL DEF Spec

\* Under the same generality, a READY job has a transcript.
THEOREM ReadyIsTranscribed == Spec => []ReadyHasTranscript
<1>1. Init => TranscriptInv
  BY DEF Init, TranscriptInv, IdleInvocation, IdleClosure
<1>2. TranscriptInv => ReadyHasTranscript
  BY DEF TranscriptInv, ReadyHasTranscript
<1> QED
  BY <1>1, <1>2, TypeInit, TypeStep, TranscriptStep, PTL DEF Spec

\* Under the same generality, except that workers keep their locks: process()
\* never runs twice at the same time for one job.
THEOREM InvocationsExclude == Spec => []OneInvocation
<1>1. Init => LockInv
  BY DEF Init, LockInv, Running, IdleInvocation
<1>2. LockInv => OneInvocation
  BY DEF LockInv, OneInvocation
<1> QED
  BY <1>1, <1>2, TypeInit, TypeStep, LockStep, PTL DEF Spec

\* Under the same generality, the system implements the abstract life cycle of a
\* report: transcribed, then rendered, then offered, and never offered again once
\* its job is deleted.
THEOREM LifecycleImplemented == Spec => ImplementsLifecycle
<1>1. Init => Lifecycle!Init
  BY DEF Init, Lifecycle!Init, PdfServed
<1>2. Init => PdfInv /\ TranscriptInv
  BY DEF Init, PdfInv, TranscriptInv, IdleInvocation, IdleClosure, NewDelete
<1>3. TypeOK /\ PdfInv /\ TranscriptInv /\ [Next]_vars => [Lifecycle!Next]_(Lifecycle!vars)
  BY LifecycleStep DEF AbstractStep
<1> QED
  BY <1>1, <1>2, <1>3, TypeInit, TypeStep, PdfStep, TranscriptStep, PTL
  DEF Spec, ImplementsLifecycle, Lifecycle!Spec

=============================================================================
