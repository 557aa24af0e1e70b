-------------------------- MODULE JobFidelityProofs --------------------------
(***************************************************************************)
(* Proofs of what JobSystem promises under conditions: the PDF shows the   *)
(* stored report, a READY job stays out of the stages, a report that is    *)
(* found was compiled, and no job is left in flight with nobody at work.   *)
(***************************************************************************)
EXTENDS JobSystemProofs

-----------------------------------------------------------------------------
(* Steps that no stage body takes.                                          *)

\* An invocation's record after a step that leaves it out of a stage: if it is
\* ever to transcribe, it holds the report that it held before, or none.
Kept(i) ==
  /\ inv'[i].pc \notin {"stage", "call", "put", "save"}
  /\ \/ inv'[i].report = Empty
     \/ inv'[i].report = inv[i].report /\ inv'[i].stage = inv[i].stage

\* Only invocation i moves, and not into a stage.
Leaves(i) == Kept(i) /\ \A j \in Invocations : j # i => inv'[j] = inv[j]

\* A step outside the stages: it queues the job or marks it failed at most, and a
\* PDF only goes with its job.
Aside ==
  /\ UNCHANGED <<transcript, report>>
  /\ status' \in {status, "QUEUED", "FAILED"}
  /\ deleted => deleted'
  /\ pdf' = pdf \/ deleted
  /\ \A i \in Invocations : inv'[i] = inv[i] \/ Kept(i)
  /\ "timeout" \in Faults \/ late' = late

\* The steps of runStage.
StageBody(i) == Load(i) \/ StageStart(i) \/ Call(i) \/ Put(i) \/ Save(i)

\* An invocation that settles has left its stage with nothing in hand.
LEMMA SettlingKept ==
  ASSUME InvType, NEW i \in Invocations, NEW o, inv' = Settling(i, o)
  PROVE  Leaves(i)
  BY DEF InvType, Settling, IdleInvocation, Leaves, Kept

\* A step of the system is one of a stage, one of a stage body that outlived its
\* timeout, an edit, or one aside.
LEMMA StepKinds ==
  ASSUME TypeOK, PdfInv, [Next]_vars
  PROVE  \/ \E i \in Invocations : StageBody(i)
         \/ \E c \in Closures : ClosureStep(c)
         \/ \E r \in Edits : Update(r)
         \/ Aside
<1>1. InvType
  BY DEF TypeOK
<1>2. ASSUME NEW t \in Triggers, ProcessRead(t) PROVE Aside
  BY <1>2 DEF Aside, Kept, ProcessRead, row, bucket, worker
<1>3. ASSUME NEW t \in Triggers, ProcessHead(t) PROVE Aside
  BY <1>3 DEF Aside, Kept, ProcessHead, row, bucket, worker
<1>4. ASSUME NEW t \in Triggers, ProcessSetQueued(t) PROVE Aside
  BY <1>4 DEF Aside, Kept, ProcessSetQueued, row, bucket, worker, setStatusAndError
<1>5. ASSUME NEW t \in Triggers, GetJob(t) PROVE Aside
  BY <1>5 DEF Aside, Kept, GetJob, row, bucket, worker
<1>6. ASSUME NEW t \in Triggers, GetState(t) PROVE Aside
  BY <1>6 DEF Aside, Kept, GetState, row, bucket, worker
<1>7. ASSUME NEW t \in Triggers, Remove(t) PROVE Aside
  BY <1>7 DEF Aside, Kept, Remove, row, bucket, worker
<1>8. ASSUME NEW t \in Triggers, Add(t) PROVE Aside
  BY <1>8 DEF Aside, Kept, Add, row, bucket, worker
<1>9. ASSUME NEW t \in Triggers, LoseTrigger(t) PROVE Aside
  BY <1>9 DEF Aside, Kept, LoseTrigger, row, bucket, worker
<1>10. ASSUME NEW i \in Invocations, Take(i) PROVE Aside
  <2>1. Leaves(i)
    BY <1>1, <1>10 DEF Take, Leaves, Kept, InvType, IdleInvocation
  <2> QED
    BY <1>10, <2>1 DEF Aside, Leaves, Take, row, bucket
<1>11. ASSUME NEW i \in Invocations, NEW c \in Closures, Timeout(i, c) PROVE Aside
  <2>1. Leaves(i)
    BY <1>1, <1>11, SettlingKept DEF Timeout, Leaves, Kept, Throw
  <2> QED
    BY <1>11, <2>1 DEF Aside, Leaves, Timeout, row, bucket
<1>12. ASSUME NEW i \in Invocations, MarkRead(i) PROVE Aside
  <2>1. Leaves(i)
    BY <1>1, <1>12, SettlingKept DEF MarkRead, Leaves, Kept, Throw, InvType, Invocation
  <2> QED
    BY <1>12, <2>1 DEF Aside, Leaves, MarkRead, row, bucket
<1>13. ASSUME NEW i \in Invocations, MarkSet(i) PROVE Aside
  <2>1. Leaves(i)
    BY <1>1, <1>13, SettlingKept DEF MarkSet, Leaves, Kept, Throw
  <2> QED
    BY <1>13, <2>1 DEF Aside, Leaves, MarkSet, row, bucket, setStatusAndError
<1>14. ASSUME NEW i \in Invocations, Settle(i) PROVE Aside
  <2>1. Leaves(i)
    BY <1>1, <1>14 DEF Settle, Leaves, Kept, InvType, IdleInvocation
  <2> QED
    BY <1>14, <2>1 DEF Aside, Leaves, Settle, row, bucket
<1>15. ASSUME NEW i \in Invocations, FailRead(i) PROVE Aside
  <2>1. Leaves(i)
    BY <1>1, <1>15 DEF FailRead, Leaves, Kept, InvType, Invocation
  <2> QED
    BY <1>15, <2>1 DEF Aside, Leaves, FailRead, row, bucket
<1>16. ASSUME NEW i \in Invocations, FailSet(i) PROVE Aside
  <2>1. Leaves(i)
    BY <1>1, <1>16 DEF FailSet, Leaves, Kept, InvType, Invocation
  <2> QED
    BY <1>16, <2>1 DEF Aside, Leaves, FailSet, row, bucket, setStatusAndError
<1>17. ASSUME NEW i \in Invocations, FailDlq(i) PROVE Aside
  <2>1. Leaves(i)
    BY <1>1, <1>17 DEF FailDlq, Leaves, Kept, InvType, IdleInvocation
  <2> QED
    BY <1>17, <2>1 DEF Aside, Leaves, FailDlq, row, bucket
<1>18. ASSUME NEW i \in Invocations, Crash(i) PROVE Aside
  <2>1. Leaves(i)
    BY <1>1, <1>18 DEF Crash, Leaves, Kept, InvType, IdleInvocation
  <2> QED
    BY <1>18, <2>1 DEF Aside, Leaves, Crash, row, bucket
<1>19. ASSUME NEW i \in Invocations, LoseLock(i) PROVE Aside
  BY <1>19 DEF Aside, Kept, LoseLock, row, bucket, worker
<1>20. ASSUME NEW i \in Invocations, LoseHandler(i) PROVE Aside
  <2>1. Leaves(i)
    BY <1>1, <1>20 DEF LoseHandler, Leaves, Kept, InvType, IdleInvocation
  <2> QED
    BY <1>20, <2>1 DEF Aside, Leaves, LoseHandler, row, bucket
<1>21. ASSUME NEW d \in Deletes, DeleteRead(d) PROVE Aside
  BY <1>21 DEF Aside, Kept, DeleteRead, row, bucket, worker
<1>22. ASSUME NEW d \in Deletes, DeleteSoft(d) PROVE Aside
  BY <1>22 DEF Aside, Kept, DeleteSoft, row, bucket, worker, softDelete
<1>23. ASSUME NEW d \in Deletes, DeleteObjects(d) PROVE Aside
  BY <1>23 DEF Aside, Kept, DeleteObjects, row, bucket, worker, PdfInv
<1>24. CASE Promote
  BY <1>24 DEF Aside, Kept, Promote, row, bucket, worker
<1>25. CASE Stall
  BY <1>25 DEF Aside, Kept, Stall, row, bucket, worker
<1>26. CASE Evict
  BY <1>26 DEF Aside, Kept, Evict, row, bucket, worker
<1>27. CASE Upload
  BY <1>27 DEF Aside, Kept, Upload, row, bucket, worker
<1>28. CASE UNCHANGED vars
  BY <1>28 DEF Aside, vars, row, bucket, worker
<1> QED
  BY <1>2, <1>3, <1>4, <1>5, <1>6, <1>7, <1>8, <1>9, <1>10, <1>11, <1>12, <1>13, <1>14, <1>15, <1>16, <1>17, <1>18, <1>19, <1>20, <1>21, <1>22, <1>23, <1>24, <1>25, <1>26, <1>27, <1>28
  DEF Next, TriggerStep, InvocationStep, DeleteStep, StageBody

-----------------------------------------------------------------------------
(* What the steps of runStage do to the report an invocation holds.         *)

\* Invocation i is at step p of stage s with the report r in hand; nobody else
\* moved.
Holds(i, p, s, r) ==
  /\ inv'[i].pc = p /\ inv'[i].stage = s /\ inv'[i].report = r
  /\ \A j \in Invocations : j # i => inv'[j] = inv[j]

\* process() starts from the stored report, and not on a READY job.
LEMMA LoadHolds ==
  ASSUME InvType, NEW i \in Invocations, Load(i)
  PROVE  \/ Leaves(i)
         \/ Holds(i, "stage", FirstStage(transcript, report), report) /\ status # "READY"
<1>1. CASE Throw(i) \/ inv' = Settling(i, "ok")
  BY <1>1, SettlingKept DEF Throw
<1>2. CASE /\ ~NothingToDo
           /\ inv' = [inv EXCEPT ![i] = [Entering(i, FirstStage(transcript, report)) EXCEPT !.report = report]]
  <2> DEFINE fs == FirstStage(transcript, report)
  <2> HIDE DEF fs
  <2>1. inv' = [inv EXCEPT ![i] = [[inv[i] EXCEPT !.pc = "stage", !.stage = fs] EXCEPT !.report = report]]
    BY <1>2 DEF Entering, fs
  <2>2. Holds(i, "stage", fs, report)
    BY <2>1 DEF InvType, Invocation, Holds
  <2> QED
    BY <1>2, <2>2 DEF NothingToDo, fs
<1> QED
  BY <1>1, <1>2 DEF Load

\* The status transition leaves the report in hand.
LEMMA StageStartHolds ==
  ASSUME InvType, NEW i \in Invocations, StageStart(i)
  PROVE  Leaves(i) \/ Holds(i, "call", inv[i].stage, inv[i].report)
<1>1. CASE Throw(i)
  BY <1>1, SettlingKept DEF Throw
<1>2. CASE inv' = [inv EXCEPT ![i].pc = "call"]
  BY <1>2 DEF InvType, Invocation, Holds
<1> QED
  BY <1>1, <1>2 DEF StageStart

\* Only the compiler's call replaces it.
LEMMA CallHolds ==
  ASSUME InvType, NEW i \in Invocations, Call(i)
  PROVE  \/ Leaves(i)
         \/ \E r : /\ Holds(i, AfterCall(inv[i].stage), inv[i].stage, r)
                   /\ inv[i].stage # "compile" => r = inv[i].report
<1>1. CASE Throw(i)
  BY <1>1, SettlingKept DEF Throw
<1>2. CASE inv' = [inv EXCEPT ![i].pc = "markRead"]
  BY <1>2 DEF InvType, Invocation, Leaves, Kept
<1>3. ASSUME NEW r \in CallResults(inv[i]),
             inv' = [inv EXCEPT ![i].pc = AfterCall(inv[i].stage), ![i].report = r]
      PROVE  /\ Holds(i, AfterCall(inv[i].stage), inv[i].stage, r)
             /\ inv[i].stage # "compile" => r = inv[i].report
  <2>1. Holds(i, AfterCall(inv[i].stage), inv[i].stage, r)
    BY <1>3 DEF InvType, Invocation, Holds
  <2>2. inv[i].stage # "compile" => r = inv[i].report
    BY DEF CallResults
  <2> QED
    BY <2>1, <2>2
<1> QED
  BY <1>1, <1>2, <1>3 DEF Call

\* What is uploaded is what is in hand.
LEMMA PutHolds ==
  ASSUME InvType, NEW i \in Invocations, Put(i)
  PROVE  \/ Leaves(i) /\ UNCHANGED pdf
         \/ Holds(i, "save", inv[i].stage, inv[i].report) /\ pdf' = inv[i].report
<1>1. CASE Throw(i) /\ UNCHANGED pdf
  BY <1>1, SettlingKept DEF Throw
<1>2. CASE inv' = [inv EXCEPT ![i].pc = "save"] /\ pdf' = inv[i].report
  BY <1>2 DEF InvType, Invocation, Holds
<1> QED
  BY <1>1, <1>2 DEF Put

\* A stage hands what it holds to the next one.
LEMMA SaveHolds ==
  ASSUME InvType, NEW i \in Invocations, Save(i)
  PROVE  \/ Leaves(i)
         \/ /\ inv[i].stage = "transcribe"
            /\ Holds(i, "stage", CompileOrRender(inv[i].report), inv[i].report)
            /\ UNCHANGED report
         \/ /\ inv[i].stage = "compile"
            /\ Holds(i, "stage", "render", inv[i].report)
            /\ report' = inv[i].report
<1>1. CASE Throw(i)
  BY <1>1, SettlingKept DEF Throw
<1>2. CASE StageWrite(inv[i]) /\ inv' = AfterStage(i)
  <2>1. \A s : inv' = [inv EXCEPT ![i] = Entering(i, s)] => Holds(i, "stage", s, inv[i].report)
    BY DEF InvType, Invocation, Entering, Holds
  <2>2. inv[i].stage \in STAGE
    BY DEF InvType, Invocation
  <2>3. CASE inv[i].stage = "transcribe"
    BY <1>2, <2>1, <2>3 DEF AfterStage, StageWrite, saveTranscript
  <2>4. CASE inv[i].stage = "compile"
    BY <1>2, <2>1, <2>4 DEF AfterStage, StageWrite, replaceReport
  <2>5. CASE inv[i].stage = "render"
    BY <1>2, <2>5, SettlingKept DEF AfterStage
  <2> QED
    BY <2>2, <2>3, <2>4, <2>5 DEF STAGE
<1> QED
  BY <1>1, <1>2 DEF Save

-----------------------------------------------------------------------------
(* The inductive invariants.                                                *)

\* Without timeouts no stage body ever outlives its invocation.
LEMMA QuietStep == TypeOK /\ PdfInv /\ QuietInv /\ [Next]_vars => QuietInv'
<1> SUFFICES ASSUME TypeOK, PdfInv, QuietInv, [Next]_vars, "timeout" \notin Faults
             PROVE  \A c \in Closures : late'[c].pc = "idle"
  BY DEF QuietInv
<1>1. \A c \in Closures : late[c].pc = "idle"
  BY DEF QuietInv
<1>2. ASSUME NEW i \in Invocations, StageBody(i) PROVE late' = late
  BY <1>2 DEF StageBody, Load, StageStart, Call, Put, Save
<1>3. \A c \in Closures : ~ClosureStep(c)
  BY <1>1 DEF ClosureStep, LateCall, LatePut, LateSave, LateEnd
<1>4. ASSUME NEW r \in Edits, Update(r) PROVE late' = late
  BY <1>4 DEF Update, worker
<1>5. Aside => late' = late
  BY DEF Aside
<1>6. late' = late
  BY <1>2, <1>3, <1>4, <1>5, StepKinds
<1> QED
  BY <1>1, <1>6

\* An invocation in a stage is the only one, as long as workers keep their locks.
LEMMA AloneInStage ==
  ASSUME LockInv, "lockloss" \notin Faults, NEW i \in Invocations,
         inv[i].pc = "load" \/ InStage(i)
  PROVE  \A j \in Invocations : j # i => ~InStage(j)
  BY DEF LockInv, Running, InStage, InvocationPC

\* No step puts an undisturbed invocation into a stage of a READY job, or makes
\* the job READY under it.
LEMMA StagedStep ==
  TypeOK /\ PdfInv /\ QuietInv /\ LockInv /\ StagedInv /\ [Next]_vars => StagedInv'
<1> SUFFICES ASSUME TypeOK, PdfInv, QuietInv, LockInv, StagedInv, [Next]_vars, Undisturbed
             PROVE  \A i \in Invocations : InStage(i)' => status' # "READY"
  BY DEF StagedInv
<1>1. InvType /\ "lockloss" \notin Faults /\ \A c \in Closures : late[c].pc = "idle"
  BY DEF TypeOK, Undisturbed, QuietInv
<1>2. \A i \in Invocations : InStage(i) => status # "READY"
  BY DEF StagedInv
<1> DEFINE Goal == \A i \in Invocations : InStage(i)' => status' # "READY"
<1>3. ASSUME NEW i \in Invocations, Load(i) PROVE Goal
  <2>1. UNCHANGED status
    BY <1>3 DEF Load, row
  <2> QED
    BY <1>1, <1>2, <1>3, <2>1, LoadHolds DEF Leaves, Kept, Holds, InStage
<1>4. ASSUME NEW i \in Invocations, StageStart(i) PROVE Goal
  <2>1. InStage(i)
    BY <1>4 DEF StageStart, InStage
  <2>2. inv[i].stage \in STAGE
    BY <1>1 DEF InvType, Invocation
  <2>3. status' # "READY"
    BY <1>2, <1>4, <2>1, <2>2 DEF StageStart, setStatus, StageStatus, STAGE, row
  <2> QED
    BY <2>3
<1>5. ASSUME NEW i \in Invocations, Call(i) \/ Put(i) PROVE Goal
  <2>1. InStage(i) /\ UNCHANGED status
    BY <1>5 DEF Call, Put, InStage, row
  <2> QED
    BY <1>2, <2>1
<1>6. ASSUME NEW i \in Invocations, Save(i) PROVE Goal
  <2>1. InStage(i)
    BY <1>6 DEF Save, InStage
  <2>2. \A j \in Invocations : j # i => ~InStage(j)
    BY <1>1, <2>1, AloneInStage
  <2>3. status' = status \/ inv[i].stage = "render"
    BY <1>6 DEF Save, StageWrite, saveTranscript, replaceReport, row
  <2>4. InStage(i)' => inv[i].stage # "render"
    BY <1>1, <1>6, SaveHolds DEF Leaves, Kept, InStage
  <2>5. \A j \in Invocations : j # i => inv'[j] = inv[j]
    BY <1>1, <1>6, SaveHolds DEF Leaves, Holds
  <2> QED
    BY <1>2, <2>1, <2>2, <2>3, <2>4, <2>5 DEF InStage
<1>7. \A c \in Closures : ~ClosureStep(c)
  BY <1>1 DEF ClosureStep, LateCall, LatePut, LateSave, LateEnd
<1>8. ASSUME NEW r \in Edits, Update(r) PROVE Goal
  BY <1>2, <1>8 DEF Update, replaceReport, worker, InStage
<1>9. CASE Aside
  BY <1>2, <1>9 DEF Aside, Kept, InStage
<1> QED
  BY <1>3, <1>4, <1>5, <1>6, <1>7, <1>8, <1>9, StepKinds DEF StageBody

\* No step puts a PDF of another report under an undisturbed job that nobody
\* edits.
LEMMA FidelityStep ==
  /\ TypeOK /\ PdfInv /\ QuietInv /\ LockInv /\ StagedInv /\ FidelityInv
  /\ [Next]_vars
  => FidelityInv'
<1> SUFFICES ASSUME TypeOK, PdfInv, QuietInv, LockInv, StagedInv, FidelityInv, [Next]_vars,
                    Undisturbed, Edits = {}
             PROVE  FidelityInv'
  BY DEF FidelityInv
<1>1. InvType /\ "lockloss" \notin Faults /\ \A c \in Closures : late[c].pc = "idle"
  BY DEF TypeOK, Undisturbed, QuietInv
<1>2. \A i \in Invocations : InStage(i) => status # "READY"
  BY DEF StagedInv
<1>3. /\ status = "READY" => pdf = report \/ deleted
      /\ \A i \in Invocations : inv[i].pc = "put" => inv[i].stage = "render"
      /\ \A i \in Invocations : InStage(i) /\ inv[i].stage # "compile" => inv[i].report = report
      /\ \A i \in Invocations : inv[i].pc = "save" /\ inv[i].stage = "render" => pdf = report \/ deleted
  BY DEF FidelityInv
\* What the step has to leave true of the invocations.
<1> DEFINE Good(j) == /\ inv'[j].pc = "put" => inv'[j].stage = "render"
                      /\ InStage(j)' /\ inv'[j].stage # "compile" => inv'[j].report = report'
                      /\ inv'[j].pc = "save" /\ inv'[j].stage = "render" => pdf' = report' \/ deleted'
<1>4. ASSUME status' = "READY" => pdf' = report' \/ deleted', \A j \in Invocations : Good(j)
      PROVE  FidelityInv'
  BY <1>4 DEF FidelityInv
\* Whoever is out of a stage afterwards, and whoever was in none before.
<1>5. ASSUME NEW j \in Invocations, ~InStage(j)' PROVE Good(j)
  BY <1>5 DEF InStage
<1>6. ASSUME NEW i \in Invocations, Load(i) PROVE FidelityInv'
  <2>1. UNCHANGED <<row, bucket>>
    BY <1>6 DEF Load
  <2>2. CASE Leaves(i)
    BY <1>3, <1>4, <2>1, <2>2 DEF Leaves, Kept, InStage, row, bucket
  <2>3. CASE Holds(i, "stage", FirstStage(transcript, report), report)
    BY <1>3, <1>4, <2>1, <2>3 DEF Holds, InStage, row, bucket
  <2> QED
    BY <1>1, <1>6, <2>2, <2>3, LoadHolds
<1>7. ASSUME NEW i \in Invocations, StageStart(i) PROVE FidelityInv'
  <2>1. InStage(i) /\ UNCHANGED <<report, deleted, bucket>>
    BY <1>7 DEF StageStart, InStage, setStatus, row
  <2>2. inv[i].stage \in STAGE
    BY <1>1 DEF InvType, Invocation
  <2>3. status' # "READY"
    BY <1>2, <1>7, <2>1, <2>2 DEF StageStart, setStatus, StageStatus, STAGE, row
  <2>4. CASE Leaves(i)
    BY <1>3, <1>4, <2>1, <2>3, <2>4 DEF Leaves, Kept, InStage, bucket
  <2>5. CASE Holds(i, "call", inv[i].stage, inv[i].report)
    BY <1>3, <1>4, <2>1, <2>3, <2>5 DEF Holds, InStage, bucket
  <2> QED
    BY <1>1, <1>7, <2>4, <2>5, StageStartHolds
<1>8. ASSUME NEW i \in Invocations, Call(i) PROVE FidelityInv'
  <2>1. InStage(i) /\ UNCHANGED <<row, bucket>>
    BY <1>8 DEF Call, InStage
  <2>2. CASE Leaves(i)
    BY <1>3, <1>4, <2>1, <2>2 DEF Leaves, Kept, InStage, row, bucket
  <2>3. ASSUME NEW r, Holds(i, AfterCall(inv[i].stage), inv[i].stage, r),
               inv[i].stage # "compile" => r = inv[i].report
        PROVE  FidelityInv'
    BY <1>3, <1>4, <2>1, <2>3 DEF Holds, AfterCall, InStage, row, bucket
  <2> QED
    BY <1>1, <1>8, <2>2, <2>3, CallHolds
<1>9. ASSUME NEW i \in Invocations, Put(i) PROVE FidelityInv'
  <2>1. InStage(i) /\ UNCHANGED row /\ inv[i].stage = "render"
    BY <1>3, <1>9 DEF Put, InStage
  <2>2. \A j \in Invocations : j # i => ~InStage(j)
    BY <1>1, <2>1, AloneInStage
  <2>3. status' # "READY" /\ inv[i].report = report
    BY <1>2, <1>3, <2>1 DEF row
  <2>4. CASE Leaves(i)
    BY <1>4, <1>5, <2>2, <2>3, <2>4 DEF Leaves, Kept, InStage
  <2>5. CASE Holds(i, "save", inv[i].stage, inv[i].report) /\ pdf' = inv[i].report
    BY <1>4, <1>5, <2>1, <2>2, <2>3, <2>5 DEF Holds, InStage, row
  <2> QED
    BY <1>1, <1>9, <2>4, <2>5, PutHolds
<1>10. ASSUME NEW i \in Invocations, Save(i) PROVE FidelityInv'
  <2>1. InStage(i) /\ inv[i].pc = "save" /\ UNCHANGED <<bucket, deleted>>
    BY <1>10 DEF Save, InStage, StageWrite, saveTranscript, replaceReport, setPdfReady, row
  <2>2. \A j \in Invocations : j # i => ~InStage(j)
    BY <1>1, <2>1, AloneInStage
  <2>3. status' = "READY" => inv[i].stage = "render" /\ UNCHANGED report
    BY <1>2, <1>10, <2>1 DEF Save, StageWrite, saveTranscript, replaceReport, setPdfReady, row
  <2>4. status' = "READY" => pdf' = report' \/ deleted'
    BY <1>3, <2>1, <2>3 DEF bucket
  <2>5. CASE Leaves(i)
    BY <1>4, <1>5, <2>2, <2>4, <2>5 DEF Leaves, Kept, InStage
  <2>6. CASE /\ inv[i].stage = "transcribe"
             /\ Holds(i, "stage", CompileOrRender(inv[i].report), inv[i].report)
             /\ UNCHANGED report
    BY <1>3, <1>4, <1>5, <2>1, <2>2, <2>4, <2>6 DEF Holds, InStage
  <2>7. CASE Holds(i, "stage", "render", inv[i].report) /\ report' = inv[i].report
    BY <1>4, <1>5, <2>2, <2>4, <2>7 DEF Holds, InStage
  <2> QED
    BY <1>1, <1>10, <2>5, <2>6, <2>7, SaveHolds
<1>11. \A c \in Closures : ~ClosureStep(c)
  BY <1>1 DEF ClosureStep, LateCall, LatePut, LateSave, LateEnd
<1>12. CASE Aside
  BY <1>3, <1>4, <1>12 DEF Aside, Kept, InStage
<1> QED
  BY <1>6, <1>7, <1>8, <1>9, <1>10, <1>11, <1>12, StepKinds DEF StageBody

\* Where nobody edits, no step stores a report without a transcript or gives one
\* to an invocation that is to transcribe.
LEMMA CompiledStep ==
  TypeOK /\ PdfInv /\ TranscriptInv /\ CompiledInv /\ [Next]_vars => CompiledInv'
<1> SUFFICES ASSUME TypeOK, PdfInv, TranscriptInv, CompiledInv, [Next]_vars, Edits = {}
             PROVE  /\ report' # Empty => transcript'
                    /\ \A i \in Invocations : inv'[i].stage = "transcribe" => inv'[i].report = Empty
  BY DEF CompiledInv
<1>1. InvType
  BY DEF TypeOK
<1>2. /\ report # Empty => transcript
      /\ \A i \in Invocations : inv[i].stage = "transcribe" => inv[i].report = Empty
  BY DEF CompiledInv
<1> DEFINE Goal == /\ report' # Empty => transcript'
                   /\ \A i \in Invocations : inv'[i].stage = "transcribe" => inv'[i].report = Empty
<1>3. ASSUME NEW i \in Invocations, Load(i) PROVE Goal
  <2>1. UNCHANGED row
    BY <1>3 DEF Load
  <2>2. CASE Leaves(i)
    BY <1>2, <2>1, <2>2 DEF Leaves, Kept, row
  <2>3. FirstStage(transcript, report) = "transcribe" => ~transcript
    BY DEF FirstStage, CompileOrRender
  <2>4. CASE Holds(i, "stage", FirstStage(transcript, report), report)
    BY <1>2, <2>1, <2>3, <2>4 DEF Holds, row
  <2> QED
    BY <1>1, <1>3, <2>2, <2>4, LoadHolds
<1>4. ASSUME NEW i \in Invocations, StageStart(i) PROVE Goal
  <2>1. UNCHANGED <<report, transcript>>
    BY <1>4 DEF StageStart, setStatus, row
  <2>2. CASE Leaves(i)
    BY <1>2, <2>1, <2>2 DEF Leaves, Kept
  <2>3. CASE Holds(i, "call", inv[i].stage, inv[i].report)
    BY <1>2, <2>1, <2>3 DEF Holds
  <2> QED
    BY <1>1, <1>4, <2>2, <2>3, StageStartHolds
<1>5. ASSUME NEW i \in Invocations, Call(i) PROVE Goal
  <2>1. UNCHANGED <<report, transcript>>
    BY <1>5 DEF Call, row
  <2>2. CASE Leaves(i)
    BY <1>2, <2>1, <2>2 DEF Leaves, Kept
  <2>3. ASSUME NEW r, Holds(i, AfterCall(inv[i].stage), inv[i].stage, r),
               inv[i].stage # "compile" => r = inv[i].report
        PROVE  Goal
    BY <1>2, <2>1, <2>3 DEF Holds
  <2> QED
    BY <1>1, <1>5, <2>2, <2>3, CallHolds
<1>6. ASSUME NEW i \in Invocations, Put(i) PROVE Goal
  <2>1. UNCHANGED <<report, transcript>>
    BY <1>6 DEF Put, row
  <2> QED
    BY <1>1, <1>2, <1>6, <2>1, PutHolds DEF Leaves, Kept, Holds
<1>7. ASSUME NEW i \in Invocations, Save(i) PROVE Goal
  <2>1. transcript => transcript'
    BY <1>7 DEF Save, StageWrite, saveTranscript, replaceReport, setPdfReady, row
  <2>2. UNCHANGED report \/ inv[i].stage = "compile"
    BY <1>7 DEF Save, StageWrite, saveTranscript, replaceReport, setPdfReady, row
  <2>3. inv[i].stage = "compile" => transcript
    BY <1>7 DEF Save, TranscriptInv
  <2>4. report' # Empty => transcript'
    BY <1>2, <2>1, <2>2, <2>3
  <2>5. CompileOrRender(inv[i].report) # "transcribe"
    BY DEF CompileOrRender
  <2>6. \A j \in Invocations : inv'[j].stage = "transcribe" => inv'[j].report = Empty
    BY <1>1, <1>2, <1>7, <2>5, SaveHolds DEF Leaves, Kept, Holds
  <2> QED
    BY <2>4, <2>6
<1>8. ASSUME NEW c \in Closures, ClosureStep(c) PROVE Goal
  <2>1. inv' = inv /\ (transcript => transcript')
    BY <1>8 DEF ClosureStep, LateCall, LatePut, LateSave, LateEnd, StageWrite,
       saveTranscript, replaceReport, setPdfReady, row
  <2>2. UNCHANGED report \/ transcript
    BY <1>8 DEF ClosureStep, LateCall, LatePut, LateSave, LateEnd, StageWrite,
       saveTranscript, replaceReport, setPdfReady, row, TranscriptInv
  <2> QED
    BY <1>2, <2>1, <2>2
<1>9. CASE Aside
  BY <1>2, <1>9 DEF Aside, Kept
<1> QED
  BY <1>3, <1>4, <1>5, <1>6, <1>7, <1>8, <1>9, StepKinds DEF StageBody

-----------------------------------------------------------------------------
(* The theorems.                                                            *)

\* The invariants hold of a draft job.
LEMMA FidelityInit ==
  Init => PdfInv /\ TranscriptInv /\ LockInv /\ QuietInv /\ StagedInv /\ FidelityInv /\ CompiledInv
<1> SUFFICES ASSUME Init
             PROVE  PdfInv /\ TranscriptInv /\ LockInv /\ QuietInv /\ StagedInv /\ FidelityInv /\ CompiledInv
  OBVIOUS
<1>1. \A i \in Invocations : inv[i] = IdleInvocation
  BY DEF Init
<1>2. \A c \in Closures : late[c] = IdleClosure
  BY DEF Init
<1>3. PdfInv /\ TranscriptInv
  BY <1>1, <1>2 DEF Init, PdfInv, TranscriptInv, IdleInvocation, IdleClosure, NewDelete
<1>4. LockInv /\ QuietInv /\ StagedInv
  BY <1>1, <1>2 DEF Init, LockInv, Running, QuietInv, StagedInv, IdleInvocation, IdleClosure
<1>5. FidelityInv /\ CompiledInv
  BY <1>1 DEF Init, FidelityInv, CompiledInv, InStage, IdleInvocation
<1> QED
  BY <1>3, <1>4, <1>5

\* Whatever crashes, lost requests, retries, repeated triggers and deletions
\* happen: as long as nobody edits the report, no stage times out and no lock is
\* lost, the PDF that is served shows the stored report.
THEOREM ServedPdfIsCurrent ==
  ASSUME Undisturbed, Edits = {}
  PROVE  Spec => []PdfShowsReport
<1>1. FidelityInv => PdfShowsReport
  BY DEF FidelityInv, PdfShowsReport, PdfServed
<1> QED
  BY <1>1, FidelityInit, TypeInit, TypeStep, PdfStep, LockStep, QuietStep, StagedStep, FidelityStep,
     PTL DEF Spec

\* As long as no stage times out and no lock is lost, with edits allowed: no
\* invocation takes a READY job back into a stage.
THEOREM ReadyStaysOutOfStages ==
  ASSUME Undisturbed
  PROVE  Spec => ReadyNotRestaged
<1> DEFINE Kind == status = "READY" => status' \notin {"TRANSCRIBING", "COMPILING", "RENDERING"}
<1>1. ASSUME TypeOK, PdfInv, QuietInv, StagedInv, [Next]_vars PROVE [Kind]_vars
  <2>1. \A i \in Invocations : InStage(i) => status # "READY"
    BY <1>1 DEF StagedInv
  <2>2. \A c \in Closures : ~ClosureStep(c)
    BY <1>1 DEF Undisturbed, QuietInv, ClosureStep, LateCall, LatePut, LateSave, LateEnd
  <2>3. ASSUME NEW i \in Invocations, StageStart(i) PROVE Kind
    BY <2>1, <2>3 DEF StageStart, InStage
  <2>4. ASSUME NEW i \in Invocations, Load(i) \/ Call(i) \/ Put(i) PROVE Kind
    BY <2>4 DEF Load, Call, Put, row
  <2>5. ASSUME NEW i \in Invocations, Save(i) PROVE Kind
    BY <2>1, <2>5 DEF Save, InStage
  <2>6. ASSUME NEW r \in Edits, Update(r) PROVE Kind
    BY <2>6 DEF Update, replaceReport
  <2>7. CASE Aside
    BY <2>7 DEF Aside
  <2> QED
    BY <1>1, <2>2, <2>3, <2>4, <2>5, <2>6, <2>7, StepKinds DEF StageBody
<1> QED
  BY <1>1, FidelityInit, TypeInit, TypeStep, PdfStep, LockStep, QuietStep, StagedStep,
     PTL DEF Spec, ReadyNotRestaged

\* As long as nobody edits the report, whatever timeouts, lost locks, crashes and
\* repeated triggers happen: an invocation that is to transcribe found no report,
\* so a report that process() finds was compiled by an earlier attempt.
THEOREM FoundReportWasCompiled ==
  ASSUME Edits = {}
  PROVE  Spec => []LoadedReportWasCompiled
<1>1. CompiledInv => LoadedReportWasCompiled
  BY DEF CompiledInv, LoadedReportWasCompiled
<1> QED
  BY <1>1, FidelityInit, TypeInit, TypeStep, PdfStep, TranscriptStep, CompiledStep, PTL DEF Spec

-----------------------------------------------------------------------------
(* Nobody is left in flight with nobody at work.                            *)

\* A step of process() after which its invocation still owes its result; it
\* reports success only of a job that is READY or gone.
Working(i) ==
  /\ Running(i) /\ Running(i)'
  /\ \A j \in Invocations : j # i => inv'[j] = inv[j]
  /\ inv'[i].pc = "settle" /\ inv'[i].outcome = "ok" => status' \notin IN_FLIGHT \/ deleted'
  /\ UNCHANGED <<queue, trigger>>

\* An invocation that throws does not report success.
LEMMA SettlingWorks ==
  ASSUME InvType, NEW i \in Invocations, NEW o, inv' = Settling(i, o)
  PROVE  /\ Running(i)' /\ inv'[i].outcome = o
         /\ \A j \in Invocations : j # i => inv'[j] = inv[j]
  BY DEF InvType, Settling, IdleInvocation, Running, InvocationPC

\* Every step inside process() is of this kind.
LEMMA ProcessWorks ==
  ASSUME InvType, NEW i \in Invocations,
         StageBody(i) \/ (\E c \in Closures : Timeout(i, c)) \/ MarkRead(i) \/ MarkSet(i)
  PROVE  Working(i)
<1>1. Running(i)
  BY DEF StageBody, Load, StageStart, Call, Put, Save, Timeout, MarkRead, MarkSet, Running, InvocationPC
<1>2. UNCHANGED <<queue, trigger>>
  BY DEF StageBody, Load, StageStart, Call, Put, Save, Timeout, MarkRead, MarkSet, redis, api
<1>3. CASE Throw(i) \/ inv' = Settling(i, "permanent")
  BY <1>1, <1>2, <1>3, SettlingWorks DEF Throw, Working
<1>4. ASSUME NEW p \in {"stage", "call", "put", "save", "markRead", "markSet"}, inv'[i].pc = p,
             \A j \in Invocations : j # i => inv'[j] = inv[j]
      PROVE  Working(i)
  BY <1>1, <1>2, <1>4 DEF Working, Running, InvocationPC
<1>5. CASE Load(i)
  <2>1. CASE NothingToDo /\ inv' = Settling(i, "ok")
    <3>1. UNCHANGED row
      BY <1>5 DEF Load
    <3>2. status' \notin IN_FLIGHT \/ deleted'
      BY <2>1, <3>1 DEF NothingToDo, IN_FLIGHT, row
    <3> QED
      BY <1>1, <1>2, <2>1, <3>2, SettlingWorks DEF Working
  <2>2. CASE inv' = [inv EXCEPT ![i] = [Entering(i, FirstStage(transcript, report)) EXCEPT !.report = report]]
    BY <1>4, <2>2 DEF Entering, InvType, Invocation
  <2> QED
    BY <1>3, <1>5, <2>1, <2>2 DEF Load
<1>6. CASE StageStart(i)
  BY <1>3, <1>4, <1>6 DEF StageStart, InvType, Invocation
<1>7. CASE Call(i)
  <2>1. AfterCall(inv[i].stage) \in {"put", "save"}
    BY DEF AfterCall
  <2> QED
    BY <1>3, <1>4, <1>7, <2>1 DEF Call, InvType, Invocation
<1>8. CASE Put(i)
  BY <1>3, <1>4, <1>8 DEF Put, InvType, Invocation
<1>9. CASE Save(i)
  <2>1. inv[i].stage \in STAGE
    BY DEF InvType, Invocation
  <2>2. CASE StageWrite(inv[i]) /\ inv' = AfterStage(i) /\ inv[i].stage = "render"
    <3>1. status' = "READY" /\ inv' = Settling(i, "ok")
      BY <2>2 DEF StageWrite, setPdfReady, AfterStage
    <3> QED
      BY <1>1, <1>2, <3>1, SettlingWorks DEF Working, IN_FLIGHT
  <2>3. CASE inv' = AfterStage(i) /\ inv[i].stage # "render"
    <3>1. PICK s : inv' = [inv EXCEPT ![i] = Entering(i, s)]
      BY <2>1, <2>3 DEF AfterStage, STAGE
    <3> QED
      BY <1>4, <3>1 DEF Entering, InvType, Invocation
  <2> QED
    BY <1>3, <1>9, <2>2, <2>3 DEF Save
<1>10. CASE \E c \in Closures : Timeout(i, c)
  BY <1>3, <1>10 DEF Timeout
<1>11. CASE MarkRead(i) \/ MarkSet(i)
  <2>1. CASE inv' = [inv EXCEPT ![i].pc = "markSet"]
    BY <1>4, <2>1 DEF InvType, Invocation
  <2> QED
    BY <1>3, <1>11, <2>1 DEF MarkRead, MarkSet
<1> QED
  BY <1>5, <1>6, <1>7, <1>8, <1>9, <1>10, <1>11 DEF StageBody

\* No step of a system with one quiet trigger leaves an in-flight job unattended.
LEMMA AttendedStep ==
  TypeOK /\ QueueInv /\ LockInv /\ AttendedInv /\ [Next]_vars => AttendedInv'
<1> SUFFICES ASSUME TypeOK, QueueInv, LockInv, AttendedInv, [Next]_vars, OneQuietTrigger
             PROVE  AttendedInv'
  BY DEF AttendedInv
<1>1. /\ QueueType /\ InvType /\ ApiType
      /\ trigger \in [Triggers -> TriggerPC]
  BY DEF TypeOK, ApiType
<1>2. /\ \A t \in Triggers : trigger[t] = "done" \/ queue.state = "none"
      /\ \A t \in Triggers : trigger[t] \notin {"getState", "remove"}
      /\ \A i \in Invocations :
           inv[i].pc = "settle" /\ inv[i].outcome = "ok" => status \notin IN_FLIGHT \/ deleted
      /\ status \in IN_FLIGHT /\ ~deleted => Attended
  BY DEF AttendedInv, InFlightIsAttended
<1>3. "lockloss" \notin Faults /\ "handlerloss" \notin Faults /\ "apiloss" \notin Faults
  BY DEF OneQuietTrigger
<1>4. \A t, u \in Triggers : t = u
  BY DEF OneQuietTrigger
\* While an invocation runs, the entry is active, the trigger is over and no other
\* invocation is about to report.
<1>5. ASSUME NEW i \in Invocations, Running(i)
      PROVE  /\ queue.lock = i /\ queue.state = "active"
             /\ \A t \in Triggers : trigger[t] = "done"
             /\ \A j \in Invocations : j # i => inv[j].pc # "settle"
  <2>1. queue.lock = i /\ queue.state = "active"
    BY <1>3, <1>5, ConstantsAssumption DEF LockInv, QueueInv
  <2>2. \A j \in Invocations : inv[j].pc = "settle" => Running(j)
    BY DEF Running, InvocationPC
  <2> QED
    BY <1>2, <1>3, <2>1, <2>2 DEF LockInv
\* The four things a step has to leave true.
<1> DEFINE Over == /\ \A t \in Triggers : trigger'[t] = "done" \/ queue'.state = "none"
                   /\ \A t \in Triggers : trigger'[t] \notin {"getState", "remove"}
           Truthful(i) == inv'[i].pc = "settle" /\ inv'[i].outcome = "ok"
                           => status' \notin IN_FLIGHT \/ deleted'
           Goal == /\ Over
                   /\ \A i \in Invocations : Truthful(i)
                   /\ status' \in IN_FLIGHT /\ ~deleted' => Attended'
<1>6. Goal => AttendedInv'
  BY DEF AttendedInv, InFlightIsAttended
\* Requests that do not touch the queue, closures and deletions.
<1>7. ASSUME UNCHANGED <<queue, inv, trigger>>, deleted => deleted',
             status' = status \/ status' \notin IN_FLIGHT
      PROVE  Goal
  BY <1>2, <1>7 DEF Attended, Running
<1>8. ASSUME NEW t \in Triggers, TriggerStep(t) \/ ProcessRead(t) \/ LoseTrigger(t) PROVE Goal
  <2>1. UNCHANGED inv
    BY <1>8 DEF TriggerStep, ProcessRead, LoseTrigger, ProcessHead, ProcessSetQueued, GetJob, GetState,
       Remove, Add, worker
  <2>2. CASE ProcessRead(t) \/ ProcessHead(t)
    BY <1>1, <1>2, <2>1, <2>2 DEF ProcessRead, ProcessHead, Attended, Running, redis, row
  <2>3. CASE ProcessSetQueued(t)
    <3>1. trigger[t] = "setQueued" /\ trigger' = [trigger EXCEPT ![t] = "getJob"] /\ UNCHANGED queue
      BY <2>3 DEF ProcessSetQueued, redis
    <3>2. queue.state = "none"
      BY <1>2, <3>1
    <3>3. \A i \in Invocations : inv[i].pc # "settle"
      BY <1>5, <3>2 DEF Running, InvocationPC
    <3>4. trigger'[t] = "getJob" /\ Over
      BY <1>1, <1>2, <3>1, <3>2
    <3> QED
      BY <2>1, <3>3, <3>4 DEF Attended
  <2>4. CASE GetJob(t)
    <3>1. trigger[t] = "getJob" /\ UNCHANGED <<queue, row>>
      BY <2>4 DEF GetJob, redis
    <3>2. queue.state = "none"
      BY <1>2, <3>1
    <3>3. trigger' = [trigger EXCEPT ![t] = "add"]
      BY <2>4, <3>2 DEF GetJob
    <3>4. trigger'[t] = "add" /\ Over
      BY <1>1, <1>2, <3>1, <3>2, <3>3
    <3> QED
      BY <1>2, <2>1, <3>1, <3>4 DEF Attended, row
  <2>5. CASE Add(t)
    <3>1. trigger[t] = "add" /\ UNCHANGED row /\ trigger' = [trigger EXCEPT ![t] = "done"]
      BY <2>5 DEF Add
    <3>2. queue.state = "none"
      BY <1>2, <3>1
    <3>3. queue'.state = "waiting"
      BY <2>5, <3>2 DEF Add, NoEntry
    <3>4. Over
      BY <1>1, <1>4, <3>1
    <3> QED
      BY <1>2, <2>1, <3>1, <3>3, <3>4 DEF Attended, row
  <2>6. ~GetState(t) /\ ~Remove(t) /\ ~LoseTrigger(t)
    BY <1>2, <1>3 DEF GetState, Remove, LoseTrigger, Fault
  <2> QED
    BY <1>8, <2>2, <2>3, <2>4, <2>5, <2>6 DEF TriggerStep
<1>9. ASSUME NEW i \in Invocations, Working(i) PROVE Goal
  <2>1. Over
    BY <1>2, <1>9 DEF Working
  <2>2. Attended'
    BY <1>9 DEF Working, Attended
  <2>3. \A j \in Invocations : Truthful(j)
    BY <1>5, <1>9 DEF Working
  <2> QED
    BY <2>1, <2>2, <2>3
<1>10. ASSUME NEW i \in Invocations, Take(i) PROVE Goal
  <2>1. queue.state = "waiting" /\ UNCHANGED <<row, trigger>> /\ queue'.state = "active"
    BY <1>1, <1>10 DEF Take, api, QueueType, QueueEntry
  <2>2. Over
    BY <1>2, <2>1
  <2>3. \A j \in Invocations : Truthful(j)
    BY <1>1, <1>2, <1>10, <2>1 DEF Take, InvType, IdleInvocation, row
  <2> QED
    BY <2>1, <2>2, <2>3 DEF Attended
<1>11. ASSUME NEW i \in Invocations, Settle(i) PROVE Goal
  <2>1. inv[i].pc = "settle" /\ UNCHANGED <<row, trigger>>
    BY <1>11 DEF Settle, api
  <2>2. Running(i)
    BY <2>1 DEF Running, InvocationPC
  <2>3. queue.lock = i /\ Over
    BY <1>2, <1>5, <2>1, <2>2
  <2>4. \A j \in Invocations : Truthful(j)
    BY <1>1, <1>2, <1>11, <2>1 DEF Settle, InvType, IdleInvocation, row
  <2>5. CASE inv[i].outcome = "ok"
    <3>1. status' \notin IN_FLIGHT \/ deleted'
      BY <1>2, <2>1, <2>5 DEF row
    <3> QED
      BY <2>3, <2>4, <3>1
  <2>6. CASE inv[i].outcome # "ok" /\ ~Exhausted(inv[i].outcome)
    <3>1. queue'.state = "delayed"
      BY <1>1, <1>11, <2>3, <2>6 DEF Settle, QueueType, QueueEntry
    <3> QED
      BY <2>3, <2>4, <3>1 DEF Attended
  <2>7. CASE inv[i].outcome # "ok" /\ Exhausted(inv[i].outcome)
    <3>1. Terminal(inv[i].outcome, queue.attemptsMade + 1)
      BY <2>7 DEF Exhausted, Terminal
    <3>2. inv' = [inv EXCEPT ![i] = [IdleInvocation EXCEPT !.pc = "failRead"]]
      BY <1>11, <2>3, <2>7, <3>1 DEF Settle
    <3>3. inv'[i].pc = "failRead"
      BY <1>1, <3>2 DEF InvType, IdleInvocation
    <3> QED
      BY <2>3, <2>4, <3>3 DEF Attended
  <2> QED
    BY <2>5, <2>6, <2>7
<1>12. ASSUME NEW i \in Invocations, FailRead(i) PROVE Goal
  <2>1. UNCHANGED <<row, queue, trigger>> /\ \A j \in Invocations : j # i => inv'[j] = inv[j]
    BY <1>1, <1>12 DEF FailRead, redis, api, InvType
  <2>2. inv'[i].pc = IF status = "FAILED" THEN "failDlq" ELSE "failSet"
    BY <1>1, <1>12 DEF FailRead, AlreadyFailed, InvType, Invocation
  <2>3. Over /\ \A j \in Invocations : Truthful(j)
    BY <1>2, <2>1, <2>2 DEF row
  <2>4. status' \in IN_FLIGHT => Attended'
    BY <2>1, <2>2 DEF Attended, IN_FLIGHT, row
  <2> QED
    BY <2>3, <2>4
<1>13. ASSUME NEW i \in Invocations, FailSet(i) PROVE Goal
  <2>1. UNCHANGED <<queue, trigger>> /\ status' \notin IN_FLIGHT
    BY <1>13 DEF FailSet, setStatusAndError, redis, api, IN_FLIGHT
  <2> QED
    BY <1>2, <2>1
<1>14. ASSUME NEW i \in Invocations, FailDlq(i) PROVE Goal
  <2>1. /\ inv[i].pc = "failDlq" /\ UNCHANGED <<row, queue, trigger>>
        /\ \A j \in Invocations : j # i => inv'[j] = inv[j]
    BY <1>1, <1>14 DEF FailDlq, api, InvType
  <2>2. inv'[i].pc = "idle"
    BY <1>1, <1>14 DEF FailDlq, InvType, IdleInvocation
  <2>3. Over /\ \A j \in Invocations : Truthful(j)
    BY <1>2, <2>1, <2>2 DEF row
  <2>4. Attended => Attended'
    BY <2>1 DEF Attended, Running
  <2> QED
    BY <1>2, <2>1, <2>3, <2>4 DEF row
<1>15. ASSUME NEW i \in Invocations, Crash(i) PROVE Goal
  <2>1. Running(i) /\ UNCHANGED <<row, trigger>>
    BY <1>1, <1>15 DEF Crash, Running, InvType, Invocation, api
  <2>2. queue'.state = "active" /\ Over
    BY <1>1, <1>5, <1>15, <2>1 DEF Crash, Unlock, QueueType, QueueEntry
  <2>3. \A j \in Invocations : Truthful(j)
    BY <1>1, <1>2, <1>15, <2>1 DEF Crash, InvType, IdleInvocation, row
  <2> QED
    BY <2>2, <2>3 DEF Attended
<1>16. \A i \in Invocations : ~LoseLock(i) /\ ~LoseHandler(i)
  BY <1>3 DEF LoseLock, LoseHandler, Fault
<1>17. ASSUME NEW c \in Closures, ClosureStep(c) PROVE Goal
  BY <1>7, <1>17 DEF ClosureStep, LateCall, LatePut, LateSave, LateEnd, StageWrite, saveTranscript,
     replaceReport, setPdfReady, IN_FLIGHT, row, redis, api
<1>18. ASSUME NEW d \in Deletes, DeleteStep(d) PROVE Goal
  BY <1>7, <1>18 DEF DeleteStep, DeleteRead, DeleteSoft, DeleteObjects, softDelete, row, redis, worker
<1>19. ASSUME NEW r \in Edits, Update(r) PROVE Goal
  BY <1>7, <1>19 DEF Update, replaceReport, redis, worker, api
<1>20. ASSUME Upload PROVE Goal
  BY <1>7, <1>20 DEF Upload, row, redis, worker, api
<1>21. ASSUME UNCHANGED vars PROVE Goal
  BY <1>7, <1>21 DEF vars, row, redis, worker, api
<1>22. ASSUME Promote \/ Stall PROVE Goal
  <2>1. queue.state # "none" /\ queue'.state = "waiting" /\ UNCHANGED <<row, inv, trigger>>
    BY <1>1, <1>22 DEF Promote, Stall, QueueType, QueueEntry, worker, api
  <2> QED
    BY <1>2, <2>1 DEF Attended, row
<1>23. ASSUME Evict PROVE Goal
  <2>1. queue.state = "completed" /\ queue'.state = "none" /\ UNCHANGED <<row, inv, trigger>>
    BY <1>23 DEF Evict, NoEntry, worker, api
  <2> QED
    BY <1>2, <2>1 DEF Attended, Running, row
<1> HIDE DEF Goal
<1>24. ASSUME NEW i \in Invocations, InvocationStep(i) PROVE Goal
  BY <1>1, <1>9, <1>11, <1>12, <1>13, <1>14, <1>24, ProcessWorks DEF InvocationStep, StageBody
<1>25. Goal
  BY <1>8, <1>10, <1>15, <1>16, <1>17, <1>18, <1>19, <1>20, <1>21, <1>22, <1>23, <1>24 DEF Next
<1> QED
  BY <1>6, <1>25

\* With a single trigger whose request and failure handlers are not cut short,
\* and workers that keep their locks, whatever timeouts, crashes, deletions and
\* edits happen: an in-flight job is still being worked on.
THEOREM InFlightJobsAreAttended ==
  ASSUME OneQuietTrigger
  PROVE  Spec => []InFlightIsAttended
<1>1. Init => AttendedInv
  <2> SUFFICES ASSUME Init PROVE AttendedInv
    OBVIOUS
  <2>1. queue.state = "none" /\ status \notin IN_FLIGHT
    BY DEF Init, NoEntry, IN_FLIGHT
  <2>2. \A t \in Triggers : trigger[t] = "start"
    BY DEF Init
  <2>3. \A i \in Invocations : inv[i].pc = "idle"
    BY DEF Init, IdleInvocation
  <2> QED
    BY <2>1, <2>2, <2>3 DEF AttendedInv, InFlightIsAttended
<1>2. AttendedInv => InFlightIsAttended
  BY DEF AttendedInv
<1> QED
  BY <1>1, <1>2, FidelityInit, TypeInit, TypeStep, LockStep, AttendedStep, PTL DEF Spec

=============================================================================
