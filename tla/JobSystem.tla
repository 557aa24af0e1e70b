------------------------------ MODULE JobSystem ------------------------------
(***************************************************************************)
(* A job's life across the API, the queue and the worker, and what should  *)
(* hold of it.                                                             *)
(***************************************************************************)
EXTENDS ProcessingQueue, Pipeline, JobsService

\* A request on its way through process() and enqueueProcessing().
TriggerStep(t) ==
  \/ ProcessHead(t) \/ ProcessSetQueued(t)
  \/ GetJob(t) \/ GetState(t) \/ Remove(t) \/ Add(t)

\* The next step of a running invocation or of its failure handler.
InvocationStep(i) ==
  \/ Load(i) \/ StageStart(i) \/ Call(i) \/ Put(i) \/ Save(i)
  \/ \E c \in Closures : Timeout(i, c)
  \/ MarkRead(i) \/ MarkSet(i) \/ Settle(i)
  \/ FailRead(i) \/ FailSet(i) \/ FailDlq(i)

ClosureStep(c) == LateCall(c) \/ LatePut(c) \/ LateSave(c) \/ LateEnd(c)

DeleteStep(d) == DeleteRead(d) \/ DeleteSoft(d) \/ DeleteObjects(d)

Next ==
  \/ \E t \in Triggers : ProcessRead(t) \/ TriggerStep(t) \/ LoseTrigger(t)
  \/ \E i \in Invocations :
       Take(i) \/ InvocationStep(i) \/ Crash(i) \/ LoseLock(i) \/ LoseHandler(i)
  \/ \E c \in Closures : ClosureStep(c)
  \/ \E d \in Deletes : DeleteStep(d)
  \/ \E r \in Edits : Update(r)
  \/ Promote \/ Stall \/ Evict \/ Upload

Spec == Init /\ [][Next]_vars

\* Requests and invocations run on, the queue delivers, and the stalled check
\* and the backoff timer fire.  Users, uploads, surviving closures and faults
\* owe nothing.
Fairness ==
  /\ \A t \in Triggers : WF_vars(TriggerStep(t))
  /\ \A i \in Invocations : WF_vars(InvocationStep(i))
  /\ WF_vars(\E i \in Invocations : Take(i))
  /\ WF_vars(Promote) /\ WF_vars(Stall)

FairSpec == Spec /\ Fairness

-----------------------------------------------------------------------------
RowType ==
  /\ status \in JobStatus /\ report \in Contents
  /\ transcript \in BOOLEAN /\ pdfKey \in BOOLEAN
  /\ errorMessage \in BOOLEAN /\ deleted \in BOOLEAN

BucketType == audio \in BOOLEAN /\ pdf \in Contents \cup {NoPdf}

QueueType == queue \in QueueEntry /\ dlq \in BOOLEAN

InvType == inv \in [Invocations -> Invocation]

LateType == late \in [Closures -> Closure]

ApiType == trigger \in [Triggers -> TriggerPC] /\ del \in [Deletes -> DeleteRequest]

\* Every part of the state has the shape the code gives it; in particular an
\* entry is never attempted more than MaxAttempts (JOB_MAX_ATTEMPTS) times.
TypeOK ==
  /\ RowType /\ BucketType /\ QueueType
  /\ InvType /\ LateType /\ ApiType
  /\ faults \in 0..MaxFaults

\* The invocation is inside process(), or its result is not yet reported.
Running(i) == inv[i].pc \in InvocationPC \ {"idle", "failRead", "failSet", "failDlq"}

\* The invocation's failure handler has work left.
Handling(i) == inv[i].pc \in {"failRead", "failSet", "failDlq"}

-----------------------------------------------------------------------------
(* Safety                                                                   *)

\* Whenever GET /jobs/:id/pdf hands out a URL, the object behind it exists:
\* the row says READY only after putObject (pipeline.service.ts renderStage),
\* whatever timeouts, retries, second runs and deletions happen around it.
PdfServedExists == PdfServed => pdf # NoPdf

\* A READY job has its transcript: no retry, no reuse of a report a user wrote,
\* and no late stage body reaches READY around transcribeStage.
ReadyHasTranscript == status = "READY" => transcript

\* As long as no worker loses its lock while it runs, no two invocations are
\* inside process() for the same job: the stable job id, the refusal to remove a
\* locked entry and the stalled check together serialise them.
OneInvocation ==
  "lockloss" \notin Faults =>
    \A i, j \in Invocations : Running(i) /\ Running(j) => i = j

\* Somebody is still going to move this job's status on.
Attended ==
  \/ queue.state \in {"waiting", "active", "delayed"}
  \/ \E i \in Invocations : Running(i) \/ inv[i].pc \in {"failRead", "failSet"}
  \/ \E t \in Triggers : trigger[t] \in {"getJob", "getState", "remove", "add"}

\* An in-flight status means that the pipeline is running: process() answers a
\* trigger of such a job without doing anything (jobs.service.ts IN_FLIGHT), so
\* an in-flight job nobody attends to can never be revived.
InFlightIsAttended == (status \in IN_FLIGHT /\ ~deleted) => Attended

\* As long as nobody edits the report and no stage times out, the PDF that is
\* served shows the report that is stored, across retries and repeated triggers.
PdfShowsReport == PdfServed => pdf = report

\* As long as nobody edits the report, a report that process() finds was compiled
\* by an earlier attempt (the comment in compileStage): its input, the transcript,
\* is there too, and no attempt transcribes again.
LoadedReportWasCompiled ==
  \A i \in Invocations : Running(i) /\ inv[i].stage = "transcribe" => inv[i].report = Empty

-----------------------------------------------------------------------------
(* The inductive invariant behind the proofs: what the safety properties    *)
(* need to know of the steps that are still to come.                        *)

\* Only an active entry is locked, and one that is not settled has attempts left.
QueueInv ==
  /\ queue.lock # NoInvocation => queue.state = "active"
  /\ queue.state # "completed" /\ queue.state # "failed" => queue.attemptsMade < MaxAttempts

\* A stage body that is about to write READY has uploaded its PDF; only the
\* deletion of the job removes a PDF.
PdfInv ==
  /\ status = "READY" => pdf # NoPdf \/ deleted
  /\ \A i \in Invocations : inv[i].pc = "save" /\ inv[i].stage = "render" => pdf # NoPdf \/ deleted
  /\ \A c \in Closures : late[c].pc = "save" /\ late[c].stage = "render" => pdf # NoPdf \/ deleted
  /\ \A d \in Deletes : del[d].pc = "objects" => deleted

\* Compiling, rendering and uploading a PDF, by an invocation or by a late stage
\* body, only happens once the transcript is saved.
TranscriptInv ==
  /\ status = "READY" => transcript
  /\ \A i \in Invocations : inv[i].pc = "put" => transcript
  /\ \A c \in Closures : late[c].pc = "put" => transcript
  /\ \A i \in Invocations :
       inv[i].pc \in {"stage", "call", "put", "save"} /\ inv[i].stage # "transcribe" => transcript
  /\ \A c \in Closures : late[c].pc # "idle" /\ late[c].stage # "transcribe" => transcript

\* An invocation runs under the lock of the entry.
LockInv == "lockloss" \notin Faults => \A i \in Invocations : Running(i) => queue.lock = i

\* The steps of runStage, from its status transition to its last write.
InStage(i) == inv[i].pc \in {"stage", "call", "put", "save"}

\* Workers keep their locks and no stage body outlives its invocation.
Undisturbed == "timeout" \notin Faults /\ "lockloss" \notin Faults

\* No stage body survives where no stage times out.
QuietInv == "timeout" \notin Faults => \A c \in Closures : late[c].pc = "idle"

\* While an undisturbed invocation is in a stage the job is not READY, so that
\* only the invocation itself can make it so.
StagedInv == Undisturbed => \A i \in Invocations : InStage(i) => status # "READY"

\* Where nobody edits, what an undisturbed invocation holds outside compileStage
\* is the stored report; it uploads that one, and READY leaves it in place.
FidelityInv ==
  Undisturbed /\ Edits = {} =>
    /\ status = "READY" => pdf = report \/ deleted
    /\ \A i \in Invocations : inv[i].pc = "put" => inv[i].stage = "render"
    /\ \A i \in Invocations : InStage(i) /\ inv[i].stage # "compile" => inv[i].report = report
    /\ \A i \in Invocations : inv[i].pc = "save" /\ inv[i].stage = "render" => pdf = report \/ deleted

\* Where nobody edits, a stored report had a transcript to be compiled from, and
\* an invocation that is to transcribe holds none.
CompiledInv ==
  Edits = {} =>
    /\ report # Empty => transcript
    /\ \A i \in Invocations : inv[i].stage = "transcribe" => inv[i].report = Empty

\* One trigger, whose request and failure handler run to their end, and workers
\* that keep their locks.
OneQuietTrigger ==
  /\ \A t, u \in Triggers : t = u
  /\ Faults \cap {"lockloss", "handlerloss", "apiloss"} = {}

\* The only trigger finds no entry and adds one; an attempt that BullMQ will take
\* for completed has left the job READY.
AttendedInv ==
  OneQuietTrigger =>
    /\ \A t \in Triggers : trigger[t] = "done" \/ queue.state = "none"
    /\ \A t \in Triggers : trigger[t] \notin {"getState", "remove"}
    /\ \A i \in Invocations :
         inv[i].pc = "settle" /\ inv[i].outcome = "ok" => status \notin IN_FLIGHT \/ deleted
    /\ InFlightIsAttended

-----------------------------------------------------------------------------
(* Action properties                                                        *)

\* As long as no stage body outlives its timeout and no lock is lost, a READY job
\* is not taken back into a stage: the retry that follows a lost 'completed' event
\* and the entry of a second trigger find READY and return.  (A trigger that read
\* an older status may still put it back to QUEUED, and markFailed to FAILED.)
ReadyNotRestaged ==
  [][status = "READY" => status' \notin {"TRANSCRIBING", "COMPILING", "RENDERING"}]_vars

-----------------------------------------------------------------------------
(* Refinement                                                               *)

\* What the row, the bucket and GET /pdf show of a job is a run of the abstract
\* life cycle, whatever the queue, timeouts, retries and requests do.
Lifecycle == INSTANCE ReportLifecycle WITH
  transcribed <- transcript, rendered <- pdf # NoPdf,
  offered <- PdfServed, withdrawn <- deleted

ImplementsLifecycle == Lifecycle!Spec

-----------------------------------------------------------------------------
(* Liveness                                                                 *)

\* A job that entered the pipeline reaches READY or FAILED, unless its user
\* deletes it: timeouts, bounded retries, the stalled check and the failure
\* handler leave no attempt hanging.
InFlightSettles ==
  status \in IN_FLIGHT ~> (status \in {"READY", "FAILED"} \/ deleted)

\* An entry that failed for good is parked on the dead-letter queue.
FailedIsParked == queue.state = "failed" ~> dlq

=============================================================================
