------------------------------ MODULE JobState ------------------------------
(***************************************************************************)
(* The state one FieldNote job has in Postgres, R2 and Redis, and the      *)
(* local state of the code that works on it: worker invocations, timed-out *)
(* stage closures that are still running, and API requests.                *)
(*                                                                         *)
(* Jobs share no state, so one job is enough.  Its owner is the only user  *)
(* whose requests reach it (every API query is scoped by userId), so the   *)
(* userId and the owner check of the worker are left out.  ProcessingEvent *)
(* rows are written and never read, so they are left out.                  *)
(***************************************************************************)
EXTENDS Naturals, FiniteSets

CONSTANTS
  Invocations,   \* concurrent calls of PipelineService.process + handleFailure
  Closures,      \* stage bodies that outlived their timeout
  Triggers,      \* the POST /jobs/:id/process requests of a behaviour
  Deletes,       \* the DELETE /jobs/:id requests of a behaviour
  Reports,       \* contents of a non-empty report tree
  Edits,         \* contents a user may PATCH the report to
  Empty,         \* the report tree without sections
  NoPdf,         \* there is no PDF object
  NoInvocation,  \* nobody holds the queue entry's lock
  MaxAttempts,   \* JOB_MAX_ATTEMPTS
  MaxStalled,    \* BullMQ's maxStalledCount
  Faults,        \* the kinds of fault that may occur
  MaxFaults      \* bound on crashes and losses in one behaviour

ASSUME ConstantsAssumption ==
  /\ Empty \notin Reports
  /\ NoPdf \notin Reports \cup {Empty}
  /\ Edits \subseteq Reports \cup {Empty}
  /\ NoInvocation \notin Invocations
  /\ MaxAttempts \in Nat \ {0}
  /\ MaxStalled \in Nat
  /\ MaxFaults \in Nat
  /\ Faults \subseteq {"timeout", "crash", "lockloss", "handlerloss", "apiloss", "cleanup"}

VARIABLES
  \* the Job row
  status, transcript, report, pdfKey, errorMessage, deleted,
  \* the job's two objects in the bucket; the PDF is the report it shows
  audio, pdf,
  \* the BullMQ entry with the job's id, and whether the job is on the DLQ
  queue, dlq,
  \* worker: invocations and surviving stage closures
  inv, late,
  \* API: process requests and delete requests in progress
  trigger, del,
  \* how many crashes and losses have happened
  faults

row     == <<status, transcript, report, pdfKey, errorMessage, deleted>>
bucket  == <<audio, pdf>>
redis   == <<queue, dlq>>
worker  == <<inv, late>>
api     == <<trigger, del>>
vars    == <<row, bucket, redis, worker, api, faults>>

-----------------------------------------------------------------------------
IN_FLIGHT == {"QUEUED", "TRANSCRIBING", "COMPILING", "RENDERING"}

\* No code writes the schema's UPLOADING.
JobStatus == {"CREATED", "READY", "FAILED"} \cup IN_FLIGHT

Contents == Reports \cup {Empty}

STAGE == {"transcribe", "compile", "render"}

InvocationPC == {"idle", "load", "stage", "call", "put", "save", "markRead",
                 "markSet", "settle", "failRead", "failSet", "failDlq"}

Invocation == [pc: InvocationPC, stage: STAGE, report: Contents,
               outcome: {"ok", "transient", "permanent"}]

Closure == [pc: {"idle", "call", "put", "save"}, stage: STAGE, report: Contents]

QueueEntry == [state: {"none", "waiting", "active", "delayed", "completed", "failed"},
               attemptsMade: 0..MaxAttempts, stalled: Nat,
               lock: Invocations \cup {NoInvocation}]

NoEntry == [state |-> "none", attemptsMade |-> 0, stalled |-> 0, lock |-> NoInvocation]

TriggerPC == {"start", "head", "setQueued", "getJob", "getState", "remove", "add", "done"}

DeleteRequest == [pc: {"start", "soft", "objects", "done"}, pdfKey: BOOLEAN]

IdleInvocation == [pc |-> "idle", stage |-> "transcribe", report |-> Empty,
                   outcome |-> "ok"]

IdleClosure == [pc |-> "idle", stage |-> "transcribe", report |-> Empty]

NewDelete == [pc |-> "start", pdfKey |-> FALSE]

DoneDelete == [pc |-> "done", pdfKey |-> FALSE]

-----------------------------------------------------------------------------
\* A draft job: createDraft wrote the row, nothing is uploaded or queued.
Init ==
  /\ status = "CREATED" /\ transcript = FALSE /\ report = Empty
  /\ pdfKey = FALSE /\ errorMessage = FALSE /\ deleted = FALSE
  /\ audio = FALSE /\ pdf = NoPdf
  /\ queue = NoEntry /\ dlq = FALSE
  /\ inv = [i \in Invocations |-> IdleInvocation]
  /\ late = [c \in Closures |-> IdleClosure]
  /\ trigger = [t \in Triggers |-> "start"]
  /\ del = [d \in Deletes |-> NewDelete]
  /\ faults = 0

\* A fault of this kind may still happen, and is counted.
Fault(kind) == kind \in Faults /\ faults < MaxFaults /\ faults' = faults + 1

-----------------------------------------------------------------------------
(* JobsRepository: the writes that work on the row.  None of the worker's    *)
(* writes looks at deletedAt.                                                *)

\* setStatus(jobId, s): errorMessage is left alone when it is not passed.
setStatus(s) == status' = s /\ UNCHANGED <<transcript, report, pdfKey, errorMessage, deleted>>

\* setStatus(jobId, s, message): message is TRUE for a text, FALSE for null.
setStatusAndError(s, message) ==
  /\ status' = s /\ errorMessage' = message
  /\ UNCHANGED <<transcript, report, pdfKey, deleted>>

saveTranscript == transcript' = TRUE /\ UNCHANGED <<status, report, pdfKey, errorMessage, deleted>>

replaceReport(r) == report' = r /\ UNCHANGED <<status, transcript, pdfKey, errorMessage, deleted>>

setPdfReady ==
  /\ status' = "READY" /\ pdfKey' = TRUE /\ errorMessage' = FALSE
  /\ UNCHANGED <<transcript, report, deleted>>

softDelete == deleted' = TRUE /\ UNCHANGED <<status, transcript, report, pdfKey, errorMessage>>

=============================================================================
