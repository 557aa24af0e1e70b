------------------------------- MODULE JobSync -------------------------------
(***************************************************************************)
(* The app's side of one job: JobSyncService drives its recording from the *)
(* disk to a report and keeps the local copy (JobStore) in step with the   *)
(* server.  Tasks run on the main actor and interleave at their awaits;    *)
(* every call may fail, before or after the server did what it asked; the  *)
(* app may be killed, while a transfer handed to the background session    *)
(* goes on.  The server is what JobsService and the pipeline make of it,   *)
(* with its stages in one.  Clocks agree; time is the order of the stamps. *)
(***************************************************************************)
EXTENDS Naturals

CONSTANTS
  Slots,        \* tasks that may be under way at one time
  MaxPolls,     \* maxPollAttempts: 60
  MaxRequests,  \* bound: what the user asks for, the report included
  MaxMishaps    \* bound: calls and transfers that fail, and times the app is killed

ASSUME SyncAssumption ==
  /\ MaxPolls \in Nat \ {0}
  /\ {MaxRequests, MaxMishaps} \subseteq Nat

VARIABLES
  server,    \* the job as the server has it
  local,     \* the job in the store
  file,      \* whether the recording is on the disk
  url,       \* the presigned URL: none, valid or expired
  active,    \* whether activeJobIds has the job
  session,   \* whether this process made the background session
  task,      \* tasks of the service
  transfer,  \* background uploads that a task awaits
  orphan,    \* background uploads that killed processes began: after how many restarts, in which slot
  edit,      \* the last edit: its number and its stamp
  clock,     \* the last stamp
  count      \* of what happens a bounded number of times; whether the list was loaded at this launch

vars == <<server, local, file, url, active, session, task, transfer, orphan, edit, clock, count>>

Orphans == [from: 0..MaxMishaps, slot: Slots, state: {"running", "ok"}]

Terminal(status) == status \in {"READY", "FAILED"}

\* A report's content: none, what was compiled, or the number of an edit.
Empty == 0
Compiled == MaxRequests + 1

NoJob == [here |-> FALSE]

NoTask == [pc |-> "none"]
Starting(kind) == [pc |-> "start", kind |-> kind]
Asking(kind, call, n) == [pc |-> "ask", kind |-> kind, call |-> call, n |-> n]

Answering(t, reply) == [pc |-> "answer", kind |-> t.kind, call |-> t.call, n |-> t.n, reply |-> reply]

Free(s) == task[s] = NoTask

Set(s, t) == task' = [task EXCEPT ![s] = t]

-----------------------------------------------------------------------------
(* JobStore.                                                                *)

\* Mutant: every answer of the server is adopted whole.
LocalNeverWins(dto) == FALSE

LocalWins(dto) == local.dirty /\ local.updatedAt > dto.updatedAt

\* upsert: the status always, the rest unless an unpushed edit is newer.
Upsert(dto) ==
  IF ~local.here
  THEN [here |-> TRUE, status |-> dto.status, content |-> dto.content,
        updatedAt |-> dto.updatedAt, dirty |-> FALSE, pending |-> FALSE]
  ELSE IF LocalWins(dto)
  THEN [local EXCEPT !.status = dto.status]
  ELSE [local EXCEPT !.status = dto.status, !.content = dto.content,
                     !.updatedAt = dto.updatedAt, !.dirty = FALSE]

MarkUploaded == local' = IF local.here THEN [local EXCEPT !.pending = FALSE] ELSE local

-----------------------------------------------------------------------------
(* The server: a call either has its effect, or is refused.                 *)

Stamped(row) == [row EXCEPT !.updatedAt = clock + 1]

Queues(call) == call = "process" /\ server.status \in {"DRAFT", "FAILED"}

Refused(call) ==
  \/ call \notin {"create", "list"} /\ ~server.here
  \/ Queues(call) /\ ~server.audio

Served(call, n) ==
  CASE call = "create" -> Stamped([server EXCEPT !.here = TRUE])
    [] Queues(call) -> Stamped([server EXCEPT !.status = "QUEUED"])
    [] call = "patch" -> Stamped([server EXCEPT !.content = n])
    [] call = "delete" -> [server EXCEPT !.here = FALSE, !.audio = FALSE]
    [] OTHER -> server

Reply(row) ==
  [here |-> row.here, status |-> row.status, content |-> row.content, updatedAt |-> row.updatedAt]

\* The pipeline ends; a report that is there is not compiled again.
ServerSettles ==
  /\ server.here /\ server.status = "QUEUED"
  /\ \/ server' = Stamped([server EXCEPT !.status = "READY",
                             !.content = IF @ = Empty THEN Compiled ELSE @])
     \/ server' = Stamped([server EXCEPT !.status = "FAILED"])
  /\ clock' = clock + 1
  /\ UNCHANGED <<local, file, url, active, session, task, transfer, orphan, edit, count>>

-----------------------------------------------------------------------------
Init ==
  /\ server = [here |-> FALSE, status |-> "DRAFT", content |-> Empty, updatedAt |-> 0, audio |-> FALSE]
  /\ local = NoJob
  /\ file = TRUE /\ url = "none"
  /\ active = FALSE /\ session = FALSE
  /\ task = [s \in Slots |-> NoTask]
  /\ transfer = [s \in Slots |-> "none"]
  /\ orphan = {}
  /\ edit = [number |-> 0, stamp |-> 0]
  /\ clock = 0
  /\ count = [faults |-> 0, restarts |-> 0, requests |-> 0, launched |-> FALSE]

Mishap == count.faults + count.restarts < MaxMishaps

\* A call or a transfer fails, or the answer is lost.
Fault == Mishap /\ count' = [count EXCEPT !.faults = @ + 1]

Request ==
  /\ count.requests < MaxRequests
  /\ count' = [count EXCEPT !.requests = @ + 1]

Begin(s, t) ==
  /\ Free(s) /\ Set(s, t)
  /\ UNCHANGED <<server, file, url, active, session, transfer, orphan>>

\* poll: unless the job is already being driven.
Poll(s) ==
  /\ active' = TRUE
  /\ Set(s, IF active THEN NoTask ELSE Asking("poll", "get", MaxPolls))

\* startReport, when the recording was stopped.
StartReport(s) ==
  /\ count.requests = 0 /\ Request
  /\ Begin(s, Asking("start", "create", 0))
  /\ UNCHANGED <<local, edit, clock>>

\* refresh, when the list of jobs is first shown, and when it is pulled.
Refresh(s) ==
  /\ IF count.launched THEN count.requests > 0 /\ Request
                       ELSE count' = [count EXCEPT !.launched = TRUE]
  /\ Begin(s, Asking("refresh", "list", 0))
  /\ UNCHANGED <<local, edit, clock>>

\* The report's view appears while it is processed.
Review(s) ==
  /\ local.here /\ local.status = "QUEUED" /\ Request
  /\ Free(s) /\ Poll(s)
  /\ UNCHANGED <<server, local, file, url, session, transfer, orphan, edit, clock>>

\* saveEdits: the edit is stored, and its push begins.
SaveEdits(s) ==
  /\ local.here /\ local.status = "READY" /\ Request
  /\ edit' = [number |-> edit.number + 1, stamp |-> clock + 1]
  /\ clock' = clock + 1
  /\ local' = [local EXCEPT !.content = edit'.number, !.updatedAt = clock', !.dirty = TRUE]
  /\ Begin(s, Asking("save", "patch", edit'.number))

Retry(s) ==
  /\ local.here /\ local.status = "FAILED" /\ Request
  /\ Begin(s, Asking("retry", "process", 0))
  /\ UNCHANGED <<local, edit, clock>>

Delete(s) ==
  /\ local.here /\ Request
  /\ Begin(s, Asking("delete", "delete", 0))
  /\ UNCHANGED <<local, edit, clock>>

-----------------------------------------------------------------------------
(* A task's first step on the main actor.                                   *)

StartDrive(s) ==
  /\ task[s] = Starting("drive")
  /\ active' = TRUE /\ session' = TRUE
  /\ transfer' = [transfer EXCEPT ![s] = IF file /\ url = "valid" THEN "running" ELSE "failed"]
  /\ Set(s, [pc |-> "uploading", kind |-> "drive"])
  /\ UNCHANGED <<server, local, file, url, orphan, edit, clock, count>>

StartPoll(s) ==
  /\ task[s] = Starting("poll") /\ Poll(s)
  /\ UNCHANGED <<server, local, file, url, session, transfer, orphan, edit, clock, count>>

\* onUploadFinished: the audio file is left where it is.
StartReconcile(s) ==
  /\ task[s] = Starting("reconcile")
  /\ MarkUploaded
  /\ Set(s, Asking("reconcile", "process", 0))
  /\ UNCHANGED <<server, file, url, active, session, transfer, orphan, edit, clock, count>>

-----------------------------------------------------------------------------
(* Uploads.                                                                 *)

\* The system's PUT ends.  Storage looks at the signature when the request begins,
\* at once or later than the transfer: an upload may outlast its URL or be refused.
Put(after) ==
  /\ \/ /\ after = "ok"
        /\ server' = [server EXCEPT !.audio = TRUE]
        /\ UNCHANGED count
     \/ /\ after = "failed"
        /\ (url = "expired" /\ UNCHANGED count) \/ Fault
        /\ UNCHANGED server
  /\ UNCHANGED <<local, file, url, active, session, task, edit, clock>>

TransferEnds(s) ==
  \E after \in {"ok", "failed"} :
    /\ Put(after)
    /\ \/ /\ transfer[s] = "running" /\ UNCHANGED orphan
          /\ transfer' = [transfer EXCEPT ![s] = after]
       \/ \E o \in orphan :
            /\ o.slot = s /\ o.state = "running" /\ UNCHANGED transfer
            /\ orphan' = IF after = "ok" THEN (orphan \ {o}) \cup {[o EXCEPT !.state = "ok"]} ELSE orphan \ {o}

\* Mutant: the recording is removed however its upload ended.
CleanedUpAlways(s) == file' = FALSE

\* cleanupAudio, after the upload.
CleanedUp(s) == file' = (file /\ transfer[s] # "ok")

\* didCompleteWithError: the awaiting drive goes on, or its failure ends it.
UploadReturns(s) ==
  /\ transfer[s] \in {"ok", "failed"} /\ task[s].pc = "uploading"
  /\ transfer' = [transfer EXCEPT ![s] = "none"]
  /\ CleanedUp(s)
  /\ IF transfer[s] = "ok"
     THEN MarkUploaded /\ Set(s, Asking("drive", "process", 0)) /\ UNCHANGED active
     ELSE active' = FALSE /\ Set(s, NoTask) /\ UNCHANGED local
  /\ UNCHANGED <<server, url, session, orphan, edit, clock, count>>

\* Nobody awaits it: the callback, which does nothing for a failure.  A process
\* hears of it once it has made the session.
OrphanReturns(s) ==
  /\ session /\ Free(s)
  /\ \E o \in orphan : o.state = "ok" /\ orphan' = orphan \ {o}
  /\ Set(s, Starting("reconcile"))
  /\ UNCHANGED <<server, local, file, url, active, session, transfer, edit, clock, count>>

\* presignTtl ends, while the URL may still be used.
Expire ==
  /\ url = "valid" /\ url' = "expired"
  /\ \/ local.here /\ local.pending
     \/ \E s \in Slots : transfer[s] = "running"
     \/ \E o \in orphan : o.state = "running"
  /\ UNCHANGED <<server, local, file, active, session, task, transfer, orphan, edit, clock, count>>

-----------------------------------------------------------------------------
(* Calls.                                                                   *)

\* The server has the request.
Ask(s) ==
  LET t == task[s] IN
  /\ t.pc = "ask" /\ ~Refused(t.call)
  /\ server' = Served(t.call, t.n)
  /\ clock' = IF server'.updatedAt > clock THEN server'.updatedAt ELSE clock
  /\ Set(s, Answering(t, Reply(server')))
  /\ UNCHANGED <<local, file, url, active, session, transfer, orphan, edit, count>>

\* Mutant: the drive keeps its claim of the job when a call of it fails.
HoldsUnlessDrive(t) == t.call = "get" /\ t.kind # "drive"

\* Whether the task has the job in activeJobIds: a drive, and who polls.
Holds(t) == t.kind = "drive" \/ t.call = "get"

Ends(s) == Set(s, NoTask) /\ active' = (active /\ ~Holds(task[s]))

\* pollUntilTerminal: after an attempt, another.
PollsOn(s) ==
  IF task[s].n > 1
  THEN Set(s, Asking(task[s].kind, "get", task[s].n - 1)) /\ UNCHANGED active
  ELSE Ends(s)

\* The call is refused, does not arrive, or its answer is lost: the error is
\* shown, and only polling goes on.
CallFails(s) ==
  /\ \/ task[s].pc = "ask" /\ Refused(task[s].call) /\ UNCHANGED count
     \/ task[s].pc \in {"ask", "answer"} /\ Fault
  /\ IF task[s].call = "get" THEN PollsOn(s) ELSE Ends(s)
  /\ UNCHANGED <<server, local, file, url, session, transfer, orphan, edit, clock>>

\* Mutant: only the processing is followed up, never an upload.
ResumedPollsOnly(job) ==
  IF job.here /\ ~active /\ job.status = "QUEUED" THEN Starting("poll") ELSE NoTask

\* resumeInFlight.
Resumed(job) ==
  IF active \/ ~job.here THEN NoTask
  ELSE IF job.pending /\ file /\ url = "valid" THEN Starting("drive")
  ELSE IF job.status = "QUEUED" THEN Starting("poll")
  ELSE NoTask

CreateAnswered(s) ==
  /\ task[s].call = "create"
  /\ local' = [Upsert(task[s].reply) EXCEPT !.pending = TRUE]
  /\ url' = "valid"
  /\ Set(s, Starting("drive"))
  /\ UNCHANGED active

ListAnswered(s) ==
  /\ task[s].call = "list"
  /\ local' = IF task[s].reply.here THEN Upsert(task[s].reply) ELSE local
  /\ Set(s, Resumed(local'))
  /\ UNCHANGED <<url, active>>

ProcessAnswered(s) ==
  /\ task[s].call = "process"
  /\ local' = Upsert(task[s].reply)
  /\ IF task[s].kind = "drive"
     THEN Set(s, Asking("drive", "get", MaxPolls)) /\ UNCHANGED active
     ELSE Poll(s)
  /\ UNCHANGED url

GetAnswered(s) ==
  /\ task[s].call = "get"
  /\ local' = Upsert(task[s].reply)
  /\ IF Terminal(task[s].reply.status) THEN Ends(s) ELSE PollsOn(s)
  /\ UNCHANGED url

PatchAnswered(s) ==
  /\ task[s].call = "patch"
  /\ local' = Upsert(task[s].reply)
  /\ Ends(s)
  /\ UNCHANGED url

DeleteAnswered(s) ==
  /\ task[s].call = "delete"
  /\ local' = NoJob
  /\ Ends(s)
  /\ UNCHANGED url

Answered(s) ==
  /\ task[s].pc = "answer"
  /\ \/ CreateAnswered(s) \/ ListAnswered(s) \/ ProcessAnswered(s)
     \/ GetAnswered(s) \/ PatchAnswered(s) \/ DeleteAnswered(s)
  /\ UNCHANGED <<server, file, session, transfer, orphan, edit, clock, count>>

\* The app is killed and started again; the system goes on with its transfers.
Restart ==
  /\ Mishap
  /\ count' = [count EXCEPT !.restarts = @ + 1, !.launched = FALSE]
  /\ task' = [s \in Slots |-> NoTask]
  /\ orphan' = orphan \cup {o \in Orphans : o.from = count.restarts /\ o.state = transfer[o.slot]}
  /\ transfer' = [s \in Slots |-> "none"]
  /\ active' = FALSE /\ session' = FALSE
  /\ UNCHANGED <<server, local, file, url, edit, clock>>

-----------------------------------------------------------------------------
User(s) == StartReport(s) \/ Refresh(s) \/ Review(s) \/ SaveEdits(s) \/ Retry(s) \/ Delete(s)

Step(s) ==
  \/ StartDrive(s) \/ StartPoll(s) \/ StartReconcile(s)
  \/ UploadReturns(s) \/ OrphanReturns(s)
  \/ Ask(s) \/ CallFails(s) \/ Answered(s)

Next ==
  \/ ServerSettles \/ Expire \/ Restart
  \/ \E s \in Slots : User(s) \/ Step(s) \/ TransferEnds(s)

Spec == Init /\ [][Next]_vars

\* The list of jobs loads when it is first shown; tasks go on, and calls and transfers
\* end, if only with a time-out.  The user need do nothing.
LaunchRefresh == ~count.launched /\ \E s \in Slots : Refresh(s)

FairSpec ==
  /\ Spec /\ WF_vars(LaunchRefresh)
  /\ \A s \in Slots : WF_vars(Step(s)) /\ WF_vars(TransferEnds(s))

-----------------------------------------------------------------------------
(* Properties.                                                              *)

\* A recording that was registered is on the disk or on the server until the
\* job is deleted, and one that is yet to be uploaded is on the disk: whatever
\* fails or ends in between, cleanupAudio takes nothing that is still needed.
RecordingKept ==
  /\ (url # "none" /\ server.here) => (file \/ server.audio)
  /\ (local.here /\ local.pending) => file

\* A saved edit stays in the store, marked as unpushed, for as long as the
\* server's copy is older: no answer read before, whichever call it belongs to
\* and whenever it arrives, and no failed push takes it away ("On failure the
\* local dirty copy is retained for a later push").
EditKept ==
  (local.here /\ server.here /\ edit.number > 0 /\ server.updatedAt < edit.stamp) =>
    local.dirty /\ local.content = edit.number

\* A job that is shown as being worked on is not forever: every drive and poll
\* gives it up, whether the server answers, fails, or never finishes.
SpinnerStops == active ~> ~active

\* "reconciles interrupted uploads at launch": when the app is killed before an
\* upload was seen to end, the job is nevertheless queued, unless its URL
\* expires first, a call fails again, or the user deletes it.
InterruptedUploadResumes ==
  (count.restarts = MaxMishaps /\ local.here /\ local.pending) ~>
    (server.status # "DRAFT" \/ url = "expired" \/ ~server.here)

-----------------------------------------------------------------------------
(* The inductive invariant behind the proofs.                               *)

Statuses == {"DRAFT", "QUEUED", "READY", "FAILED"}
Kinds == {"start", "refresh", "poll", "save", "retry", "delete", "drive", "reconcile"}
CallNames == {"create", "list", "get", "process", "patch", "delete"}
Replies == [here: BOOLEAN, status: Statuses, content: Nat, updatedAt: Nat]
Rows == [here: BOOLEAN, status: Statuses, content: Nat, updatedAt: Nat, audio: BOOLEAN]
Copies == [here: {TRUE}, status: Statuses, content: Nat, updatedAt: Nat, dirty: BOOLEAN, pending: BOOLEAN]
Tasks ==
  {NoTask} \cup [pc: {"start"}, kind: Kinds] \cup [pc: {"uploading"}, kind: {"drive"}]
    \cup [pc: {"ask"}, kind: Kinds, call: CallNames, n: Nat]
    \cup [pc: {"answer"}, kind: Kinds, call: CallNames, n: Nat, reply: Replies]

\* Every part of the state has its shape.
TypeOK ==
  /\ server \in Rows /\ local \in {NoJob} \cup Copies
  /\ file \in BOOLEAN /\ url \in {"none", "valid", "expired"}
  /\ active \in BOOLEAN /\ session \in BOOLEAN
  /\ task \in [Slots -> Tasks]
  /\ transfer \in [Slots -> {"none", "running", "ok", "failed"}]
  /\ orphan \subseteq Orphans
  /\ edit \in [number: Nat, stamp: Nat] /\ clock \in Nat
  /\ count \in [faults: Nat, restarts: Nat, requests: Nat, launched: BOOLEAN]

Calls(t, call) == t.pc \in {"ask", "answer"} /\ t.call = call

\* The job is created once, and its URL is stored when that is answered.
CreateInv ==
  /\ \A s, u \in Slots : Calls(task[s], "create") /\ Calls(task[u], "create") => s = u
  /\ \A s \in Slots : Calls(task[s], "create") => url = "none" /\ count.requests > 0

\* Until the server has the job, nothing is known of it.
UnbornInv ==
  (count.requests = 0 \/ \E s \in Slots : task[s].pc = "ask" /\ task[s].call = "create") =>
    /\ ~server.here /\ local = NoJob /\ edit.number = 0 /\ url = "none"
    /\ \A s \in Slots :
         \/ task[s] = NoTask \/ Calls(task[s], "create")
         \/ Calls(task[s], "list") /\ (task[s].pc = "answer" => ~task[s].reply.here)

\* Until its URL is stored, nothing is uploaded.
EarlyInv ==
  url = "none" =>
    /\ file /\ (local.here => ~local.pending) /\ orphan = {}
    /\ \A s \in Slots :
         /\ transfer[s] = "none"
         /\ task[s] # NoTask => task[s].kind \notin {"drive", "reconcile"}

\* An answer is no newer than the server, and of an edit that is newer than the
\* server the store has the copy.
StampInv ==
  /\ server.updatedAt <= clock /\ edit.stamp <= clock
  /\ \A s \in Slots : task[s].pc = "answer" =>
       /\ task[s].reply.updatedAt <= server.updatedAt
       /\ task[s].call = "delete" => ~server.here
  /\ (server.here /\ edit.number > 0 /\ server.updatedAt < edit.stamp) =>
       /\ local.here /\ local.dirty
       /\ local.content = edit.number /\ local.updatedAt = edit.stamp

\* What was uploaded is there for as long as the job is.
UploadInv ==
  /\ RecordingKept
  /\ \A s \in Slots : transfer[s] = "ok" => server.audio \/ ~server.here

SyncInv == CreateInv /\ UnbornInv /\ EarlyInv /\ StampInv /\ UploadInv

=============================================================================
