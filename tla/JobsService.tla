----------------------------- MODULE JobsService -----------------------------
(***************************************************************************)
(* The API operations that change a job: POST process (up to its call of   *)
(* enqueueProcessing), PATCH, DELETE and the client's upload through the   *)
(* presigned URL; and what GET /pdf serves.                                *)
(***************************************************************************)
EXTENDS JobState

\* requireOwned and the two early returns of process(): the statuses from which
\* a trigger goes on.
Triggerable == ~deleted /\ status # "READY" /\ status \notin IN_FLIGHT

ProcessRead(t) ==
  /\ trigger[t] = "start" /\ Triggerable
  /\ trigger' = [trigger EXCEPT ![t] = "head"]
  /\ UNCHANGED <<row, bucket, redis, worker, del, faults>>

\* objectExists: without the audio the request is a 400.
ProcessHead(t) ==
  /\ trigger[t] = "head"
  /\ trigger' = [trigger EXCEPT ![t] = IF audio THEN "setQueued" ELSE "done"]
  /\ UNCHANGED <<row, bucket, redis, worker, del, faults>>

\* setStatus(QUEUED, null), then enqueueProcessing.
ProcessSetQueued(t) ==
  /\ trigger[t] = "setQueued"
  /\ setStatusAndError("QUEUED", FALSE)
  /\ trigger' = [trigger EXCEPT ![t] = "getJob"]
  /\ UNCHANGED <<bucket, redis, worker, del, faults>>

\* A call of the request throws (a 500) or the API process ends.
LoseTrigger(t) ==
  /\ trigger[t] \notin {"start", "done"}
  /\ Fault("apiloss")
  /\ trigger' = [trigger EXCEPT ![t] = "done"]
  /\ UNCHANGED <<row, bucket, redis, worker, del>>

\* PATCH with sections: the transaction checks ownership again, so the request
\* is one step.
Update(r) ==
  /\ ~deleted
  /\ replaceReport(r)
  /\ UNCHANGED <<bucket, redis, worker, api, faults>>

\* DELETE: requireOwned; the keys to delete are those of this row.
DeleteRead(d) ==
  /\ del[d].pc = "start" /\ ~deleted
  /\ del' = [del EXCEPT ![d] = [pc |-> "soft", pdfKey |-> pdfKey]]
  /\ UNCHANGED <<row, bucket, redis, worker, trigger, faults>>

\* softDeleteScoped: count = 0 (another request deleted the job) is a 404.
DeleteSoft(d) ==
  /\ del[d].pc = "soft"
  /\ \/ deleted /\ UNCHANGED row /\ del' = [del EXCEPT ![d] = DoneDelete]
     \/ ~deleted /\ softDelete /\ del' = [del EXCEPT ![d].pc = "objects"]
  /\ UNCHANGED <<bucket, redis, worker, trigger, faults>>

\* deleteObjects; a failure is logged and the request still succeeds.
DeleteObjects(d) ==
  /\ del[d].pc = "objects"
  /\ \/ /\ audio' = FALSE
        /\ pdf' = IF del[d].pdfKey THEN NoPdf ELSE pdf
     \/ "cleanup" \in Faults /\ UNCHANGED bucket
  /\ del' = [del EXCEPT ![d] = DoneDelete]
  /\ UNCHANGED <<row, redis, worker, trigger, faults>>

\* The client PUTs the recording; the URL outlives a deletion of the job.
Upload ==
  /\ ~audio
  /\ audio' = TRUE
  /\ UNCHANGED <<row, pdf, redis, worker, api, faults>>

\* getPdfUrl answers with a URL rather than 404 or 409.
PdfServed == ~deleted /\ status = "READY" /\ pdfKey

=============================================================================
