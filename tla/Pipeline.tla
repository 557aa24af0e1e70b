------------------------------ MODULE Pipeline ------------------------------
(***************************************************************************)
(* PipelineService.process and ProcessingProcessor.handleFailure, one      *)
(* action per await that other code can interleave with.  An insert into   *)
(* ProcessingEvent is merged with the write before it: nothing reads those *)
(* rows, so only its failure matters.  Any query or call may throw.        *)
(***************************************************************************)
EXTENDS JobState

\* The invocation ends; the processor's promise settles with this outcome.
Settling(i, outcome) ==
  [inv EXCEPT ![i] = [IdleInvocation EXCEPT !.pc = "settle", !.outcome = outcome]]

\* A transient error leaves process() with the status as it is.
Throw(i) == inv' = Settling(i, "transient")

\* The stage that runs after the transcript is known: compileStage reuses the
\* sections that process() loaded.
CompileOrRender(existing) == IF existing = Empty THEN "compile" ELSE "render"

\* Mutant: a report that is already there makes the transcript unnecessary.
FirstStageByReport(hasTranscript, existing) ==
  IF hasTranscript \/ existing # Empty THEN CompileOrRender(existing) ELSE "transcribe"

\* Mutant: the transcript that is already there is not reused.
FirstStageAlways(hasTranscript, existing) == "transcribe"

\* transcribeStage reuses the transcript that process() loaded.
FirstStage(hasTranscript, existing) ==
  IF hasTranscript THEN CompileOrRender(existing) ELSE "transcribe"

Entering(i, stage) == [inv[i] EXCEPT !.pc = "stage", !.stage = stage]

\* Mutant: a job that is READY is processed again.
NothingToDoUnlessDeleted == deleted

\* The checks process() makes on the row it loaded before it does any work.
NothingToDo == deleted \/ status = "READY"

\* findById and the early returns of process().
Load(i) ==
  /\ inv[i].pc = "load"
  /\ \/ Throw(i)
     \/ /\ NothingToDo
        /\ inv' = Settling(i, "ok")
     \/ /\ ~NothingToDo
        /\ inv' = [inv EXCEPT ![i] = [Entering(i, FirstStage(transcript, report)) EXCEPT !.report = report]]
  /\ UNCHANGED <<row, bucket, redis, late, api, faults>>

StageStatus(stage) ==
  CASE stage = "transcribe" -> "TRANSCRIBING"
    [] stage = "compile"    -> "COMPILING"
    [] stage = "render"     -> "RENDERING"

\* runStage: status transition and 'started' event, both outside its try.
StageStart(i) ==
  /\ inv[i].pc = "stage"
  /\ \/ Throw(i) /\ UNCHANGED row
     \/ /\ setStatus(StageStatus(inv[i].stage))
        /\ \/ inv' = [inv EXCEPT ![i].pc = "call"]
           \/ Throw(i)
  /\ UNCHANGED <<bucket, redis, late, api, faults>>

-----------------------------------------------------------------------------
(* The body of a stage: a slow external call, then its writes.  The same    *)
(* body runs inside an invocation and, after a timeout, on its own.         *)

\* Mutant: READY is written before the PDF is uploaded.
AfterCallUnput(stage) == "save"

\* Where a stage body goes once its external call returned.
AfterCall(stage) == IF stage = "render" THEN "put" ELSE "save"

\* The sections the call leaves in memory: the compiler may return none at all.
CallResults(x) == IF x.stage = "compile" THEN Contents ELSE {x.report}

\* Transcription needs the audio object.
CallSucceeds(stage) == stage = "transcribe" => audio

\* The write that ends a stage body.
StageWrite(x) ==
  \/ x.stage = "transcribe" /\ saveTranscript
  \/ x.stage = "compile" /\ replaceReport(x.report)
  \/ x.stage = "render" /\ setPdfReady

\* getObjectStream + transcribe, compile, or pdf.render.  An empty transcript
\* and a report that is malformed twice are permanent errors.
Call(i) ==
  /\ inv[i].pc = "call"
  /\ \/ Throw(i)
     \/ /\ inv[i].stage # "render" /\ CallSucceeds(inv[i].stage)
        /\ inv' = [inv EXCEPT ![i].pc = "markRead"]
     \/ /\ CallSucceeds(inv[i].stage)
        /\ \E r \in CallResults(inv[i]) :
             inv' = [inv EXCEPT ![i].pc = AfterCall(inv[i].stage), ![i].report = r]
  /\ UNCHANGED <<row, bucket, redis, late, api, faults>>

\* media.putObject(pdfKey, pdf)
Put(i) ==
  /\ inv[i].pc = "put"
  /\ \/ Throw(i) /\ UNCHANGED pdf
     \/ /\ pdf' = inv[i].report
        /\ inv' = [inv EXCEPT ![i].pc = "save"]
  /\ UNCHANGED <<row, audio, redis, late, api, faults>>

\* Mutant: the renderer is given the sections process() loaded, not the compiled ones.
AfterStageStale(i) ==
  CASE inv[i].stage = "transcribe" ->
         [inv EXCEPT ![i] = Entering(i, CompileOrRender(inv[i].report))]
    [] inv[i].stage = "compile" -> [inv EXCEPT ![i] = [Entering(i, "render") EXCEPT !.report = Empty]]
    [] inv[i].stage = "render"  -> Settling(i, "ok")

\* Mutant: the next stage is chosen by the transcript that process() loaded, not
\* by the one just saved.
AfterStageRepeats(i) ==
  CASE inv[i].stage = "transcribe" ->
         [inv EXCEPT ![i] = Entering(i, FirstStage(FALSE, inv[i].report))]
    [] inv[i].stage = "compile" -> [inv EXCEPT ![i] = Entering(i, "render")]
    [] inv[i].stage = "render"  -> Settling(i, "ok")

\* What process() does after a stage completed.
AfterStage(i) ==
  CASE inv[i].stage = "transcribe" ->
         [inv EXCEPT ![i] = Entering(i, CompileOrRender(inv[i].report))]
    [] inv[i].stage = "compile" -> [inv EXCEPT ![i] = Entering(i, "render")]
    [] inv[i].stage = "render"  -> Settling(i, "ok")

\* The stage's write and its 'completed' event; the event may fail after the
\* write is committed, and then the stage has failed.
Save(i) ==
  /\ inv[i].pc = "save"
  /\ \/ Throw(i) /\ UNCHANGED row
     \/ StageWrite(inv[i]) /\ (inv' = AfterStage(i) \/ Throw(i))
  /\ UNCHANGED <<bucket, redis, late, api, faults>>

\* withTimeout rejects; the stage body is not cancelled.
Timeout(i, c) ==
  /\ "timeout" \in Faults
  /\ inv[i].pc \in {"call", "put", "save"} /\ late[c].pc = "idle"
  /\ late' = [late EXCEPT ![c] = [pc |-> inv[i].pc, stage |-> inv[i].stage, report |-> inv[i].report]]
  /\ Throw(i)
  /\ UNCHANGED <<row, bucket, redis, api, faults>>

-----------------------------------------------------------------------------
(* A stage body that outlived its timeout.                                  *)

LateCall(c) ==
  /\ late[c].pc = "call" /\ CallSucceeds(late[c].stage)
  /\ \E r \in CallResults(late[c]) :
       late' = [late EXCEPT ![c].pc = AfterCall(late[c].stage), ![c].report = r]
  /\ UNCHANGED <<row, bucket, redis, inv, api, faults>>

LatePut(c) ==
  /\ late[c].pc = "put"
  /\ pdf' = late[c].report
  /\ late' = [late EXCEPT ![c].pc = "save"]
  /\ UNCHANGED <<row, audio, redis, inv, api, faults>>

LateSave(c) ==
  /\ late[c].pc = "save"
  /\ StageWrite(late[c])
  /\ late' = [late EXCEPT ![c] = IdleClosure]
  /\ UNCHANGED <<bucket, redis, inv, api, faults>>

\* It throws into a settled promise, or its process ends.
LateEnd(c) ==
  /\ late[c].pc # "idle"
  /\ late' = [late EXCEPT ![c] = IdleClosure]
  /\ UNCHANGED <<row, bucket, redis, inv, api, faults>>

-----------------------------------------------------------------------------
(* markFailed: a read, then a write that relies on it.                      *)

\* rawById found a job that markFailed leaves alone.
AlreadyFailed == status = "FAILED"

\* A permanent error inside process(): markFailed, then UnrecoverableError.
\* When markFailed itself throws, its error is the one BullMQ sees.
MarkRead(i) ==
  /\ inv[i].pc = "markRead"
  /\ \/ Throw(i)
     \/ AlreadyFailed /\ inv' = Settling(i, "permanent")
     \/ ~AlreadyFailed /\ inv' = [inv EXCEPT ![i].pc = "markSet"]
  /\ UNCHANGED <<row, bucket, redis, late, api, faults>>

MarkSet(i) ==
  /\ inv[i].pc = "markSet"
  /\ \/ Throw(i) /\ UNCHANGED row
     \/ setStatusAndError("FAILED", TRUE) /\ Throw(i)
     \/ /\ setStatusAndError("FAILED", TRUE)
        /\ inv' = Settling(i, "permanent")
  /\ UNCHANGED <<bucket, redis, late, api, faults>>

\* Mutant: the handler returns, without the DLQ, when process() marked the job.
FailReadReturns(i) ==
  /\ inv[i].pc = "failRead"
  /\ inv' = [inv EXCEPT ![i] = IF AlreadyFailed THEN IdleInvocation ELSE [@ EXCEPT !.pc = "failSet"]]
  /\ UNCHANGED <<row, bucket, redis, late, api, faults>>

\* handleFailure of a terminal failure: markFailed, then the dead-letter queue.
FailRead(i) ==
  /\ inv[i].pc = "failRead"
  /\ inv' = [inv EXCEPT ![i].pc = IF AlreadyFailed THEN "failDlq" ELSE "failSet"]
  /\ UNCHANGED <<row, bucket, redis, late, api, faults>>

FailSet(i) ==
  /\ inv[i].pc = "failSet"
  /\ setStatusAndError("FAILED", TRUE)
  /\ inv' = [inv EXCEPT ![i].pc = "failDlq"]
  /\ UNCHANGED <<bucket, redis, late, api, faults>>

FailDlq(i) ==
  /\ inv[i].pc = "failDlq"
  /\ dlq' = TRUE
  /\ inv' = [inv EXCEPT ![i] = IdleInvocation]
  /\ UNCHANGED <<row, bucket, queue, late, api, faults>>

\* A query of the handler throws (it is only logged) or the process ends.
LoseHandler(i) ==
  /\ inv[i].pc \in {"failRead", "failSet", "failDlq"}
  /\ Fault("handlerloss")
  /\ inv' = [inv EXCEPT ![i] = IdleInvocation]
  /\ UNCHANGED <<row, bucket, redis, late, api>>

=============================================================================
