--------------------------- MODULE ProcessingQueue ---------------------------
(***************************************************************************)
(* The BullMQ entry that carries the job's id: the producer's              *)
(* enqueueProcessing, one action per Redis call, and the library's life of *)
(* an entry (taken under a lock, settled, delayed for its backoff,         *)
(* recovered when its lock expires), as bullmq 5.78 offers it.             *)
(***************************************************************************)
EXTENDS JobState

\* const existing = await queue.getJob(jobId)
GetJob(t) ==
  /\ trigger[t] = "getJob"
  /\ trigger' = [trigger EXCEPT ![t] = IF queue.state = "none" THEN "add" ELSE "getState"]
  /\ UNCHANGED <<row, bucket, redis, worker, del, faults>>

\* The states of an existing entry that make way for a new one.
Clearable(state) == state \in {"completed", "failed"}

\* An entry in any other state (or gone since getJob: 'unknown') ends the call.
GetState(t) ==
  /\ trigger[t] = "getState"
  /\ trigger' = [trigger EXCEPT ![t] = IF Clearable(queue.state) THEN "remove" ELSE "done"]
  /\ UNCHANGED <<row, bucket, redis, worker, del, faults>>

\* Mutant: an entry that a worker has locked is removed all the same.
LockIgnored == FALSE

\* existing.remove() refuses an entry that a worker has locked.
Locked == queue.state = "active" /\ queue.lock # NoInvocation

Remove(t) ==
  /\ trigger[t] = "remove"
  /\ \/ /\ Locked
        /\ trigger' = [trigger EXCEPT ![t] = "done"]
        /\ UNCHANGED queue
     \/ /\ ~Locked
        /\ queue' = NoEntry
        /\ trigger' = [trigger EXCEPT ![t] = "add"]
  /\ UNCHANGED <<row, bucket, dlq, worker, del, faults>>

\* queue.add with a job id that exists is ignored by BullMQ.
Add(t) ==
  /\ trigger[t] = "add"
  /\ queue' = IF queue.state = "none" THEN [NoEntry EXCEPT !.state = "waiting"] ELSE queue
  /\ trigger' = [trigger EXCEPT ![t] = "done"]
  /\ UNCHANGED <<row, bucket, dlq, worker, del, faults>>

-----------------------------------------------------------------------------
(* The library's side.                                                      *)

\* A free invocation takes the waiting entry; one that has stalled too often
\* is failed as unrecoverable without calling the processor.
Take(i) ==
  /\ queue.state = "waiting" /\ inv[i].pc = "idle"
  /\ queue' = [queue EXCEPT !.state = "active", !.lock = i]
  /\ inv' = [inv EXCEPT ![i] =
               IF queue.stalled > MaxStalled
               THEN [IdleInvocation EXCEPT !.pc = "settle", !.outcome = "permanent"]
               ELSE [IdleInvocation EXCEPT !.pc = "load"]]
  /\ UNCHANGED <<row, bucket, dlq, late, api, faults>>

\* Mutant: one attempt too many.
ExhaustedLate(outcome) == outcome = "permanent" \/ queue.attemptsMade >= MaxAttempts

\* BullMQ does not retry: the error is unrecoverable, or the attempt that is
\* ending is the last of the entry's options.
Exhausted(outcome) == outcome = "permanent" \/ queue.attemptsMade + 1 >= MaxAttempts

\* Mutant: handleFailure waits for an attempt more than BullMQ grants.
TerminalLate(outcome, attemptsMade) == outcome = "permanent" \/ attemptsMade > MaxAttempts

\* handleFailure's own test, of the entry with the failed attempt counted.
Terminal(outcome, attemptsMade) == outcome = "permanent" \/ attemptsMade >= MaxAttempts

\* The processor returned or threw.  Without the lock the result is dropped;
\* otherwise the entry moves, and after every failure 'failed' is emitted:
\* handleFailure returns at once unless it takes the failure to be terminal.
Settle(i) ==
  LET outcome == inv[i].outcome IN
  /\ inv[i].pc = "settle"
  /\ \/ /\ queue.lock # i
        /\ inv' = [inv EXCEPT ![i] = IdleInvocation]
        /\ UNCHANGED queue
     \/ /\ queue.lock = i /\ outcome = "ok"
        /\ queue' = [queue EXCEPT !.state = "completed", !.lock = NoInvocation]
        /\ inv' = [inv EXCEPT ![i] = IdleInvocation]
     \/ /\ queue.lock = i /\ outcome # "ok"
        /\ queue' = [queue EXCEPT !.state = IF Exhausted(outcome) THEN "failed" ELSE "delayed",
                                  !.lock = NoInvocation, !.attemptsMade = @ + 1]
        /\ inv' = [inv EXCEPT ![i] = IF Terminal(outcome, queue.attemptsMade + 1)
                                     THEN [IdleInvocation EXCEPT !.pc = "failRead"]
                                     ELSE IdleInvocation]
  /\ UNCHANGED <<row, bucket, dlq, late, api, faults>>

\* The backoff of a failed attempt has passed.
Promote ==
  /\ queue.state = "delayed"
  /\ queue' = [queue EXCEPT !.state = "waiting"]
  /\ UNCHANGED <<row, bucket, dlq, worker, api, faults>>

\* The lock of an active entry has expired: it goes back to the queue.
Stall ==
  /\ queue.state = "active" /\ queue.lock = NoInvocation
  /\ queue' = [queue EXCEPT !.state = "waiting", !.stalled = @ + 1]
  /\ UNCHANGED <<row, bucket, dlq, worker, api, faults>>

\* removeOnComplete drops a completed entry after a day.
Evict ==
  /\ queue.state = "completed"
  /\ queue' = NoEntry
  /\ UNCHANGED <<row, bucket, dlq, worker, api, faults>>

\* The entry's lock if its holder i stops renewing it.
Unlock(i) == IF queue.lock = i THEN [queue EXCEPT !.lock = NoInvocation] ELSE queue

\* The worker cannot renew its lock (blocked event loop, Redis outage) while
\* the invocation goes on.
LoseLock(i) ==
  /\ queue.lock = i
  /\ Fault("lockloss")
  /\ queue' = Unlock(i)
  /\ UNCHANGED <<row, bucket, dlq, worker, api>>

\* The worker process dies while it runs the invocation.
Crash(i) ==
  /\ inv[i].pc \notin {"idle", "failRead", "failSet", "failDlq"}
  /\ Fault("crash")
  /\ inv' = [inv EXCEPT ![i] = IdleInvocation]
  /\ queue' = Unlock(i)
  /\ UNCHANGED <<row, bucket, dlq, late, api>>

=============================================================================
