---------------------------- MODULE JobSyncProofs ----------------------------
(***************************************************************************)
(* Theorems about JobSync, for any number of tasks, requests and mishaps.  *)
(***************************************************************************)
EXTENDS JobSync, TLAPS

-----------------------------------------------------------------------------
(* What the helpers return.                                                 *)

\* Every value that an action puts into a slot is a task.
LEMMA TaskShapes ==
  /\ NoTask \in Tasks
  /\ \A k \in Kinds : Starting(k) \in Tasks
  /\ [pc |-> "uploading", kind |-> "drive"] \in Tasks
  /\ \A k \in Kinds, c \in CallNames, n \in Nat : Asking(k, c, n) \in Tasks
BY DEF Tasks, Starting, Asking

\* A task that asks or is answered has all its fields.
LEMMA TaskFields ==
  ASSUME TypeOK, NEW s \in Slots
  PROVE  /\ task[s] \in Tasks
         /\ task[s].pc \in {"ask", "answer"} =>
              task[s].kind \in Kinds /\ task[s].call \in CallNames /\ task[s].n \in Nat
         /\ task[s].pc = "answer" => task[s].reply \in Replies
BY DEF TypeOK, Tasks, NoTask

LEMMA SetShape ==
  ASSUME TypeOK, NEW s \in Slots, NEW t \in Tasks, Set(s, t)
  PROVE  /\ task' \in [Slots -> Tasks]
         /\ task'[s] = t /\ \A u \in Slots : u # s => task'[u] = task[u]
BY DEF TypeOK, Set

\* upsert leaves a copy; one that wins keeps its content, its stamp and its mark.
LEMMA UpsertShape ==
  ASSUME TypeOK, NEW d \in Replies
  PROVE  /\ Upsert(d) \in Copies
         /\ Upsert(d).pending <=> (local.here /\ local.pending)
         /\ (local.here /\ LocalWins(d)) =>
              /\ (Upsert(d).dirty <=> local.dirty) /\ Upsert(d).content = local.content
              /\ Upsert(d).updatedAt = local.updatedAt
<1>1. CASE ~local.here
  BY <1>1 DEF Upsert, Replies, Copies
<1>2. CASE local.here
  <2>1. local \in Copies
    BY <1>2 DEF TypeOK, NoJob
  <2>2. CASE LocalWins(d)
    BY <1>2, <2>1, <2>2 DEF Upsert, Replies, Copies
  <2>3. CASE ~LocalWins(d)
    BY <1>2, <2>1, <2>3 DEF Upsert, Replies, Copies
  <2> QED BY <2>2, <2>3
<1> QED BY <1>1, <1>2 DEF TypeOK, NoJob, Copies

LEMMA MarkShape ==
  ASSUME TypeOK, MarkUploaded
  PROVE  /\ local' \in {NoJob} \cup Copies
         /\ local'.here <=> local.here
         /\ local.here => /\ (local'.dirty <=> local.dirty) /\ local'.content = local.content
                          /\ local'.updatedAt = local.updatedAt /\ ~local'.pending
         /\ local = NoJob => local' = NoJob
<1>1. CASE local = NoJob
  BY <1>1 DEF MarkUploaded, NoJob
<1>2. CASE local \in Copies
  BY <1>2 DEF MarkUploaded, NoJob, Copies
<1> QED BY <1>1, <1>2 DEF TypeOK

\* What the server makes of a call: it is stamped anew, or as it was, or gone.
LEMMA ServedShape ==
  ASSUME TypeOK, NEW c \in CallNames, NEW n \in Nat
  PROVE  /\ Served(c, n) \in Rows
         /\ \/ Served(c, n).updatedAt = clock + 1 /\ (Served(c, n).audio <=> server.audio)
            \/ Served(c, n) = server
            \/ ~Served(c, n).here /\ Served(c, n).updatedAt = server.updatedAt
         /\ c # "create" => (Served(c, n).here => server.here)
         /\ c = "delete" => ~Served(c, n).here
<1> server \in Rows /\ clock \in Nat
  BY DEF TypeOK
<1>0. ASSUME NEW k \in Nat, NEW q \in Statuses, NEW b \in BOOLEAN
      PROVE  /\ [server EXCEPT !.here = b, !.updatedAt = k] \in Rows
             /\ [server EXCEPT !.status = q, !.updatedAt = k] \in Rows
             /\ [server EXCEPT !.content = n, !.updatedAt = k] \in Rows
  BY DEF Rows
<1>k. clock + 1 \in Nat /\ "QUEUED" \in Statuses /\ TRUE \in BOOLEAN
  BY DEF Statuses
<1>1. CASE c = "create"
  <2>1. Served(c, n) = [server EXCEPT !.here = TRUE, !.updatedAt = clock + 1]
    BY <1>1 DEF Served, Stamped, Rows, Queues
  <2>2. Served(c, n) \in Rows
    BY <1>0, <1>k, <2>1
  <2>3. Served(c, n).updatedAt = clock + 1 /\ (Served(c, n).audio <=> server.audio)
    BY <2>1 DEF Rows
  <2>4. c # "create" => (Served(c, n).here <=> server.here)
    BY <1>1, <2>1 DEF Rows, Queues
  <2> QED BY <1>1, <2>2, <2>3, <2>4 DEF Queues
<1>2. CASE Queues(c)
  <2>1. Served(c, n) = [server EXCEPT !.status = "QUEUED", !.updatedAt = clock + 1]
    BY <1>2 DEF Served, Stamped, Rows, Queues
  <2>2. Served(c, n) \in Rows
    BY <1>0, <1>k, <2>1
  <2>3. Served(c, n).updatedAt = clock + 1 /\ (Served(c, n).audio <=> server.audio)
    BY <2>1 DEF Rows
  <2>4. c # "create" => (Served(c, n).here <=> server.here)
    BY <1>2, <2>1 DEF Rows, Queues
  <2> QED BY <1>2, <2>2, <2>3, <2>4 DEF Queues
<1>3. CASE c = "patch"
  <2>1. Served(c, n) = [server EXCEPT !.content = n, !.updatedAt = clock + 1]
    BY <1>3 DEF Served, Stamped, Rows, Queues
  <2>2. Served(c, n) \in Rows
    BY <1>0, <1>k, <2>1
  <2>3. Served(c, n).updatedAt = clock + 1 /\ (Served(c, n).audio <=> server.audio)
    BY <2>1 DEF Rows
  <2>4. c # "create" => (Served(c, n).here <=> server.here)
    BY <1>3, <2>1 DEF Rows, Queues
  <2> QED BY <1>3, <2>2, <2>3, <2>4 DEF Queues
<1>4. CASE c = "delete"
  <2>1. Served(c, n) = [server EXCEPT !.here = FALSE, !.audio = FALSE]
    BY <1>4 DEF Served, Rows, Queues
  <2> QED BY <1>4, <2>1 DEF Rows
<1>5. CASE c \notin {"create", "patch", "delete"} /\ ~Queues(c)
  BY <1>5 DEF Served
<1> QED BY <1>1, <1>2, <1>3, <1>4, <1>5

LEMMA ReplyShape ==
  ASSUME NEW row \in Rows
  PROVE  /\ Reply(row) \in Replies
         /\ (Reply(row).here <=> row.here) /\ Reply(row).updatedAt = row.updatedAt
BY DEF Rows, Replies, Reply

LEMMA ResumedShape ==
  ASSUME NEW job
  PROVE  /\ Resumed(job) \in {NoTask, Starting("drive"), Starting("poll")}
         /\ (job.here => ~job.pending) => Resumed(job) # Starting("drive")
         /\ ~job.here => Resumed(job) = NoTask
BY DEF Resumed, Starting, NoTask

-----------------------------------------------------------------------------
(* Types.                                                                   *)

LEMMA CountShape ==
  ASSUME TypeOK, Request \/ Fault \/ count' = [count EXCEPT !.launched = TRUE]
  PROVE  /\ count' \in [faults: Nat, restarts: Nat, requests: Nat, launched: BOOLEAN]
         /\ count'.requests >= count.requests
         /\ Request => count'.requests > 0
<1> count \in [faults: Nat, restarts: Nat, requests: Nat, launched: BOOLEAN]
  BY DEF TypeOK
<1>0. Request => count'.requests > 0
  BY DEF Request
<1>1. CASE Request
  BY <1>1 DEF Request
<1>2. CASE Fault
  <2>1. count' = [count EXCEPT !.faults = @ + 1]
    BY <1>2 DEF Fault
  <2> QED BY <1>0, <2>1
<1>3. CASE count' = [count EXCEPT !.launched = TRUE]
  <2>1. count'.requests = count.requests
    BY <1>3
  <2>2. count' \in [faults: Nat, restarts: Nat, requests: Nat, launched: BOOLEAN]
    BY <1>3
  <2> QED BY <1>0, <2>1, <2>2
<1> QED BY <1>1, <1>2, <1>3

LEMMA PollShape ==
  ASSUME TypeOK, NEW s \in Slots, Poll(s)
  PROVE  /\ task' \in [Slots -> Tasks] /\ active' \in BOOLEAN
         /\ \A u \in Slots : u # s => task'[u] = task[u]
         /\ task'[s] = NoTask \/ task'[s] = Asking("poll", "get", MaxPolls)
<1>1. NoTask \in Tasks /\ Asking("poll", "get", MaxPolls) \in Tasks
  BY TaskShapes, SyncAssumption DEF Kinds, CallNames
<1> QED BY <1>1, SetShape DEF Poll

LEMMA EndsShape ==
  ASSUME TypeOK, NEW s \in Slots, Ends(s)
  PROVE  /\ task' \in [Slots -> Tasks] /\ active' \in BOOLEAN
         /\ \A u \in Slots : u # s => task'[u] = task[u]
         /\ task'[s] = NoTask
BY SetShape, TaskShapes DEF Ends

\* A poller goes on with the same call, or gives up.
LEMMA PollsOnShape ==
  ASSUME TypeOK, NEW s \in Slots, PollsOn(s), task[s].pc \in {"ask", "answer"}
  PROVE  /\ task' \in [Slots -> Tasks] /\ active' \in BOOLEAN
         /\ \A u \in Slots : u # s => task'[u] = task[u]
         /\ \/ task'[s] = NoTask
            \/ task'[s].pc = "ask" /\ task'[s].call = "get" /\ task'[s].kind = task[s].kind
<1>1. CASE task[s].n > 1
  <2>1. task[s].n - 1 \in Nat /\ task[s].kind \in Kinds
    BY <1>1, TaskFields
  <2>2. Asking(task[s].kind, "get", task[s].n - 1) \in Tasks
    BY <2>1, TaskShapes DEF CallNames
  <2> QED BY <1>1, <2>2, SetShape DEF PollsOn, Asking, TypeOK
<1>2. CASE ~(task[s].n > 1)
  BY <1>2, EndsShape DEF PollsOn
<1> QED BY <1>1, <1>2

\* The one task that a user's request begins.
LEMMA BeginShape ==
  ASSUME TypeOK, NEW s \in Slots, NEW t \in Tasks, Begin(s, t)
  PROVE  /\ task' \in [Slots -> Tasks] /\ task[s] = NoTask /\ task'[s] = t
         /\ \A u \in Slots : u # s => task'[u] = task[u]
         /\ UNCHANGED <<server, file, url, active, session, transfer, orphan>>
BY SetShape DEF Begin, Free

LEMMA AskedShapes ==
  /\ \A n \in Nat : Asking("save", "patch", n) \in Tasks
  /\ {Asking("start", "create", 0), Asking("refresh", "list", 0), Asking("retry", "process", 0),
      Asking("delete", "delete", 0), Asking("drive", "process", 0),
      Asking("reconcile", "process", 0), Asking("drive", "get", MaxPolls)} \subseteq Tasks
  /\ {Starting("drive"), Starting("poll"), Starting("reconcile"), NoTask,
      [pc |-> "uploading", kind |-> "drive"]} \subseteq Tasks
BY TaskShapes, SyncAssumption DEF Kinds, CallNames

LEMMA UserTypes ==
  ASSUME TypeOK, NEW s \in Slots, User(s)
  PROVE  TypeOK'
<1> USE DEF TypeOK
<1>1. CASE StartReport(s)
  BY <1>1, BeginShape, AskedShapes, CountShape DEF StartReport
<1>2. CASE Refresh(s)
  BY <1>2, BeginShape, AskedShapes, CountShape DEF Refresh
<1>3. CASE Review(s)
  BY <1>3, PollShape, CountShape DEF Review
<1>4. CASE SaveEdits(s)
  <2>1. edit' = [number |-> edit.number + 1, stamp |-> clock + 1] /\ clock' = clock + 1
    BY <1>4 DEF SaveEdits
  <2>2. edit' \in [number: Nat, stamp: Nat] /\ clock' \in Nat /\ edit'.number \in Nat
    BY <2>1
  <2>3. local \in Copies
    BY <1>4 DEF SaveEdits, NoJob
  <2>4. local' \in Copies
    BY <1>4, <2>2, <2>3 DEF SaveEdits, Copies
  <2>5. task' \in [Slots -> Tasks] /\ UNCHANGED <<server, file, url, active, session, transfer, orphan>>
    BY <1>4, <2>2, BeginShape, AskedShapes DEF SaveEdits
  <2> QED BY <1>4, <2>2, <2>4, <2>5, CountShape DEF SaveEdits
<1>5. CASE Retry(s)
  BY <1>5, BeginShape, AskedShapes, CountShape DEF Retry
<1>6. CASE Delete(s)
  BY <1>6, BeginShape, AskedShapes, CountShape DEF Delete
<1> QED BY <1>1, <1>2, <1>3, <1>4, <1>5, <1>6 DEF User

LEMMA TransferTypes ==
  ASSUME TypeOK, NEW s \in Slots, TransferEnds(s)
  PROVE  /\ TypeOK'
         /\ UNCHANGED <<local, file, url, active, session, task, edit, clock>>
         /\ count'.requests = count.requests
         /\ server' = server \/ server' = [server EXCEPT !.audio = TRUE]
         /\ transfer[s] = "running" \/ orphan # {}
         /\ \A u \in Slots : transfer'[u] = "ok" => transfer[u] = "ok" \/ server'.audio
<1> USE DEF TypeOK
<1>1. ASSUME NEW after \in {"ok", "failed"}, Put(after)
      PROVE  /\ UNCHANGED <<local, file, url, active, session, task, edit, clock>>
             /\ count' \in [faults: Nat, restarts: Nat, requests: Nat, launched: BOOLEAN]
             /\ count'.requests = count.requests
             /\ server' = server \/ server' = [server EXCEPT !.audio = TRUE]
             /\ server' \in Rows /\ (after = "ok" => server'.audio)
  <2>1. count' = count \/ count' = [count EXCEPT !.faults = @ + 1]
    BY <1>1 DEF Put, Fault
  <2>2. count' \in [faults: Nat, restarts: Nat, requests: Nat, launched: BOOLEAN]
        /\ count'.requests = count.requests
    BY <2>1
  <2> QED BY <1>1, <2>2 DEF Put, Rows
<1>2. ASSUME NEW after \in {"ok", "failed"}, Put(after), transfer[s] = "running", UNCHANGED orphan,
             transfer' = [transfer EXCEPT ![s] = after]
      PROVE  /\ transfer' \in [Slots -> {"none", "running", "ok", "failed"}] /\ orphan' \subseteq Orphans
             /\ \A u \in Slots : transfer'[u] = "ok" => transfer[u] = "ok" \/ server'.audio
  BY <1>1, <1>2
<1>3. ASSUME NEW after \in {"ok", "failed"}, Put(after), NEW o \in orphan, UNCHANGED transfer,
             orphan' = IF after = "ok" THEN (orphan \ {o}) \cup {[o EXCEPT !.state = "ok"]} ELSE orphan \ {o}
      PROVE  /\ transfer' \in [Slots -> {"none", "running", "ok", "failed"}] /\ orphan' \subseteq Orphans
             /\ \A u \in Slots : transfer'[u] = "ok" => transfer[u] = "ok" \/ server'.audio
  <2>1. [o EXCEPT !.state = "ok"] \in Orphans
    BY <1>3 DEF Orphans
  <2> QED BY <1>3, <2>1
<1>4. PICK after \in {"ok", "failed"} :
        /\ Put(after)
        /\ \/ /\ transfer[s] = "running" /\ UNCHANGED orphan
              /\ transfer' = [transfer EXCEPT ![s] = after]
           \/ \E o \in orphan :
                /\ o.slot = s /\ o.state = "running" /\ UNCHANGED transfer
                /\ orphan' = IF after = "ok" THEN (orphan \ {o}) \cup {[o EXCEPT !.state = "ok"]} ELSE orphan \ {o}
  BY DEF TransferEnds
<1>5. /\ transfer' \in [Slots -> {"none", "running", "ok", "failed"}] /\ orphan' \subseteq Orphans
      /\ \A u \in Slots : transfer'[u] = "ok" => transfer[u] = "ok" \/ server'.audio
  BY <1>2, <1>3, <1>4
<1>6. transfer[s] = "running" \/ orphan # {}
  BY <1>4
<1> QED BY <1>1, <1>4, <1>5, <1>6

\* An answer ends its call: what it leaves in the slot and in the store.
LEMMA AnsweredMoves ==
  ASSUME TypeOK, NEW s \in Slots, Answered(s)
  PROVE  /\ task' \in [Slots -> Tasks] /\ active' \in BOOLEAN
         /\ \A u \in Slots : u # s => task'[u] = task[u]
         /\ local' \in {NoJob} \cup Copies /\ url' \in {"none", "valid", "expired"}
         /\ UNCHANGED <<server, file, session, transfer, orphan, edit, clock, count>>
         /\ task'[s] # NoTask => task'[s].pc \in {"start", "ask"}
         /\ task'[s].pc = "ask" => task'[s].call = "get"
         /\ \/ task[s].call = "create" /\ url' = "valid" /\ local'.pending
               /\ task'[s] = Starting("drive")
            \/ /\ task[s].call = "list" /\ url' = url
               /\ local' = IF task[s].reply.here THEN Upsert(task[s].reply) ELSE local
               /\ task'[s] = Resumed(local')
            \/ /\ task[s].call \in {"process", "get", "patch"} /\ url' = url
               /\ local' = Upsert(task[s].reply)
               /\ task'[s] # NoTask => task'[s].kind \in {task[s].kind, "poll"}
            \/ /\ task[s].call = "delete" /\ url' = url /\ local' = NoJob
               /\ task'[s] = NoTask
<1> USE DEF TypeOK
<1>0. task[s].pc = "answer" /\ task[s].reply \in Replies /\ task[s].kind \in Kinds
  BY TaskFields DEF Answered
<1>u. Upsert(task[s].reply) \in Copies
  BY <1>0, UpsertShape
<1>f. UNCHANGED <<server, file, session, transfer, orphan, edit, clock, count>>
  BY DEF Answered
<1>1. CASE CreateAnswered(s)
  <2>1. local' = [Upsert(task[s].reply) EXCEPT !.pending = TRUE]
    BY <1>1 DEF CreateAnswered
  <2>2. local' \in Copies /\ local'.pending
    BY <1>u, <2>1 DEF Copies
  <2>3. Starting("drive") \in Tasks /\ Set(s, Starting("drive"))
    BY <1>1, AskedShapes DEF CreateAnswered
  <2> QED BY <1>1, <1>f, <2>2, <2>3, SetShape DEF CreateAnswered, Starting, NoTask
<1>2. CASE ListAnswered(s)
  <2>1. Resumed(local') \in {NoTask, Starting("drive"), Starting("poll")}
    BY ResumedShape
  <2>2. Resumed(local') \in Tasks
    BY <2>1, AskedShapes
  <2>3. task' \in [Slots -> Tasks] /\ task'[s] = Resumed(local') /\ \A u \in Slots : u # s => task'[u] = task[u]
    BY <1>2, <2>2, SetShape DEF ListAnswered
  <2> QED BY <1>2, <1>f, <1>u, <2>1, <2>3 DEF ListAnswered, Starting, NoTask
<1>3. CASE ProcessAnswered(s)
  <2>1. CASE task[s].kind = "drive"
    BY <1>3, <1>f, <1>u, <2>1, AskedShapes, SetShape DEF ProcessAnswered, Asking, NoTask
  <2>2. CASE task[s].kind # "drive"
    BY <1>3, <1>f, <1>u, <2>2, PollShape DEF ProcessAnswered, Asking, NoTask
  <2> QED BY <2>1, <2>2
<1>4. CASE GetAnswered(s)
  <2>1. CASE Terminal(task[s].reply.status)
    BY <1>4, <1>f, <1>u, <2>1, EndsShape DEF GetAnswered, NoTask
  <2>2. CASE ~Terminal(task[s].reply.status)
    BY <1>0, <1>4, <1>f, <1>u, <2>2, PollsOnShape DEF GetAnswered, NoTask
  <2> QED BY <2>1, <2>2
<1>5. CASE PatchAnswered(s)
  BY <1>5, <1>f, <1>u, EndsShape DEF PatchAnswered, NoTask
<1>6. CASE DeleteAnswered(s)
  BY <1>6, <1>f, EndsShape DEF DeleteAnswered, NoTask
<1> QED BY <1>1, <1>2, <1>3, <1>4, <1>5, <1>6 DEF Answered

\* The other steps of a task: one slot changes, and no call is begun but process
\* and get.
LEMMA StepMoves ==
  ASSUME TypeOK, NEW s \in Slots,
         StartDrive(s) \/ StartPoll(s) \/ StartReconcile(s) \/ UploadReturns(s) \/ CallFails(s)
  PROVE  /\ TypeOK'
         /\ \A u \in Slots : u # s => task'[u] = task[u]
         /\ task'[s] # NoTask => /\ task'[s].kind \in {task[s].kind, "poll"}
                                 /\ task'[s].pc \in {"start", "uploading", "ask"}
                                 /\ task'[s].pc = "ask" => task'[s].call \in {"process", "get"}
         /\ task[s] # NoTask
         /\ (task[s].pc \in {"ask", "answer"} /\ task[s].call # "get") => task'[s] = NoTask
         /\ task[s].kind \notin {"drive", "reconcile"} => UNCHANGED <<local, file, transfer, orphan>>
         /\ UNCHANGED <<server, url, edit, clock>> /\ count'.requests = count.requests
         /\ local' = local \/ MarkUploaded
<1> USE DEF TypeOK
<1>1. CASE StartDrive(s)
  <2>1. task'[s] = [pc |-> "uploading", kind |-> "drive"] /\ task' \in [Slots -> Tasks]
        /\ \A u \in Slots : u # s => task'[u] = task[u]
    BY <1>1, AskedShapes, SetShape DEF StartDrive
  <2>2. transfer' \in [Slots -> {"none", "running", "ok", "failed"}] /\ active' = TRUE /\ session' = TRUE
        /\ task[s] = Starting("drive")
        /\ UNCHANGED <<server, local, file, url, orphan, edit, clock, count>>
    BY <1>1 DEF StartDrive
  <2> QED BY <2>1, <2>2 DEF Starting, NoTask
<1>2. CASE StartPoll(s)
  BY <1>2, PollShape DEF StartPoll, Starting, NoTask, Asking
<1>3. CASE StartReconcile(s)
  <2>1. task'[s] = Asking("reconcile", "process", 0) /\ task' \in [Slots -> Tasks]
        /\ \A u \in Slots : u # s => task'[u] = task[u]
    BY <1>3, AskedShapes, SetShape DEF StartReconcile
  <2> QED BY <1>3, <2>1, MarkShape DEF StartReconcile, Starting, NoTask, Asking
<1>4. CASE UploadReturns(s)
  <2>1. task[s].pc = "uploading" /\ task[s] # NoTask /\ task[s].kind = "drive"
    BY <1>4 DEF UploadReturns, Tasks, NoTask
  <2>f. /\ transfer' \in [Slots -> {"none", "running", "ok", "failed"}] /\ file' \in BOOLEAN
        /\ UNCHANGED <<server, url, session, orphan, edit, clock, count>>
    BY <1>4 DEF UploadReturns, CleanedUp
  <2>2. CASE transfer[s] = "ok"
    <3>1. task'[s] = Asking("drive", "process", 0) /\ task' \in [Slots -> Tasks]
          /\ \A u \in Slots : u # s => task'[u] = task[u]
      BY <1>4, <2>2, AskedShapes, SetShape DEF UploadReturns
    <3>2. MarkUploaded /\ UNCHANGED active
      BY <1>4, <2>2 DEF UploadReturns
    <3> QED BY <2>1, <2>f, <3>1, <3>2, MarkShape DEF Asking, NoTask
  <2>3. CASE transfer[s] # "ok"
    <3>1. task'[s] = NoTask /\ task' \in [Slots -> Tasks]
          /\ \A u \in Slots : u # s => task'[u] = task[u]
      BY <1>4, <2>3, AskedShapes, SetShape DEF UploadReturns
    <3>2. active' = FALSE /\ UNCHANGED local
      BY <1>4, <2>3 DEF UploadReturns
    <3> QED BY <2>1, <2>f, <3>1, <3>2
  <2> QED BY <2>2, <2>3
<1>5. CASE CallFails(s)
  <2>1. task[s].pc \in {"ask", "answer"} /\ task[s] # NoTask
    BY <1>5 DEF CallFails, NoTask
  <2>2. count' = count \/ count' = [count EXCEPT !.faults = @ + 1]
    BY <1>5 DEF CallFails, Fault
  <2>3. count' \in [faults: Nat, restarts: Nat, requests: Nat, launched: BOOLEAN]
        /\ count'.requests = count.requests
    BY <2>2
  <2>4. CASE task[s].call = "get"
    BY <1>5, <2>1, <2>3, <2>4, PollsOnShape DEF CallFails, NoTask
  <2>5. CASE task[s].call # "get"
    BY <1>5, <2>1, <2>3, <2>5, EndsShape DEF CallFails, NoTask
  <2> QED BY <2>4, <2>5
<1> QED BY <1>1, <1>2, <1>3, <1>4, <1>5

\* What a user's request changes.
LEMMA UserMoves ==
  ASSUME TypeOK, NEW s \in Slots, User(s)
  PROVE  /\ UNCHANGED <<server, file, url, transfer, orphan>>
         /\ task[s] = NoTask /\ \A u \in Slots : u # s => task'[u] = task[u]
         /\ task'[s] # NoTask => task'[s].pc = "ask" /\ task'[s].kind \notin {"drive", "reconcile"}
         /\ \/ /\ count.requests = 0 /\ count'.requests > 0
               /\ task'[s] = Asking("start", "create", 0) /\ UNCHANGED <<local, edit, clock>>
            \/ /\ count'.requests = count.requests \/ (count.requests > 0 /\ count'.requests > 0)
               /\ task'[s] = Asking("refresh", "list", 0) /\ UNCHANGED <<local, edit, clock>>
            \/ /\ local.here /\ count'.requests > 0
               /\ task'[s] # NoTask => task'[s].call \notin {"create", "list"}
               /\ UNCHANGED <<local, edit, clock>> \/ SaveEdits(s)
<1>1. CASE StartReport(s)
  BY <1>1, BeginShape, AskedShapes, CountShape DEF StartReport, Asking
<1>2. CASE Refresh(s)
  <2>1. Begin(s, Asking("refresh", "list", 0)) /\ UNCHANGED <<local, edit, clock>>
    BY <1>2 DEF Refresh
  <2>2. count'.requests = count.requests \/ (count.requests > 0 /\ count'.requests > 0)
    BY <1>2, CountShape DEF Refresh, TypeOK
  <2> QED BY <2>1, <2>2, BeginShape, AskedShapes DEF Asking
<1>3. CASE Review(s)
  BY <1>3, PollShape, CountShape DEF Review, Free, Asking, NoTask
<1>4. CASE SaveEdits(s)
  <2>1. edit'.number \in Nat
    BY <1>4 DEF SaveEdits, TypeOK
  <2> QED BY <1>4, <2>1, BeginShape, AskedShapes, CountShape DEF SaveEdits, Asking
<1>5. CASE Retry(s)
  BY <1>5, BeginShape, AskedShapes, CountShape DEF Retry, Asking
<1>6. CASE Delete(s)
  BY <1>6, BeginShape, AskedShapes, CountShape DEF Delete, Asking
<1> QED BY <1>1, <1>2, <1>3, <1>4, <1>5, <1>6 DEF User

\* A request: it is answered with what the server then has.
LEMMA AskMoves ==
  ASSUME TypeOK, NEW s \in Slots, Ask(s)
  PROVE  /\ TypeOK'
         /\ task[s].pc = "ask" /\ task[s].call \in CallNames /\ task[s].n \in Nat
         /\ ~Refused(task[s].call)
         /\ \A u \in Slots : u # s => task'[u] = task[u]
         /\ task'[s].pc = "answer" /\ task'[s].call = task[s].call /\ task'[s].kind = task[s].kind
         /\ task'[s] # NoTask
         /\ task'[s].reply.updatedAt = server'.updatedAt /\ (task'[s].reply.here <=> server'.here)
         /\ server' = Served(task[s].call, task[s].n)
         /\ clock' >= clock /\ server'.updatedAt <= clock'
         /\ UNCHANGED <<local, file, url, active, session, transfer, orphan, edit, count>>
<1> USE DEF TypeOK
<1>1. task[s].pc = "ask" /\ task[s].kind \in Kinds /\ task[s].call \in CallNames /\ task[s].n \in Nat
      /\ ~Refused(task[s].call)
  BY TaskFields DEF Ask
<1>2. server' = Served(task[s].call, task[s].n) /\ server' \in Rows
  BY <1>1, ServedShape DEF Ask
<1>3. server'.updatedAt \in Nat
  BY <1>2 DEF Rows
<1>4. clock' \in Nat /\ clock' >= clock /\ server'.updatedAt <= clock'
  BY <1>3 DEF Ask
<1>5. Reply(server') \in Replies /\ Reply(server').updatedAt = server'.updatedAt
      /\ (Reply(server').here <=> server'.here)
  BY <1>2, ReplyShape
<1>6. Answering(task[s], Reply(server')) \in Tasks
  BY <1>1, <1>5 DEF Answering, Tasks
<1>7. task' \in [Slots -> Tasks] /\ task'[s] = Answering(task[s], Reply(server'))
      /\ \A u \in Slots : u # s => task'[u] = task[u]
  BY <1>6, SetShape DEF Ask
<1>8. UNCHANGED <<local, file, url, active, session, transfer, orphan, edit, count>>
  BY DEF Ask
<1> QED BY <1>1, <1>2, <1>4, <1>5, <1>7, <1>8 DEF Answering, NoTask

LEMMA OrphanMoves ==
  ASSUME TypeOK, NEW s \in Slots, OrphanReturns(s)
  PROVE  /\ TypeOK' /\ orphan # {}
         /\ \E u \in Slots : /\ task[u] = NoTask /\ task'[u] = Starting("reconcile")
                             /\ \A v \in Slots : v # u => task'[v] = task[v]
         /\ UNCHANGED <<server, local, file, url, active, session, transfer, edit, clock, count>>
<1> USE DEF TypeOK
<1>1. Free(s) /\ Set(s, Starting("reconcile"))
  BY DEF OrphanReturns
<1>2. task' \in [Slots -> Tasks] /\ task'[s] = Starting("reconcile") /\ task[s] = NoTask
      /\ \A v \in Slots : v # s => task'[v] = task[v]
  BY <1>1, AskedShapes, SetShape DEF Free
<1>3. /\ orphan # {} /\ orphan' \subseteq orphan
      /\ UNCHANGED <<server, local, file, url, active, session, transfer, edit, clock, count>>
  BY DEF OrphanReturns
<1> QED BY <1>2, <1>3

LEMMA SettlesMoves ==
  ASSUME TypeOK, ServerSettles
  PROVE  /\ TypeOK' /\ server.here /\ server'.here /\ (server'.audio <=> server.audio)
         /\ server'.updatedAt = clock + 1 /\ clock' = clock + 1
         /\ UNCHANGED <<local, file, url, active, session, task, transfer, orphan, edit, count>>
<1> server \in Rows /\ clock \in Nat /\ clock + 1 \in Nat
  BY DEF TypeOK
<1>1. PICK q \in Statuses, k \in Nat : server' = [server EXCEPT !.status = q, !.content = k, !.updatedAt = clock + 1]
  <2>1. CASE server' = Stamped([server EXCEPT !.status = "READY",
                                  !.content = IF @ = Empty THEN Compiled ELSE @])
    <3>1. (IF server.content = Empty THEN Compiled ELSE server.content) \in Nat
      BY SyncAssumption DEF Rows, Empty, Compiled
    <3>2. server' = [server EXCEPT !.status = "READY",
                       !.content = (IF server.content = Empty THEN Compiled ELSE server.content),
                       !.updatedAt = clock + 1]
      BY <2>1 DEF Stamped, Rows
    <3> QED BY <3>1, <3>2 DEF Statuses
  <2>2. CASE server' = Stamped([server EXCEPT !.status = "FAILED"])
    <3>1. server' = [server EXCEPT !.status = "FAILED", !.content = server.content, !.updatedAt = clock + 1]
      BY <2>2 DEF Stamped, Rows
    <3>2. server.content \in Nat
      BY DEF Rows
    <3> QED BY <3>1, <3>2 DEF Statuses
  <2> QED BY <2>1, <2>2 DEF ServerSettles
<1>2. server' \in Rows /\ (server'.here <=> server.here) /\ (server'.audio <=> server.audio)
      /\ server'.updatedAt = clock + 1
  <2>1. ASSUME NEW m \in Nat PROVE [server EXCEPT !.status = q, !.content = k, !.updatedAt = m] \in Rows
    BY DEF Rows
  <2> QED BY <1>1, <2>1 DEF Rows
<1>3. /\ server.here /\ clock' = clock + 1
      /\ UNCHANGED <<local, file, url, active, session, task, transfer, orphan, edit, count>>
  BY DEF ServerSettles
<1> QED BY <1>2, <1>3 DEF TypeOK

LEMMA RestartMoves ==
  ASSUME TypeOK, Restart
  PROVE  /\ TypeOK'
         /\ \A s \in Slots : task'[s] = NoTask /\ transfer'[s] = "none"
         /\ (orphan = {} /\ \A s \in Slots : transfer[s] = "none") => orphan' = {}
         /\ count'.requests = count.requests
         /\ UNCHANGED <<server, local, file, url, edit, clock>>
<1>1. count' = [count EXCEPT !.restarts = @ + 1, !.launched = FALSE]
  BY DEF Restart
<1>2. count' \in [faults: Nat, restarts: Nat, requests: Nat, launched: BOOLEAN]
      /\ count'.requests = count.requests
  <2> count \in [faults: Nat, restarts: Nat, requests: Nat, launched: BOOLEAN]
    BY DEF TypeOK
  <2>1. ASSUME NEW k \in Nat
        PROVE  [count EXCEPT !.restarts = k, !.launched = FALSE]
                 \in [faults: Nat, restarts: Nat, requests: Nat, launched: BOOLEAN]
    OBVIOUS
  <2>2. count.restarts + 1 \in Nat
    OBVIOUS
  <2>3. count' \in [faults: Nat, restarts: Nat, requests: Nat, launched: BOOLEAN]
    BY <1>1, <2>1, <2>2
  <2>4. count'.requests = count.requests
    BY <1>1
  <2> QED BY <2>3, <2>4
<1>3. task' \in [Slots -> Tasks] /\ transfer' \in [Slots -> {"none", "running", "ok", "failed"}]
  BY TaskShapes DEF Restart, TypeOK
<1>4. orphan' \subseteq Orphans
  BY DEF Restart, TypeOK
<1>5. (orphan = {} /\ \A s \in Slots : transfer[s] = "none") => orphan' = {}
  BY DEF Restart, Orphans
<1> QED BY <1>2, <1>3, <1>4, <1>5 DEF Restart, TypeOK

LEMMA TypeStep ==
  ASSUME TypeOK, [Next]_vars
  PROVE  TypeOK'
<1>1. CASE ServerSettles
  BY <1>1, SettlesMoves
<1>2. CASE Expire
  BY <1>2 DEF TypeOK, Expire
<1>3. CASE Restart
  BY <1>3, RestartMoves
<1>4. ASSUME NEW s \in Slots, User(s) PROVE TypeOK'
  BY <1>4, UserTypes
<1>5. ASSUME NEW s \in Slots, Step(s) PROVE TypeOK'
  <2>1. CASE OrphanReturns(s)
    BY <2>1, OrphanMoves
  <2>2. CASE Ask(s)
    BY <2>2, AskMoves
  <2>3. CASE Answered(s)
    BY <2>3, AnsweredMoves DEF TypeOK
  <2>4. CASE StartDrive(s) \/ StartPoll(s) \/ StartReconcile(s) \/ UploadReturns(s) \/ CallFails(s)
    BY <2>4, StepMoves
  <2> QED BY <1>5, <2>1, <2>2, <2>3, <2>4 DEF Step
<1>6. ASSUME NEW s \in Slots, TransferEnds(s) PROVE TypeOK'
  BY <1>6, TransferTypes
<1>7. CASE UNCHANGED vars
  BY <1>7 DEF TypeOK, vars
<1> QED BY <1>1, <1>2, <1>3, <1>4, <1>5, <1>6, <1>7 DEF Next

-----------------------------------------------------------------------------
(* Each part of the invariant is preserved.                                 *)

\* The steps of one task other than a request, an answer and a callback.
Simple(s) == StartDrive(s) \/ StartPoll(s) \/ StartReconcile(s) \/ UploadReturns(s) \/ CallFails(s)

\* Every step is one of these.
LEMMA StepCases ==
  ASSUME [Next]_vars,
         NEW ACTION P,
         UNCHANGED vars => P, ServerSettles => P, Expire => P, Restart => P,
         \A s \in Slots : User(s) => P,
         \A s \in Slots : Simple(s) => P,
         \A s \in Slots : OrphanReturns(s) => P,
         \A s \in Slots : Ask(s) => P,
         \A s \in Slots : Answered(s) => P,
         \A s \in Slots : TransferEnds(s) => P
  PROVE  P
BY DEF Next, Step, Simple

\* What saveEdits does to the copy.
LEMMA SaveShape ==
  ASSUME TypeOK, NEW s \in Slots, SaveEdits(s)
  PROVE  /\ edit'.number = edit.number + 1 /\ edit'.stamp = clock + 1 /\ clock' = clock + 1
         /\ local'.here /\ local'.dirty /\ local'.content = edit'.number /\ local'.updatedAt = edit'.stamp
         /\ local'.pending <=> local.pending
<1>1. local \in Copies
  BY DEF SaveEdits, TypeOK, NoJob
<1>2. edit' = [number |-> edit.number + 1, stamp |-> clock + 1] /\ clock' = clock + 1
      /\ local' = [local EXCEPT !.content = edit'.number, !.updatedAt = clock', !.dirty = TRUE]
  BY DEF SaveEdits
<1>3. local'.here /\ local'.dirty /\ local'.content = edit'.number /\ local'.updatedAt = clock'
      /\ (local'.pending <=> local.pending)
  BY <1>1, <1>2 DEF Copies
<1> QED BY <1>2, <1>3

LEMMA CreateStep ==
  ASSUME TypeOK, SyncInv, [Next]_vars
  PROVE  CreateInv'
<1> USE DEF CreateInv, Calls
<1> CreateInv /\ count.requests \in Nat
  BY DEF SyncInv, TypeOK
<1>0. UNCHANGED vars => CreateInv'
  BY DEF vars
<1>1. ServerSettles => CreateInv'
  BY SettlesMoves
<1>2. Expire => CreateInv'
  BY DEF Expire
<1>3. Restart => CreateInv'
  BY RestartMoves DEF NoTask
<1>4. ASSUME NEW s \in Slots, User(s) PROVE CreateInv'
  <2>1. CASE count.requests = 0
    BY <1>4, <2>1, UserMoves DEF NoTask, Asking, SyncInv, UnbornInv
  <2>2. CASE count.requests # 0
    BY <1>4, <2>2, UserMoves DEF NoTask, Asking
  <2> QED BY <2>1, <2>2
<1>5. ASSUME NEW s \in Slots, Simple(s) PROVE CreateInv'
  BY <1>5, StepMoves DEF NoTask, Simple
<1>6. ASSUME NEW s \in Slots, OrphanReturns(s) PROVE CreateInv'
  BY <1>6, OrphanMoves DEF Starting
<1>7. ASSUME NEW s \in Slots, Ask(s) PROVE CreateInv'
  BY <1>7, AskMoves
<1>8. ASSUME NEW s \in Slots, Answered(s) PROVE CreateInv'
  <2>1. task[s].pc = "answer"
    BY <1>8 DEF Answered
  <2> QED BY <1>8, <2>1, AnsweredMoves DEF NoTask
<1>9. ASSUME NEW s \in Slots, TransferEnds(s) PROVE CreateInv'
  BY <1>9, TransferTypes
<1> QED BY <1>0, <1>1, <1>2, <1>3, <1>4, <1>5, <1>6, <1>7, <1>8, <1>9, StepCases

LEMMA UnbornStep ==
  ASSUME TypeOK, SyncInv, [Next]_vars
  PROVE  UnbornInv'
<1> USE DEF UnbornInv, Calls
<1> UnbornInv /\ CreateInv /\ EarlyInv /\ count.requests \in Nat
  BY DEF SyncInv, TypeOK
<1>0. UNCHANGED vars => UnbornInv'
  BY DEF vars
<1>1. ServerSettles => UnbornInv'
  BY SettlesMoves
<1>2. Expire => UnbornInv'
  BY DEF Expire
<1>3. Restart => UnbornInv'
  BY RestartMoves DEF NoTask
<1>4. ASSUME NEW s \in Slots, User(s) PROVE UnbornInv'
  <2>1. CASE count.requests = 0
    BY <1>4, <2>1, UserMoves DEF NoTask, Asking, NoJob
  <2>2. CASE count.requests # 0
    BY <1>4, <2>2, UserMoves DEF NoTask, Asking, NoJob
  <2> QED BY <2>1, <2>2
<1>5. ASSUME NEW s \in Slots, Simple(s) PROVE UnbornInv'
  <2>1. local = NoJob => local' = NoJob
    BY <1>5, StepMoves, MarkShape DEF Simple
  <2> QED BY <1>5, <2>1, StepMoves DEF NoTask, Simple
<1>6. ASSUME NEW s \in Slots, OrphanReturns(s) PROVE UnbornInv'
  BY <1>6, OrphanMoves DEF EarlyInv, Starting
<1>7. ASSUME NEW s \in Slots, Ask(s) PROVE UnbornInv'
  <2>1. CASE task[s].call = "create"
    BY <1>7, <2>1, AskMoves DEF CreateInv
  <2>2. CASE task[s].call # "create"
    <3>1. server'.here => server.here
      BY <1>7, <2>2, AskMoves, ServedShape
    <3> QED BY <1>7, <2>2, <3>1, AskMoves DEF NoTask
  <2> QED BY <2>1, <2>2
<1>8. ASSUME NEW s \in Slots, Answered(s) PROVE UnbornInv'
  <2>1. task[s].pc = "answer" /\ task[s] # NoTask
    BY <1>8 DEF Answered, NoTask
  <2>2. CASE task[s].call = "create"
    BY <1>8, <2>1, <2>2, AnsweredMoves DEF CreateInv, NoTask
  <2>3. CASE task[s].call # "create"
    <3>1. Resumed(NoJob) = NoTask
      BY ResumedShape DEF NoJob
    <3> QED BY <1>8, <2>1, <2>3, <3>1, AnsweredMoves DEF NoTask
  <2> QED BY <2>2, <2>3
<1>9. ASSUME NEW s \in Slots, TransferEnds(s) PROVE UnbornInv'
  BY <1>9, TransferTypes DEF EarlyInv
<1> QED BY <1>0, <1>1, <1>2, <1>3, <1>4, <1>5, <1>6, <1>7, <1>8, <1>9, StepCases

LEMMA EarlyStep ==
  ASSUME TypeOK, SyncInv, [Next]_vars
  PROVE  EarlyInv'
<1> USE DEF EarlyInv
<1> EarlyInv
  BY DEF SyncInv
<1>0. UNCHANGED vars => EarlyInv'
  BY DEF vars
<1>1. ServerSettles => EarlyInv'
  BY SettlesMoves
<1>2. Expire => EarlyInv'
  BY DEF Expire
<1>3. Restart => EarlyInv'
  BY RestartMoves
<1>4. ASSUME NEW s \in Slots, User(s) PROVE EarlyInv'
  <2>1. (local'.here => ~local'.pending) \/ ~(local.here => ~local.pending)
    BY <1>4, UserMoves, SaveShape DEF SaveEdits
  <2> QED BY <1>4, <2>1, UserMoves
<1>5. ASSUME NEW s \in Slots, Simple(s) PROVE EarlyInv'
  BY <1>5, StepMoves DEF Simple
<1>6. ASSUME NEW s \in Slots, OrphanReturns(s) PROVE EarlyInv'
  BY <1>6, OrphanMoves
<1>7. ASSUME NEW s \in Slots, Ask(s) PROVE EarlyInv'
  <2>1. task[s] # NoTask
    BY <1>7 DEF Ask, NoTask
  <2> QED BY <1>7, <2>1, AskMoves
<1>8. ASSUME NEW s \in Slots, Answered(s), url' = "none" PROVE EarlyInv'
  <2>1. task[s].pc = "answer" /\ task[s] # NoTask /\ task[s].reply \in Replies
    BY <1>8, TaskFields DEF Answered, NoTask
  <2>2. task[s].call # "create" /\ url = "none"
    BY <1>8, AnsweredMoves
  <2>3. local'.here => ~local'.pending
    <3>1. Upsert(task[s].reply).pending <=> (local.here /\ local.pending)
      BY <2>1, UpsertShape
    <3>2. local' \in {local, NoJob, Upsert(task[s].reply)}
      BY <1>8, <2>2, AnsweredMoves
    <3> QED BY <2>2, <3>1, <3>2 DEF NoJob
  <2>4. task'[s] # NoTask => task'[s].kind \notin {"drive", "reconcile"}
    <3>1. Resumed(local') = NoTask \/ Resumed(local').kind = "poll"
      BY <2>3, ResumedShape DEF Starting
    <3>2. task[s].kind \notin {"drive", "reconcile"}
      BY <2>1, <2>2
    <3>3. \/ task'[s] = Resumed(local') \/ task'[s] = NoTask
          \/ task'[s].kind \in {task[s].kind, "poll"}
      BY <1>8, <2>2, AnsweredMoves
    <3> QED BY <3>1, <3>2, <3>3
  <2> QED BY <1>8, <2>2, <2>3, <2>4, AnsweredMoves
<1>9. ASSUME NEW s \in Slots, TransferEnds(s) PROVE EarlyInv'
  BY <1>9, TransferTypes
<1> QED BY <1>0, <1>1, <1>2, <1>3, <1>4, <1>5, <1>6, <1>7, <1>8, <1>9, StepCases

\* An answer leaves the copy of an edit that is newer than the server.
LEMMA AnswerKeepsEdit ==
  ASSUME TypeOK, SyncInv, NEW s \in Slots, Answered(s),
         server.here, edit.number > 0, server.updatedAt < edit.stamp
  PROVE  /\ local'.here /\ local'.dirty
         /\ local'.content = edit.number /\ local'.updatedAt = edit.stamp
<1>1. task[s].pc = "answer" /\ task[s].reply \in Replies
  BY TaskFields DEF Answered
<1>2. /\ local.here /\ local.dirty /\ local.content = edit.number /\ local.updatedAt = edit.stamp
      /\ task[s].reply.updatedAt <= server.updatedAt /\ task[s].call # "delete"
  BY <1>1 DEF SyncInv, StampInv
<1>3. LocalWins(task[s].reply)
  BY <1>1, <1>2 DEF LocalWins, TypeOK, Rows, Replies
<1>4. /\ Upsert(task[s].reply) \in Copies /\ Upsert(task[s].reply).dirty
      /\ Upsert(task[s].reply).content = edit.number /\ Upsert(task[s].reply).updatedAt = edit.stamp
  BY <1>1, <1>2, <1>3, UpsertShape
<1>5. CASE CreateAnswered(s)
  <2>1. local' = [Upsert(task[s].reply) EXCEPT !.pending = TRUE]
    BY <1>5 DEF CreateAnswered
  <2> QED BY <1>4, <2>1 DEF Copies
<1>6. CASE local' = Upsert(task[s].reply) \/ local' = local
  BY <1>2, <1>4, <1>6 DEF Copies
<1> QED BY <1>2, <1>5, <1>6
        DEF Answered, ListAnswered, ProcessAnswered, GetAnswered, PatchAnswered, DeleteAnswered

LEMMA StampStep ==
  ASSUME TypeOK, SyncInv, [Next]_vars
  PROVE  StampInv'
<1> USE DEF StampInv
<1> /\ StampInv /\ clock \in Nat /\ server.updatedAt \in Nat /\ edit.stamp \in Nat /\ edit.number \in Nat
    /\ \A u \in Slots : task[u].pc = "answer" => task[u].reply.updatedAt \in Nat
  BY TaskFields DEF SyncInv, TypeOK, Rows, Replies
<1>0. UNCHANGED vars => StampInv'
  BY DEF vars
<1>1. ServerSettles => StampInv'
  BY SettlesMoves
<1>2. Expire => StampInv'
  BY DEF Expire
<1>3. Restart => StampInv'
  BY RestartMoves DEF NoTask
<1>4. ASSUME NEW s \in Slots, User(s) PROVE StampInv'
  <2>1. \A u \in Slots : task'[u].pc = "answer" => task'[u] = task[u]
    BY <1>4, UserMoves DEF NoTask
  <2>2. server' = server
    BY <1>4, UserMoves
  <2>3. CASE SaveEdits(s)
    BY <2>1, <2>2, <2>3, SaveShape
  <2>4. CASE UNCHANGED <<local, edit, clock>>
    BY <2>1, <2>2, <2>4
  <2> QED BY <1>4, <2>3, <2>4, UserMoves
<1>5. ASSUME NEW s \in Slots, Simple(s) PROVE StampInv'
  <2>1. \A u \in Slots : task'[u].pc = "answer" => task'[u] = task[u]
    BY <1>5, StepMoves DEF NoTask, Simple
  <2>2. UNCHANGED <<server, edit, clock>> /\ (local' = local \/ MarkUploaded)
    BY <1>5, StepMoves DEF Simple
  <2>3. CASE local' = local
    BY <2>1, <2>2, <2>3
  <2>4. CASE MarkUploaded
    <3>1. local.here => /\ local'.here /\ (local'.dirty <=> local.dirty) /\ local'.content = local.content
                        /\ local'.updatedAt = local.updatedAt
      BY <2>4, MarkShape
    <3> QED BY <2>1, <2>2, <3>1
  <2> QED BY <2>2, <2>3, <2>4
<1>6. ASSUME NEW s \in Slots, OrphanReturns(s) PROVE StampInv'
  <2>1. \A u \in Slots : task'[u].pc = "answer" => task'[u] = task[u]
    BY <1>6, OrphanMoves DEF Starting
  <2> QED BY <1>6, <2>1, OrphanMoves
<1>7. ASSUME NEW s \in Slots, Ask(s) PROVE StampInv'
  <2>1. /\ server'.updatedAt \in Nat /\ server'.updatedAt >= server.updatedAt
        /\ (server'.updatedAt = clock + 1 \/ server' = server \/ ~server'.here)
        /\ task[s].call # "create" => (server'.here => server.here)
        /\ task[s].call = "delete" => ~server'.here
    <3>1. server' = Served(task[s].call, task[s].n) /\ task[s].call \in CallNames /\ task[s].n \in Nat
      BY <1>7, AskMoves
    <3>2. /\ server' \in Rows
          /\ \/ server'.updatedAt = clock + 1
             \/ server' = server
             \/ ~server'.here /\ server'.updatedAt = server.updatedAt
          /\ task[s].call # "create" => (server'.here => server.here)
          /\ task[s].call = "delete" => ~server'.here
      BY <3>1, ServedShape
    <3>3. server'.updatedAt \in Nat
      BY <3>2 DEF Rows
    <3> QED BY <3>2, <3>3
  <2>2. ASSUME NEW u \in Slots, task'[u].pc = "answer"
        PROVE  /\ task'[u].reply.updatedAt <= server'.updatedAt
               /\ task'[u].call = "delete" => ~server'.here
    <3>1. CASE u = s
      BY <1>7, <2>1, <3>1, AskMoves
    <3>2. CASE u # s
      <4>1. task'[u] = task[u] /\ task[s].pc = "ask"
        BY <1>7, <3>2, AskMoves
      <4>2. task[u].reply.updatedAt <= server'.updatedAt
        BY <2>1, <2>2, <4>1
      <4>3. CASE task[s].call = "create"
        BY <2>2, <4>1, <4>2, <4>3 DEF SyncInv, UnbornInv, Calls, NoTask
      <4>4. CASE task[s].call # "create"
        BY <2>1, <2>2, <4>1, <4>2, <4>4
      <4> QED BY <4>3, <4>4
    <3> QED BY <3>1, <3>2
  <2>3. clock' \in Nat /\ clock' >= clock /\ server'.updatedAt <= clock' /\ UNCHANGED <<local, edit>>
    BY <1>7, AskMoves DEF TypeOK
  <2> QED BY <2>1, <2>2, <2>3
<1>8. ASSUME NEW s \in Slots, Answered(s) PROVE StampInv'
  <2>1. \A u \in Slots : task'[u].pc = "answer" => task'[u] = task[u]
    BY <1>8, AnsweredMoves DEF NoTask
  <2>2. UNCHANGED <<server, edit, clock>>
    BY <1>8, AnsweredMoves
  <2> QED BY <1>8, <2>1, <2>2, AnswerKeepsEdit
<1>9. ASSUME NEW s \in Slots, TransferEnds(s) PROVE StampInv'
  <2>1. (server'.here <=> server.here) /\ server'.updatedAt = server.updatedAt
    BY <1>9, TransferTypes DEF TypeOK, Rows
  <2> QED BY <1>9, <2>1, TransferTypes
<1> QED BY <1>0, <1>1, <1>2, <1>3, <1>4, <1>5, <1>6, <1>7, <1>8, <1>9, StepCases

\* An upload that is seen to end: the file goes only when the audio is there.
LEMMA CleanUp ==
  ASSUME TypeOK, SyncInv, NEW s \in Slots, UploadReturns(s)
  PROVE  UploadInv'
<1>1. /\ transfer' = [transfer EXCEPT ![s] = "none"] /\ file' = (file /\ transfer[s] # "ok")
      /\ UNCHANGED <<server, url>>
  BY DEF UploadReturns, CleanedUp
<1>2. UploadInv
  BY DEF SyncInv
<1>3. \A u \in Slots : transfer'[u] = "ok" => server'.audio \/ ~server'.here
  BY <1>1, <1>2 DEF UploadInv, TypeOK
<1>4. CASE transfer[s] = "ok"
  <2>1. MarkUploaded
    BY <1>4 DEF UploadReturns
  <2>2. local'.here => ~local'.pending
    BY <2>1, MarkShape
  <2> QED BY <1>1, <1>2, <1>3, <1>4, <2>2 DEF UploadInv, RecordingKept
<1>5. CASE transfer[s] # "ok"
  <2>1. UNCHANGED local /\ file' = file
    BY <1>1, <1>5 DEF UploadReturns, TypeOK
  <2> QED BY <1>1, <1>2, <1>3, <2>1 DEF UploadInv, RecordingKept
<1> QED BY <1>4, <1>5

LEMMA UploadStep ==
  ASSUME TypeOK, SyncInv, [Next]_vars
  PROVE  UploadInv'
<1> USE DEF UploadInv, RecordingKept
<1> UploadInv
  BY DEF SyncInv
<1>0. UNCHANGED vars => UploadInv'
  BY DEF vars
<1>1. ServerSettles => UploadInv'
  BY SettlesMoves
<1>2. Expire => UploadInv'
  BY DEF Expire
<1>3. Restart => UploadInv'
  BY RestartMoves
<1>4. ASSUME NEW s \in Slots, User(s) PROVE UploadInv'
  <2>1. (local'.here /\ local'.pending) => (local.here /\ local.pending)
    BY <1>4, UserMoves, SaveShape DEF SaveEdits
  <2> QED BY <1>4, <2>1, UserMoves
<1>5. ASSUME NEW s \in Slots, Simple(s) PROVE UploadInv'
  <2>1. CASE UploadReturns(s)
    BY <2>1, CleanUp
  <2>2. CASE StartDrive(s)
    BY <2>2 DEF StartDrive, TypeOK
  <2>3. CASE StartPoll(s)
    BY <2>3 DEF StartPoll
  <2>4. CASE StartReconcile(s)
    BY <2>4, MarkShape DEF StartReconcile
  <2>5. CASE CallFails(s)
    BY <2>5 DEF CallFails
  <2> QED BY <1>5, <2>1, <2>2, <2>3, <2>4, <2>5 DEF Simple
<1>6. ASSUME NEW s \in Slots, OrphanReturns(s) PROVE UploadInv'
  BY <1>6, OrphanMoves
<1>7. ASSUME NEW s \in Slots, Ask(s) PROVE UploadInv'
  <2>1. /\ server' = Served(task[s].call, task[s].n) /\ task[s].call \in CallNames /\ task[s].n \in Nat
        /\ UNCHANGED <<local, file, url, transfer>> /\ task[s].pc = "ask"
    BY <1>7, AskMoves
  <2>2. CASE task[s].call = "create"
    BY <2>1, <2>2 DEF SyncInv, CreateInv, EarlyInv, Calls
  <2>3. CASE task[s].call # "create"
    <3>1. server'.here => server.here /\ (server'.audio <=> server.audio)
      BY <2>1, <2>3, ServedShape
    <3> QED BY <2>1, <3>1
  <2> QED BY <2>2, <2>3
<1>8. ASSUME NEW s \in Slots, Answered(s) PROVE UploadInv'
  <2>1. task[s].pc = "answer" /\ task[s].reply \in Replies /\ UNCHANGED <<server, file, transfer>>
    BY <1>8, TaskFields DEF Answered
  <2>2. CASE task[s].call = "create"
    BY <2>1, <2>2 DEF SyncInv, CreateInv, EarlyInv, Calls
  <2>3. CASE task[s].call # "create"
    <3>1. Upsert(task[s].reply).pending <=> (local.here /\ local.pending)
      BY <2>1, UpsertShape
    <3>2. local' \in {local, NoJob, Upsert(task[s].reply)} /\ url' = url
      BY <1>8, <2>3, AnsweredMoves
    <3>3. (local'.here /\ local'.pending) => (local.here /\ local.pending)
      BY <3>1, <3>2 DEF NoJob
    <3> QED BY <2>1, <3>2, <3>3
  <2> QED BY <2>2, <2>3
<1>9. ASSUME NEW s \in Slots, TransferEnds(s) PROVE UploadInv'
  <2>1. (server'.here <=> server.here) /\ (server.audio => server'.audio)
    BY <1>9, TransferTypes DEF TypeOK, Rows
  <2> QED BY <1>9, <2>1, TransferTypes
<1> QED BY <1>0, <1>1, <1>2, <1>3, <1>4, <1>5, <1>6, <1>7, <1>8, <1>9, StepCases

-----------------------------------------------------------------------------
LEMMA InitLemma ==
  ASSUME Init
  PROVE  TypeOK /\ SyncInv
<1>1. TypeOK
  <2>1. server \in Rows
    BY DEF Init, Rows, Statuses, Empty
  <2>2. task \in [Slots -> Tasks]
    BY TaskShapes DEF Init
  <2> QED BY <2>1, <2>2 DEF Init, TypeOK
<1>2. SyncInv
  BY DEF Init, SyncInv, CreateInv, UnbornInv, EarlyInv, StampInv, UploadInv, RecordingKept,
         Calls, NoTask, NoJob
<1> QED BY <1>1, <1>2

\* The inductive invariant: whatever fails, is delayed or is killed, and however
\* many tasks there are.
THEOREM SyncIsInductive == Spec => [](TypeOK /\ SyncInv)
<1>1. Init => TypeOK /\ SyncInv
  BY InitLemma
<1>2. TypeOK /\ SyncInv /\ [Next]_vars => (TypeOK /\ SyncInv)'
  BY TypeStep, CreateStep, UnbornStep, EarlyStep, StampStep, UploadStep DEF SyncInv
<1> QED BY <1>1, <1>2, PTL DEF Spec

\* A registered recording is on the disk or on the server until its job is
\* deleted (RecordingKept).
THEOREM RecordingsAreKept == Spec => []RecordingKept
<1>1. TypeOK /\ SyncInv => RecordingKept
  BY DEF SyncInv, UploadInv
<1> QED BY <1>1, SyncIsInductive, PTL

\* An edit that is newer than the server's copy is in the store, unpushed
\* (EditKept), however many edits and pushes overlap.
THEOREM EditsAreKept == Spec => []EditKept
<1>1. TypeOK /\ SyncInv => EditKept
  BY DEF SyncInv, StampInv, EditKept
<1> QED BY <1>1, SyncIsInductive, PTL

=============================================================================
