# FieldNote: TLA+ specifications

FieldNote turns a recorded walkthrough into an inspection report. An iOS app records audio, creates
a job at a NestJS API, uploads the audio to R2 through a presigned URL and asks the API to process
the job. The API writes the job's status to Postgres and adds an entry to a BullMQ queue in Redis. A
worker takes the entry, transcribes, compiles and renders, and the app polls until the job is READY
or FAILED. This directory models the parts in which the order of things matters, checks them with
TLC and proves the central safety properties with TLAPS.

## Inventory

| Component | State | Operations | Talks to | Hard behaviours | Correct when |
|---|---|---|---|---|---|
| `PipelineService` | the `Job` row, the PDF object | `process`, three stages, `runStage`, `markFailed` | repository, media, STT, LLM, renderer | a timeout leaves the stage body running; any query may throw after an earlier one committed | READY implies transcript and PDF; the PDF shows the report; every run settles |
| `ProcessingProcessor` | BullMQ worker, DLQ | `onModuleInit`, `handleFailure` | pipeline, Redis | the listener runs after the entry was settled and may be lost | terminal failures are marked and parked; attempts are bounded |
| `ProcessingQueueService` | the BullMQ entry | `enqueueProcessing` | Redis | four Redis calls that other requests interleave with | one run at a time; nothing is lost |
| `JobsService`, `JobsRepository` | `Job`, `ReportSection`, `Finding`, `ProcessingEvent` rows | create, list, get, update, process, remove, getPdfUrl | media, queue | status read, awaited over and overwritten; deletion beside processing; idempotency keys; cursors of deleted rows; overlapping replacements of a report | an in-flight job is attended to; a served PDF exists; one key, one job; a page repeats and loses nothing |
| `MediaService` | objects in the bucket | presign, head, get, put, delete | R2 | an object may appear after its job was deleted | |
| `AuthService`, `TokenService` | `RefreshToken` rows | `signInWithApple`, `refresh` | Prisma | check and rotation are separate; answers are lost and requests resent | a token is used once; an orderly client is never locked out |
| `APIClient`, `SessionStore` | tokens, `refreshTask`, keychain, `phase` | sign-in, sign-out, refresh, request with resends | API | actor reentrancy at every `await`; sign-out beside a refresh; restart | one refresh at a time; refreshes end; the phase follows the session |
| `JobSyncService`, `JobStore` | SwiftData jobs, `activeJobIds` | refresh, startReport, poll, saveEdits, retry, delete | API client, uploader | answers applied out of order; app killed between upload and process; edits beside a push; two drives of one job | a recording is kept until it is uploaded; edits are not lost; every spinner stops |
| `AudioUploader` | background uploads, the session | upload, completion callback | R2, sync | completion after relaunch | an interrupted upload is resumed |
| `AudioRecorder`, `RecordingView` | the recorder | start, stop, cancel | AVFoundation | double stop | |
| `ReportCompilerService`, providers, report schema | none | `compile`, `normalize` | LLM | malformed output, one repair attempt | order by severity, nothing lost or invented |
| `PdfRendererService`, `report-html` | a shared browser | `render`, shutdown | Chromium | launch shared by concurrent renders, death of Chromium, shutdown in the middle | one browser, no page left open, renders and the shutdown end; the PDF tells what the API tells |
| Configuration (`env.ts`) | none after boot | `loadConfig` | all | validation and use computed apart | production is never mocked; missing keys fail at boot |
| Controllers, guard, exception filter, DTOs | none | one per route | services | | statuses and validation |
| Health, logging, queue board, views | none that changes | | | | |

## Modules

| Module | Models |
|---|---|
| `JobState` | constants, variables, `Init`, and `JobsRepository`'s writes to one job |
| `ProcessingQueue` | `enqueueProcessing` and BullMQ's life of an entry (the library's part is external) |
| `Pipeline` | `PipelineService` and `ProcessingProcessor.handleFailure` |
| `JobsService` | POST process, PATCH, DELETE, the client's upload, what GET pdf serves |
| `JobSystem` | composes the four: `Next`, fairness, properties, inductive invariants, the refinement mapping |
| `ReportLifecycle` | abstract: what FieldNote promises about one report |
| `JobSystemProofs` | theorems about `JobSystem`, among them the refinement |
| `JobFidelityProofs` | theorems about `JobSystem` that need conditions on its faults, edits or triggers |
| `JobsApi`, `JobsApiProofs` | many jobs of several users: create with idempotency keys behind the guard and the exception filter, delete, cursor pages |
| `ReportTree` | the report's contents as operators: schema, normalisation, PATCH validation, rows, mapper, HTML |
| `Config` | which environments are accepted and which providers they select |
| `ReportFlow`, `ReportFlowProofs` | composes the two: boot, compile, PATCH, and the replacing transactions statement by statement |
| `ReportContentProofs` | what the conversions of `ReportTree` preserve, and that what is stored is what was said |
| `PdfRenderer`, `PdfRendererProofs` | the shared browser, its renders and the worker's shutdown |
| `JobSync`, `JobSyncProofs` | the app's sync layer: `JobSyncService`, `JobStore`, `AudioUploader` |
| `AuthService` | refresh-token rows and `AuthService.refresh` |
| `ApiClient`, `ApiClientProofs` | `APIClient` and `SessionStore` against `AuthService`; properties |
| `MCJobSystem`, `MCJobsApi`, `MCReportFlow`, `MCApiClient` | inputs and symmetry sets for TLC |

### The job's life

`status`, `transcript`, `report`, `pdfKey`, `errorMessage` and `deleted` are the `Job` row; a transcript
is there or not, a report is `Empty` or one of `Reports`. `audio` and `pdf` are the two objects; `pdf` is
the report it was rendered from. `queue` is the BullMQ entry with the job's id: its state, its attempts,
how often it stalled and who holds its lock. `inv` holds the worker's invocations, `late` the stage bodies
that outlived their timeout, `trigger` and `del` the API requests in progress. Jobs share nothing, so one
is enough.

An invocation's `pc` names the next await: `load` (`findById` and the early returns), `stage`
(`setStatus` and the started event), `call` (the external call), `put` (`putObject`), `save` (the stage's
write and the completed event), `markRead`/`markSet` (`markFailed` inside `process`), `settle` (BullMQ
records the outcome, and the listener's own test decides whether the failure is terminal) and `failRead`/`failSet`/`failDlq` (the failed listener). Inserts of
`ProcessingEvent` rows are merged with the write before them, because nothing reads the rows; that an
insert can throw after that write committed is kept. `Timeout` hands the stage body to a closure in
`late`, which goes on with the same writes. A request's `pc` walks `process()` and the Redis calls of
`enqueueProcessing` in the same way. PATCH is one step because its transaction checks ownership again.

Faults are named in `Faults` and, except timeouts and failing clean-ups, counted by `faults`: `crash`
(the worker dies), `lockloss` (it runs on without its lock), `handlerloss` (the failed listener throws or
dies), `apiloss` (a request throws or dies half way), `cleanup` (object deletion fails), `timeout`. Any
query or call inside `process()` may throw at any time, without a fault.

External behaviour, taken from how `src/` uses it: BullMQ refuses to remove a locked entry, ignores an
`add` whose id exists, drops the result of a worker without its lock, returns an entry whose lock expired
to the queue and fails it unprocessed once it stalled more than `maxStalledCount` times. Whether a failed
entry is retried (`Exhausted`, BullMQ's decision before the attempt is counted) and whether `handleFailure`
parks it (`Terminal`, its own test after) are two definitions; a job is lost when they disagree.

### Sessions

`token` is the `RefreshToken` table of one user; a token remembers what it was traded for. A request
checks the row, then either rotates it in one transaction, revokes the chain, or is denied. On the client,
`flight` holds a refresh task together with the `refreshTokens` call that owns it, `refreshTask` the one
that callers join, `tokens` what memory and keychain hold, and `main` what waits for the main actor, which
runs it in the order of arrival: the rest of a sign-in, of a sign-out, or `handleAuthExpired`. `LoseReply`
is a transport error or a 5xx, after which `performData` sends again while attempts remain and the server
may still be handling the first request. Callers that join a refresh are not represented: they only wait.
A sign-in is one step from its request to `applyTokens`: nothing of the client reads what it issues
before. The keychain is not seen to fail. `Restart` keeps only what the keychain holds.

### The abstract lifecycle

`ReportLifecycle` has four facts about a report: transcribed, rendered, offered, withdrawn. Rendering needs
the transcript, an offer needs the PDF, a deleted job is never offered again, and only a deleted job's PDF may
disappear. `JobSystem!ImplementsLifecycle` maps them to the row and the bucket (`offered` is what `getPdfUrl`
serves). No order of triggers, attempts, late bodies, crashes and deletions leaves it: `live` checks it on an
instance and `LifecycleImplemented` proves it.

### The jobs API

`row` is the `Job` table in the order of `createdAt` (an id is a position; equal times are ordered by id, as
the query does), with `userId`, the idempotency key and whether it was deleted. `create[c]` is one POST: the
guard and the header's trimming in `CreateRequest`, `findByIdempotencyKey` in `CreateFind`, the insert under
the unique index in `CreateInsert`. A unique violation goes through `MapPrisma` and `Normalize` like every
other error. `pager[p]` is a client that asks for page after page as `JobSyncService.refresh` does; it
remembers the jobs that were there when it began and how often its cursor's row was deleted meanwhile.

### A report's contents

`ReportTree` has the conversions that a report goes through, each over records with texts as model values
(a text has a length and may have blanks around it): the provider's schema, `normalize` (drop empty sections,
trim, sort by severity), `UpdateJobDto` and `toReportInput`, rows and `sortOrder`, `jobToDto`,
`toReportView` and the document with its summary chips. Sorting, filtering and ordering by `sortOrder` all pick
an entry by its rank (how many come before it), so that no definition is recursive. `Config` evaluates an environment like `env.ts`:
accepted or not, mocks or not, which transcriber, compiler and Apple verifier.

`ReportFlow` runs them. `Boot` takes any of the environments; `StartCompile`, `CompileAnswer` are
`compileStage` with the service's one retry; `PatchReport`, `PatchLabel`, `Remove` are requests. A replacement is
`BeginReplace` (the ownership check, for PATCH), `DeleteFindings`, `ReadSections` and `DeleteSections`, `Commit`, with
PostgreSQL's READ COMMITTED: a statement sees what is committed when it starts, and waits for a row that
another transaction deleted. `Rollback` is Prisma's transaction timeout. `wrote` keeps what every write
was given, so that the properties compare what is read back with what was said.

### The renderer

`browser`, `launching` are the service's fields, `chromium[b]` the life of a process, `page[b]` its open pages.
A render's `pc` walks `render()`: take the job, get the browser (connected, joined or launched), new page,
content and PDF, close. Chromium may fail to launch and may die at any time, after which calls on it throw.
`StageTimesOut` is `withTimeout` giving a render up: its job ends, the render goes on as one of `late`.
`Destroy`, `Destroyed`, `Drained` are Nest's hooks in their order: `onModuleDestroy` closes the browser it knows,
then `onApplicationShutdown` waits for the jobs the worker holds, so not for late renders, and the process ends; a job that is under way may launch another browser in
between, which is why `OneBrowser` speaks of the time before.

### The app's sync layer

`server` is the job as the API has it, with the pipeline's stages in one; `local` the copy in SwiftData;
`file`, `url`, `active` the recording, the presigned URL and `activeJobIds`; `task[s]` a Swift task: about to
start, uploading, with a call on its way or with its answer. Tasks interleave only at awaits, since the
service is on the main actor. A call has its effect in `Ask`, is applied in `Answered`, and may fail before or
after its effect in `CallFails`. `transfer` are uploads that a task awaits, `orphan` those that killed processes began: the
system goes on with them, storage looks at the signature when the request begins (so an upload that began in time may
outlast its URL, and one that the system begins late is refused), and `OrphanReturns` is the callback for a task nobody awaits, once this process
has made the session (`AudioUploader.session` is lazy). `Restart` kills the app anywhere, also while orphans run. Clocks are one
counter: a skew between phone and server is outside the model.

## Runs

Passing:

| Run | Instance | Shows |
|---|---|---|
| `safety` | 2 invocations, 1 late body, 2 triggers, 1 deletion, edits, 1 attempt, one lost lock, timeouts | `TypeOK`, `PdfServedExists`, `ReadyHasTranscript` |
| `fidelity` | 2 invocations, 3 triggers, 1 deletion, 2 attempts, one crash or loss; no edits or timeouts | `OneInvocation`, `PdfShowsReport`, `LoadedReportWasCompiled`, `ReadyNotRestaged` |
| `live` | 2 invocations, 1 trigger, 1 late body, 1 deletion, 2 attempts, two crashes, timeouts | `InFlightIsAttended`, `InFlightSettles`, `FailedIsParked`, `ImplementsLifecycle` |
| `api` | 2 users, 4 jobs, 2 creates under way, one key in four spellings of the header, 1 client with pages of 1 or 2 | `AnswersAgree`, `NoServerError`, `PagesInOrder`, `PagesComplete` |
| `flow` | 2 writers, 3 writes, the environments, provider answers and edits of `MCReportFlow` | `CompiledFaithfully`, `EditedFaithfully`, `PdfTellsAll`, `NeverFabricated`, `CalledProvidersHaveKeys`, `MergedOnlyWhenBare` |
| `renderer` | 2 renders, 4 Chromium processes at a time | `OneBrowser`, `LaunchingIsPending`, `PagesClosed`, `RenderEnds`, `StopEnds` |
| `sync` | 2 tasks, 2 polls, 2 requests of the user besides the first list, 1 failure or kill | `RecordingKept`, `EditKept`, `SpinnerStops`, `InterruptedUploadResumes` |
| `auth_orderly` | 5 tokens, 2 requests, 2 refresh tasks; sign-outs and expiries, nothing lost | `StoredTokenIsLive`, `SingleUse` |
| `auth_live` | 5 tokens, 2 requests, 2 refresh tasks, 2 sends; lost answers, sign-outs, restarts | `TypeOK`, `SingleFlight`, `PhaseFollowsSession`, `RefreshEnds` |

What the code does against its own words (each run finds the violation):

| Run | Property | What happens |
|---|---|---|
| `stuck` | `InFlightIsAttended` | Two POST process: the second read the job before the first queued it and writes QUEUED when the first run is done but its entry still active. `enqueueProcessing` skips, the status stays QUEUED, and every later trigger returns early. |
| `merged` | `OneReport` | A compiled report and a PATCH, or two PATCHes, replace a report without findings at the same time. Neither has a row to wait for, and the job keeps the sections of both. |
| `auth_twice` | `SingleUse` | A resend of a refresh overlaps the original, and both trade the same token. |

Conditions of the passing runs that matter in practice. `PdfShowsReport` and `LoadedReportWasCompiled`
need that nobody edits: `update()` accepts sections for a job of any status, never renders again, and a
report written before processing is taken for a compiled one. `PdfShowsReport` also needs that no stage
times out, since a late `compile` body may replace a report after another attempt rendered its own.
`InFlightIsAttended` and `InFlightSettles` need a single trigger, as `stuck` shows, and no lost listener; a
request that is lost between `setStatus(QUEUED)` and `queue.add` leaves a job unattended too.
`PagesComplete` allows one missed job for each page asked for with the cursor of a job deleted meanwhile.
`InterruptedUploadResumes` speaks of the last kill, with no failure after it, and of a URL that has not expired.

**Bounds.** Two invocations are needed and enough for one to overtake another, since `concurrency` and
several worker processes only add more of the same. Three triggers are needed for a second and a third to find the same
finished entry and remove and add it under each other; two for one to be stale. One late body besides two
invocations already overlaps three writers of a row. `MaxAttempts` is the smallest number at which the
behaviour of interest occurs (1 where re-triggers and stalls provide the repetition, 2 where BullMQ
retries). `MaxFaults` bounds crashes and losses only. `MaxTokens` bounds how many tokens are issued;
`Spare` lets a new sign-in or refresh start only if every request under way and every attempt that is left can still
get its token, so the bound never blocks one half way. Five tokens suffice for the refresh of a session that was signed out
to clear the `refreshTask` of the next one, and for two refreshes to wait for answers together. In `api`, four jobs make two full pages and a deleted cursor between
them, and both creates can meet at one key before, between and after a deletion. In `flow`, two writers
overlap and a third write follows what they left; the environments vary every variable that `Config` reads.
`MCReportFlow`'s
answers have findings that tie, one that must come first, a section without findings, and each way in
which an answer is invalid; its edits number sections and findings out of order. In `renderer`, four processes let one die, one be launched for it and
one be launched during the shutdown; a process that is gone and that nobody refers to is reused. In `sync`, two
requests let a second drive, a poll, an edit or a deletion overlap the report that is being made; two edits and their overlapping
pushes need three, which only safety affords: with them the states are fourfold, `EditKept` and the
inductive invariant were checked so, and `EditsAreKept` covers any number. A second
kill, with which uploads of two dead processes run at once, was checked with `MaxRequests` 1 and `MaxMishaps` 2 (137,519
states, all four properties); `RecordingsAreKept` covers any number of kills. `MaxPolls` is 60 in the code; only its
being finite matters. Triggers, deletions and requests are one-shot and a job may come to rest,
so deadlock is not checked. The proofs have no such bounds.

**Fairness.** Weak fairness on: a request's steps once it started (the API process runs on), an
invocation's steps (Node runs its continuations; a call that never returns is cut by the stage timeout, so
`Throw` or `Timeout` is always open), taking a waiting entry, promoting a delayed one and the stalled check
(BullMQ's timers). For sessions: sends, the server's steps, answers, resuming calls and the main actor.
For the renderer: a render's continuations, puppeteer's promises (each settles, by its own time-outs or
because the connection is gone) and Nest's hooks. For the app: the first load of the list after a launch, a task's steps
(calls end, with a time-out at worst) and transfers. None on users, uploads by hand, edits, deletions, late
bodies, stage timeouts of renders, deaths, the server's pipeline as the app sees it, or faults. The lost answers of `auth_live` are unfair too: they may happen every
time, and `RefreshEnds` holds because sends are counted.

## Proofs

All theorems hold for every value of the constants, from the `ASSUME`s of the modules (`MaxAttempts` and
the like are natural numbers, sets may be of any size, a report that comes from outside is a JSON tree) and, where a
theorem says so, from a condition on which faults, edits or triggers there are. Those conditions are the ones under
which the runs check the same property, and the runs `stuck` and `auth_twice` show what happens without them.

`JobSystemProofs`:

- `TypeCorrect`: `Spec => []TypeOK`. The bound on attempts is not inductive by itself; `QueueInv` adds that
  an entry that is not settled has an attempt left, and that only an active entry is locked.
- `ServedPdfExists`: `Spec => []PdfServedExists`, through `PdfInv`: an invocation or a late body that is about
  to write READY has uploaded its PDF, and only the deletion of the job removes one.
- `ReadyIsTranscribed`: `Spec => []ReadyHasTranscript`, through `TranscriptInv`: whoever compiles or renders,
  late bodies included, does so with the transcript saved.
- `InvocationsExclude`: `Spec => []OneInvocation`, through `LockInv`: without lost locks an invocation inside
  `process()` holds the entry's lock. The refusal to remove a locked entry is what carries it.
- `LifecycleImplemented`: `Spec => ImplementsLifecycle`. The same invariants show that every action is a step of
  `ReportLifecycle` or a stutter.

`JobFidelityProofs`, each under a stated condition:

- `ServedPdfIsCurrent`: without edits, timeouts and lost locks (`Undisturbed`, `Edits = {}`), `[]PdfShowsReport`. By `StagedInv`
  the job is not READY while an invocation is in a stage, so only that invocation can make it READY; by
  `FidelityInv` what it holds outside `compileStage` is the stored report, which it uploads.
- `ReadyStaysOutOfStages`: `Undisturbed` gives the action property `ReadyNotRestaged`, edits included: an attempt that loads
  a READY job returns, and one that is in a stage already keeps the job from being READY.
- `FoundReportWasCompiled`: without edits `[]LoadedReportWasCompiled`, whatever times out or loses its lock. By `CompiledInv` a stored
  report had a transcript to be compiled from, so an attempt that must transcribe found no report.
- `InFlightJobsAreAttended`: `OneQuietTrigger` (one trigger, no lost lock, listener or request) gives `[]InFlightIsAttended`, with
  timeouts, crashes and stalls. By `AttendedInv` the trigger finds no entry, so its `add` is never ignored, and what
  BullMQ records as completed left the job READY. `stuck` is the same property with two triggers.

`JobsApiProofs`: `CreatesAreIdempotent` (`AnswersAgree`), through `KeyInv`: the unique index, which deleted rows stay in,
makes a key name one job for ever. `CreatesNeverFail` (`NoServerError`): the unique violation of two creates that both found nothing is a 409.
`PagesAreOrdered` (`PagesInOrder`), through `CursorInv`: what was shown is not below the cursor, deleted or not.
`PagesAreComplete` (`PagesComplete`), through `PassedInv`: of the jobs that the cursor has passed, that were there at the
start and still are, all but one for each lost cursor were shown. A page takes rows by rank and has no gaps; the row it
skips is the cursor's, or, when that one was deleted, the missed job.

`ReportFlowProofs`: `OverlapNeedsBareReport` (`MergedOnlyWhenBare`): a transaction that deleted a finding holds its
row until it commits, so another that found findings either waits or sees the first one's. `ProductionIsReal`
(`NeverFabricated`) and `KeysAtBoot` (`CalledProvidersHaveKeys`): what `loadConfig` accepted fixes the providers for the
life of the process.

`ReportContentProofs`: `StoredEditsAreFaithful` (`EditedFaithfully`), `StoredCompilationIsFaithful` (`CompiledFaithfully`) and `PrintedReportTellsAll`
(`PdfTellsAll`), for reports of any size. One half is about data. In a finite strict total order the ranks are exactly the
numbers below the size of the set (`RankBijective`, by counting, without induction); hence a stable sort is a permutation in
the order of the keys (`SortPlaces`), a filter lists what it keeps once and in order (`NthKept`), rows that are numbered
from zero read back as they were numbered (`ReadInOrder`), and each conversion is what the properties say
(`EditRead`, `CompiledRead`, `StoredRead`, `PrintedRead`). The other half is `StoredInv`: what is stored was admitted by the pipe or the
schema (`AdmittedInv`), and of each replacement all rows are there or none (`WholeInv`), because the second `deleteMany` takes all
sections of a replacement or none (`TakesWhole`). So two reports may stand side by side, as `merged` shows, but
never a part of one. `Filter` stands where `SelectSeq` might: the prover knows nothing of that operator.

`PdfRendererProofs`: `LaunchesAreShared` (`LaunchingIsPending`) and `BrowserIsShared` (`OneBrowser`), through `SettledInv` and
`KnownInv`: a browser that is up is the one the service knows, and none is launched while it is connected. `PagesAreClosed`
(`PagesClosed`): an open page is that of a render which is still to close it.

`ApiClientProofs`: `SessionTypeCorrect` (`TypeOK`) and `RefreshIsSingleFlight` (`SingleFlight`) hold with every fault. A token
is in one place: the refresh that presents or brings it, the answer that grants it, or the store; only the task that
callers join presents the stored one (`OnePlaceInv`). Whatever is stored or under way was issued (`IssuedInv`). `OrderlyClientKeepsSession` (`StoredTokenIsLive`) and `OrderlyRotationIsSingleUse` (`SingleUse`) are for a client that loses no answer and is
not killed (`Orderly`): then a token is presented once (`PresentedOnceInv`), so the server rotates it once
(`TradedInv`) and what the client holds is live (`LiveInv`). `auth_twice` shows that a lost answer breaks the second.

`JobSyncProofs`: `RecordingsAreKept` (`RecordingKept`) and `EditsAreKept` (`EditKept`), both from `SyncInv`. The job is created
once (`CreateInv`); until then nothing is known of it (`UnbornInv`), so no answer can be of an earlier life;
until its URL is stored nothing is uploaded (`EarlyInv`); an answer is no newer than the server, so that an edit the
server has not seen wins against every answer (`StampInv`); an upload that succeeded is on the server for as
long as the job is (`UploadInv`).

Each step lemma has one case per action. The `...Moves` and `...Shape` lemmas state once what an action or a
helper does and are shared by them.

Only model-checked: liveness, since fairness and leads-to are out of the prover's reach (`InFlightSettles`, `FailedIsParked`, `PhaseFollowsSession`,
`RefreshEnds`, `RenderEnds`, `StopEnds`, `SpinnerStops`, `InterruptedUploadResumes`). Every invariant and every action property of a passing run has its
theorem.

## Disagreements without a run

Met while modelling; the models contain them, and the properties above are stated so that they hold with
them or are checked where they cannot occur.

- `pdf-renderer.service.ts:66`: a browser that a render launches after `onModuleDestroy` is closed by nobody.
- `pipeline.service.ts:98`: when `setPdfReady` commits and its completed event throws on the last attempt, `markFailed`
  turns READY into FAILED.
- `pipeline.service.ts:92` ("never writes a duplicate event"): a trigger between `process()`'s `markFailed` and the
  listener's makes the listener write a second event.
- `jobs.controller.ts:94` ("remove its R2 objects"): a PDF uploaded during or after the deletion stays.
- `processing.processor.ts:84`: a failure handler that throws or dies leaves the status in flight, since BullMQ has
  settled the entry before.
- `pipeline.service.ts:146` ("a prior attempt already compiled"): a PATCH may have stored the report; and an edit that is
  committed while the provider compiles is overwritten.
- `jobs.service.ts:72`: a PATCH of a READY job leaves its old PDF.
- `APIClient.swift:266`: a refresh that has its answer when `signOut` runs stores its tokens afterwards.
- `jobs.controller.ts:41` ("De-dupes retried creates."): of two overlapping creates with one key the second is a 409, not a
  replay; so is every create with the key of a deleted job.
- `JobSyncService.swift:33` ("Pulls all of the user's jobs"): a job is missing from the pull when the cursor's row is deleted between two pages.
- `worker.ts:12` ("drain the worker + Prisma cleanly"): `onModuleDestroy` closes the browser and Prisma before the worker is drained.
- `users.service.ts:11` ("keep the first non-null"): a later non-null value overwrites.
- `deepseek.provider.ts:74` ("Let the service's validate-then-retry policy handle the recovery"): the error it throws bypasses
  the retry, which is for answers that fail validation.
- `AudioUploader.swift:22`: the session is lazy, so the completion of an upload that a killed process began is heard only after the next
  `upload()`; that path also leaves the audio file on the disk.
- `JobSyncService.swift:130` ("so concurrent pollers don't pile up"): two drives can be started, since the claim is made when the task runs; the first to end
  removes the other's.
- `JobStore.swift:61`: an older answer that arrives later overwrites the fields of a copy that has no unpushed edit; an answer that arrives after
  `store.delete` inserts the job again.
- `JobStore.swift:170` ("so the next sync pushes it"): nothing calls `pushPendingEdits`, so an edit whose push failed
  waits for the next edit.
- `JobSyncService.swift:113`, `:60`, `:99`: a job whose upload succeeded and whose `processJob` failed, one whose URL expired,
  and a recording whose `createJob` failed are never driven again.

## Not modelled

Cryptographic verification of identity and access tokens, the user's upsert (one statement), HTTP routing and rate limits, health, logging,
the queue board, the layout of HTML and views, the edit screen's buffer, and the recorder (AVFoundation's
state; the models start from the file it leaves). Providers of transcription are their outcomes: text, none, or a failure.
Presigned URLs are valid or expired. Ownership is checked in `JobsApi`; in the single-job models only the
owner's requests reach a job.

## Plan

What is left is to weaken conditions where the code carries more than the theorems ask: `InFlightIsAttended` for triggers
that do not overlap, and `PdfShowsReport` with timeouts when late bodies do not compile.
