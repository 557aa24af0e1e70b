----------------------------- MODULE PdfRenderer -----------------------------
(***************************************************************************)
(* PdfRendererService: the renders of one worker process share a browser   *)
(* that is launched on demand, may die at any time, and is closed when the *)
(* process is told to stop.  One action per await.  A render whose stage   *)
(* timed out goes on, though its job no longer waits for it.  Chromium and *)
(* the order of Nest's shutdown hooks (onModuleDestroy, then               *)
(* onApplicationShutdown) are external.                                    *)
(***************************************************************************)
EXTENDS FiniteSets

CONSTANTS
  Renders,   \* calls of render() that may be under way together
  Browsers,  \* identities of Chromium processes, used again once forgotten
  None       \* null

ASSUME NoneAssumption == None \notin Browsers

VARIABLES
  browser,    \* this.browser
  launching,  \* this.launching: the promise of this browser
  chromium,   \* the state of each Chromium process
  page,       \* the renders that have a page open in it
  pc, on,     \* where each render is, and the browser it was given
  late,       \* the renders whose stage has timed out
  shutdown,   \* how far the worker process is with stopping
  closing     \* the browser that onModuleDestroy waits for

worker == <<late, shutdown, closing>>
vars == <<browser, launching, chromium, page, pc, on, worker>>

Init ==
  /\ browser = None /\ launching = None
  /\ chromium = [b \in Browsers |-> "down"] /\ page = [b \in Browsers |-> {}]
  /\ pc = [r \in Renders |-> "idle"] /\ on = [r \in Renders |-> None]
  /\ late = {} /\ shutdown = "no" /\ closing = None

\* this.browser?.connected
Connected == browser # None /\ chromium[browser] = "up"

\* A process that nothing refers to any more, so that its identity is free.
Forgotten(b) ==
  /\ chromium[b] = "down" /\ browser # b /\ launching # b /\ closing # b
  /\ \A r \in Renders : on[r] # b

At(r, where, b) == pc' = [pc EXCEPT ![r] = where] /\ on' = [on EXCEPT ![r] = b]

\* Mutant: every first render launches a browser of its own.
JoinsNone == FALSE

\* Concurrent first renders are collapsed into one launch.
Joins == launching # None

\* Mutant: a worker that is closing goes on taking jobs.
TakeJobAlways(r) ==
  /\ pc[r] = "idle" /\ shutdown # "exited"
  /\ At(r, "job", None)
  /\ late' = late \ {r}
  /\ UNCHANGED <<browser, launching, chromium, page, shutdown, closing>>

\* The worker takes a job that is going to render; it takes jobs until
\* onApplicationShutdown calls worker.close().
TakeJob(r) ==
  /\ pc[r] = "idle" /\ shutdown \in {"no", "closing"}
  /\ At(r, "job", None)
  /\ late' = late \ {r}
  /\ UNCHANGED <<browser, launching, chromium, page, shutdown, closing>>

\* render() up to its first await: getBrowser returns the browser, or the
\* promise of the launch that is under way, or starts one.
Start(r) ==
  /\ pc[r] = "job"
  /\ \/ Connected /\ At(r, "newPage", browser) /\ UNCHANGED <<launching, chromium>>
     \/ ~Connected /\ Joins /\ At(r, "launch", launching) /\ UNCHANGED <<launching, chromium>>
     \/ /\ ~Connected /\ ~Joins
        /\ \E b \in Browsers :
             /\ Forgotten(b)
             /\ launching' = b
             /\ chromium' = [chromium EXCEPT ![b] = "starting"]
             /\ At(r, "launch", b)
  /\ UNCHANGED <<browser, page, worker>>

\* puppeteer.launch resolves: the then() of getBrowser.
Launched(b) ==
  /\ chromium[b] = "starting"
  /\ chromium' = [chromium EXCEPT ![b] = "up"]
  /\ browser' = b /\ launching' = None
  /\ UNCHANGED <<page, pc, on, worker>>

\* Mutant: a launch that failed stays in place.
LaunchFailedKept(b) ==
  /\ chromium[b] = "starting"
  /\ chromium' = [chromium EXCEPT ![b] = "down"]
  /\ UNCHANGED <<browser, launching, page, pc, on, worker>>

\* puppeteer.launch rejects: the catch() of getBrowser.
LaunchFailed(b) ==
  /\ chromium[b] = "starting"
  /\ chromium' = [chromium EXCEPT ![b] = "down"]
  /\ launching' = None
  /\ UNCHANGED <<browser, page, pc, on, worker>>

\* Mutant: a rejected launch does not reach the renders that wait for it.
ResumeLaunched(r) ==
  /\ pc[r] = "launch" /\ chromium[on[r]] = "up"
  /\ At(r, "newPage", on[r])
  /\ UNCHANGED <<browser, launching, chromium, page, worker>>

\* The promise a render waits for is settled; a rejection ends the render.
Resume(r) ==
  /\ pc[r] = "launch" /\ chromium[on[r]] # "starting"
  /\ \/ chromium[on[r]] = "up" /\ At(r, "newPage", on[r])
     \/ chromium[on[r]] = "down" /\ At(r, "idle", None)
  /\ UNCHANGED <<browser, launching, chromium, page, worker>>

\* browser.newPage(); it throws when the browser is gone.
NewPage(r) ==
  /\ pc[r] = "newPage"
  /\ \/ /\ chromium[on[r]] = "up"
        /\ page' = [page EXCEPT ![on[r]] = @ \cup {r}]
        /\ At(r, "content", on[r])
     \/ At(r, "idle", None) /\ UNCHANGED page
  /\ UNCHANGED <<browser, launching, chromium, worker>>

\* Mutant: the page is only closed when the PDF could be made.
PrintPdfUnlessThrown(r) ==
  /\ pc[r] = "content"
  /\ (chromium[on[r]] = "up" /\ At(r, "close", on[r])) \/ At(r, "idle", None)
  /\ UNCHANGED <<browser, launching, chromium, page, worker>>

\* setContent and page.pdf, which may throw: the finally block runs either way.
PrintPdf(r) ==
  /\ pc[r] = "content"
  /\ At(r, "close", on[r])
  /\ UNCHANGED <<browser, launching, chromium, page, worker>>

\* page.close(); it throws when the browser is gone.
ClosePage(r) ==
  /\ pc[r] = "close"
  /\ page' = [page EXCEPT ![on[r]] = @ \ {r}]
  /\ At(r, "idle", None)
  /\ UNCHANGED <<browser, launching, chromium, worker>>

\* A Chromium process ends, and its pages with it.
Gone(b) ==
  /\ chromium' = [chromium EXCEPT ![b] = "down"]
  /\ page' = [page EXCEPT ![b] = {}]

\* It is killed, or crashes.
Die(b) ==
  /\ chromium[b] = "up"
  /\ Gone(b)
  /\ UNCHANGED <<browser, launching, pc, on, worker>>

\* SIGTERM: onModuleDestroy up to the await of close().
Destroy ==
  /\ shutdown = "no"
  /\ closing' = browser
  /\ shutdown' = IF browser = None THEN "drain" ELSE "closing"
  /\ UNCHANGED <<browser, launching, chromium, page, pc, on, late>>

\* close() settled, its failure ignored.  What is in this.browser by now is
\* dropped: when the closing browser lost its connection first, that may be
\* another one that a render launched meanwhile.
Destroyed ==
  /\ shutdown = "closing"
  /\ Gone(closing) \/ UNCHANGED <<chromium, page>>
  /\ browser' = None /\ closing' = None
  /\ shutdown' = "drain"
  /\ UNCHANGED <<launching, pc, on, late>>

\* withTimeout gives the render up: its job goes on to fail, the render goes on.
StageTimesOut(r) ==
  /\ pc[r] \notin {"idle", "job"} /\ r \notin late /\ shutdown # "exited"
  /\ late' = late \cup {r}
  /\ UNCHANGED <<browser, launching, chromium, page, pc, on, shutdown, closing>>

\* onApplicationShutdown: worker.close() waits for the jobs it has taken, and
\* the process ends, in the middle of a render that no job waits for.
Drained ==
  /\ shutdown = "drain"
  /\ \A r \in Renders : pc[r] = "idle" \/ r \in late
  /\ shutdown' = "exited"
  /\ UNCHANGED <<browser, launching, chromium, page, pc, on, late, closing>>

\* What the process does next, for as long as there is one.
RenderStep(r) ==
  /\ shutdown # "exited"
  /\ Start(r) \/ Resume(r) \/ NewPage(r) \/ PrintPdf(r) \/ ClosePage(r)

Settled(b) == shutdown # "exited" /\ (Launched(b) \/ LaunchFailed(b))

Next ==
  \/ \E r \in Renders : TakeJob(r) \/ RenderStep(r) \/ StageTimesOut(r)
  \/ \E b \in Browsers : Settled(b) \/ Die(b)
  \/ Destroy \/ Destroyed \/ Drained

Spec == Init /\ [][Next]_vars

\* The event loop runs every continuation, puppeteer settles a launch and a
\* close (it has timeouts for them), and Nest runs its hooks.
Fairness ==
  /\ \A r \in Renders : WF_vars(RenderStep(r))
  /\ \A b \in Browsers : WF_vars(Settled(b))
  /\ WF_vars(Destroyed) /\ WF_vars(Drained)

FairSpec == Spec /\ Fairness

-----------------------------------------------------------------------------
\* Every part of the state has its shape.
TypeOK ==
  /\ browser \in Browsers \cup {None} /\ launching \in Browsers \cup {None}
  /\ chromium \in [Browsers -> {"down", "starting", "up"}]
  /\ page \in [Browsers -> SUBSET Renders]
  /\ pc \in [Renders -> {"idle", "job", "launch", "newPage", "content", "close"}]
  /\ on \in [Renders -> Browsers \cup {None}]
  /\ late \subseteq Renders /\ shutdown \in {"no", "closing", "drain", "exited"}
  /\ closing \in Browsers \cup {None}

\* this.launching is exactly the launch that is under way: no two launches run at
\* a time, even while the process stops, and a launch that failed is not joined by
\* later renders (which would all fail with it for the life of the process).
LaunchingIsPending == \A b \in Browsers : launching = b <=> chromium[b] = "starting"

\* Until the process is told to stop, there is one browser at most ("One browser
\* is launched lazily and reused across jobs"), across crashes of Chromium, failed
\* launches and renders that start in the middle of both.
OneBrowser ==
  shutdown = "no" =>
    \A b, c \in Browsers : chromium[b] # "down" /\ chromium[c] # "down" => b = c

\* A page stays open no longer than its render runs, however that ends: the shared
\* browser does not fill up with the pages of failed jobs.
PagesClosed ==
  \A b \in Browsers : page[b] \subseteq {r \in Renders : pc[r] \in {"content", "close"} /\ on[r] = b}

\* The inductive invariants behind them: what this.browser and onModuleDestroy
\* refer to is past its launch;
SettledInv ==
  /\ browser # None => chromium[browser] # "starting"
  /\ closing # None => chromium[closing] # "starting"

\* and a browser that is up is the one this.browser refers to, and none is up while
\* another is being launched.
KnownInv ==
  shutdown = "no" => \A b \in Browsers :
    /\ chromium[b] = "up" => browser = b
    /\ chromium[b] = "starting" => ~Connected

-----------------------------------------------------------------------------
\* Every render ends, whatever browser it was given or waits for, also the ones
\* that no job waits for any more: only the end of the process cuts one short.
RenderEnds == \A r \in Renders : pc[r] = "job" ~> (pc[r] = "idle" \/ shutdown = "exited")

\* A process that is told to stop does stop: the renders that worker.close() waits
\* for do not wait for the browser that onModuleDestroy closed before.
StopEnds == shutdown # "no" ~> shutdown = "exited"

=============================================================================
