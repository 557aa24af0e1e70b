-------------------------- MODULE PdfRendererProofs --------------------------
(* Proofs about the shared browser, for any number of renders and launches.  *)
EXTENDS PdfRenderer, TLAPS

\* Every action keeps the state well-formed.
LEMMA TypeStep == TypeOK /\ [Next]_vars => TypeOK'
<1> SUFFICES ASSUME TypeOK, [Next]_vars PROVE TypeOK'
  OBVIOUS
<1> USE DEF TypeOK, At, worker
<1>1. ASSUME NEW r \in Renders, TakeJob(r) PROVE TypeOK'
  BY <1>1 DEF TakeJob
<1>2. ASSUME NEW r \in Renders, Start(r) PROVE TypeOK'
  <2>1. CASE Connected /\ At(r, "newPage", browser) /\ UNCHANGED <<launching, chromium>>
    BY <1>2, <2>1 DEF Start, Connected
  <2>2. CASE ~Connected /\ Joins /\ At(r, "launch", launching) /\ UNCHANGED <<launching, chromium>>
    BY <1>2, <2>2 DEF Start
  <2>3. CASE \E b \in Browsers :
               /\ launching' = b
               /\ chromium' = [chromium EXCEPT ![b] = "starting"]
               /\ At(r, "launch", b)
    BY <1>2, <2>3 DEF Start
  <2> QED
    BY <1>2, <2>1, <2>2, <2>3 DEF Start
<1>3. ASSUME NEW r \in Renders, Resume(r) PROVE TypeOK'
  BY <1>3 DEF Resume
<1>4. ASSUME NEW r \in Renders, NewPage(r) PROVE TypeOK'
  BY <1>4 DEF NewPage
<1>5. ASSUME NEW r \in Renders, PrintPdf(r) PROVE TypeOK'
  BY <1>5 DEF PrintPdf
<1>6. ASSUME NEW r \in Renders, ClosePage(r) PROVE TypeOK'
  BY <1>6 DEF ClosePage
<1>7. ASSUME NEW b \in Browsers, Launched(b) PROVE TypeOK'
  BY <1>7 DEF Launched
<1>8. ASSUME NEW b \in Browsers, LaunchFailed(b) PROVE TypeOK'
  BY <1>8 DEF LaunchFailed
<1>9. ASSUME NEW b \in Browsers, Die(b) PROVE TypeOK'
  BY <1>9 DEF Die, Gone
<1>10. CASE Destroy
  BY <1>10 DEF Destroy
<1>11. CASE Destroyed
  BY <1>11 DEF Destroyed, Gone
<1>12. CASE Drained
  BY <1>12 DEF Drained
<1>13. ASSUME NEW r \in Renders, StageTimesOut(r) PROVE TypeOK'
  BY <1>13 DEF StageTimesOut
<1>14. CASE UNCHANGED vars
  BY <1>14 DEF vars
<1> QED
  BY <1>1, <1>2, <1>3, <1>4, <1>5, <1>6, <1>7, <1>8, <1>9, <1>10, <1>11, <1>12, <1>13, <1>14
  DEF Next, RenderStep, Settled

\* What the proofs carry from state to state.
IInv == TypeOK /\ LaunchingIsPending /\ SettledInv /\ KnownInv

\* A step that leaves the browsers and the shutdown alone keeps the invariant.
LEMMA BrowsersUnchanged ==
  ASSUME IInv, UNCHANGED <<browser, launching, chromium, shutdown, closing>>
  PROVE  (LaunchingIsPending /\ SettledInv /\ KnownInv)'
  BY DEF IInv, LaunchingIsPending, SettledInv, KnownInv, Connected

\* Every action keeps launching, this.browser and the processes in step.
LEMMA BrowserStep ==
  IInv /\ [Next]_vars => (LaunchingIsPending /\ SettledInv /\ KnownInv)'
<1> SUFFICES ASSUME IInv, [Next]_vars PROVE (LaunchingIsPending /\ SettledInv /\ KnownInv)'
  OBVIOUS
<1> DEFINE Kept == (LaunchingIsPending /\ SettledInv /\ KnownInv)'
<1>1. ASSUME NEW r \in Renders, TakeJob(r) \/ StageTimesOut(r) \/ Resume(r) \/ NewPage(r)
                                     \/ PrintPdf(r) \/ ClosePage(r)
      PROVE  Kept
  BY <1>1, BrowsersUnchanged DEF TakeJob, StageTimesOut, Resume, NewPage, PrintPdf, ClosePage, worker
<1>2. ASSUME NEW r \in Renders, Start(r) PROVE Kept
  <2>1. CASE UNCHANGED <<launching, chromium>>
    BY <1>2, <2>1, BrowsersUnchanged DEF Start, worker
  <2>2. ASSUME NEW b \in Browsers, ~Connected, launching = None, Forgotten(b), launching' = b,
               chromium' = [chromium EXCEPT ![b] = "starting"],
               UNCHANGED <<browser, shutdown, closing>>
        PROVE  Kept
    <3>1. LaunchingIsPending'
      BY <2>2, NoneAssumption DEF IInv, TypeOK, LaunchingIsPending
    <3>2. SettledInv'
      BY <2>2 DEF IInv, TypeOK, SettledInv, Forgotten
    <3>3. ~Connected'
      BY <2>2 DEF IInv, TypeOK, Connected, Forgotten
    <3>4. KnownInv'
      BY <2>2, <3>3 DEF IInv, TypeOK, KnownInv, Connected
    <3> QED
      BY <3>1, <3>2, <3>4
  <2> QED
    BY <1>2, <2>1, <2>2 DEF Start, Joins, worker
<1>3. ASSUME NEW b \in Browsers, Launched(b) PROVE Kept
  <2>1. LaunchingIsPending'
    BY <1>3, NoneAssumption DEF Launched, IInv, TypeOK, LaunchingIsPending
  <2>2. SettledInv'
    BY <1>3 DEF Launched, IInv, TypeOK, SettledInv, worker
  <2>3. shutdown = "no" => \A c \in Browsers : chromium[c] # "up"
    BY <1>3, NoneAssumption DEF Launched, IInv, KnownInv, Connected
  <2>4. KnownInv'
    BY <1>3, <2>1, <2>3, NoneAssumption DEF Launched, IInv, TypeOK, LaunchingIsPending, KnownInv, Connected, worker
  <2> QED
    BY <2>1, <2>2, <2>4
<1>4. ASSUME NEW b \in Browsers, LaunchFailed(b) PROVE Kept
  <2>1. LaunchingIsPending'
    BY <1>4, NoneAssumption DEF LaunchFailed, IInv, TypeOK, LaunchingIsPending
  <2>2. SettledInv' /\ KnownInv'
    BY <1>4 DEF LaunchFailed, IInv, TypeOK, SettledInv, KnownInv, Connected, worker
  <2> QED
    BY <2>1, <2>2
<1>5. ASSUME NEW b \in Browsers, Die(b) PROVE Kept
  BY <1>5 DEF Die, Gone, IInv, TypeOK, LaunchingIsPending, SettledInv, KnownInv, Connected, worker
<1>6. CASE Destroy
  BY <1>6 DEF Destroy, IInv, LaunchingIsPending, SettledInv, KnownInv
<1>7. CASE Destroyed
  <2>1. \A b \in Browsers : chromium'[b] = "starting" <=> chromium[b] = "starting"
    BY <1>7, NoneAssumption DEF Destroyed, Gone, IInv, TypeOK, SettledInv
  <2>2. LaunchingIsPending'
    BY <1>7, <2>1 DEF Destroyed, IInv, LaunchingIsPending
  <2> QED
    BY <1>7, <2>2 DEF Destroyed, SettledInv, KnownInv
<1>8. CASE Drained
  BY <1>8 DEF Drained, IInv, LaunchingIsPending, SettledInv, KnownInv
<1>9. CASE UNCHANGED vars
  BY <1>9, BrowsersUnchanged DEF vars, worker
<1> QED
  BY <1>1, <1>2, <1>3, <1>4, <1>5, <1>6, <1>7, <1>8, <1>9 DEF Next, RenderStep, Settled

\* The invariant holds throughout.
LEMMA Invariant == Spec => []IInv
<1>1. Init => IInv
  BY NoneAssumption DEF Init, IInv, TypeOK, LaunchingIsPending, SettledInv, KnownInv
<1>2. IInv /\ [Next]_vars => IInv'
  BY TypeStep, BrowserStep DEF IInv
<1> QED
  BY <1>1, <1>2, PTL DEF Spec

\* For any number of renders and launches: this.launching is the launch that is
\* under way, and nothing else.
THEOREM LaunchesAreShared == Spec => []LaunchingIsPending
<1>1. IInv => LaunchingIsPending
  BY DEF IInv
<1> QED
  BY <1>1, Invariant, PTL

\* Under the same generality, the renders of a process that is not told to stop
\* share one browser, whatever crashes or fails to launch.
THEOREM BrowserIsShared == Spec => []OneBrowser
<1>1. IInv => OneBrowser
  <2> SUFFICES ASSUME IInv, shutdown = "no",
                      NEW b \in Browsers, NEW c \in Browsers,
                      chromium[b] # "down", chromium[c] # "down"
               PROVE  b = c
    BY DEF OneBrowser
  <2>1. chromium[b] \in {"starting", "up"} /\ chromium[c] \in {"starting", "up"}
    BY DEF IInv, TypeOK
  <2>2. CASE chromium[b] = "up" /\ chromium[c] = "up"
    BY <2>2 DEF IInv, KnownInv
  <2>3. CASE chromium[b] = "starting" /\ chromium[c] = "starting"
    BY <2>3 DEF IInv, LaunchingIsPending
  <2>4. CASE chromium[b] = "up" /\ chromium[c] = "starting"
    BY <2>4, NoneAssumption DEF IInv, KnownInv, Connected
  <2>5. CASE chromium[b] = "starting" /\ chromium[c] = "up"
    BY <2>5, NoneAssumption DEF IInv, KnownInv, Connected
  <2> QED
    BY <2>1, <2>2, <2>3, <2>4, <2>5
<1> QED
  BY <1>1, Invariant, PTL

\* A step that moves no render and opens no page keeps the pages with their renders.
LEMMA PagesUnmoved ==
  ASSUME TypeOK, PagesClosed, UNCHANGED <<pc, on>>, \A b \in Browsers : page'[b] \subseteq page[b]
  PROVE  PagesClosed'
  BY DEF TypeOK, PagesClosed

\* A render that has no page and moves, opening none, leaves the others' pages.
LEMMA PagesOfOthers ==
  ASSUME TypeOK, PagesClosed, NEW r \in Renders, pc[r] \notin {"content", "close"},
         NEW where, NEW b, At(r, where, b), UNCHANGED page
  PROVE  PagesClosed'
<1> SUFFICES ASSUME NEW c \in Browsers, NEW q \in page[c]
             PROVE  q \in Renders /\ pc'[q] \in {"content", "close"} /\ on'[q] = c
  BY DEF PagesClosed
<1>1. q \in Renders /\ pc[q] \in {"content", "close"} /\ on[q] = c
  BY DEF PagesClosed
<1> QED
  BY <1>1 DEF TypeOK, At

\* Every action keeps the pages with the renders that opened them.
LEMMA PagesStep == TypeOK /\ PagesClosed /\ [Next]_vars => PagesClosed'
<1> SUFFICES ASSUME TypeOK, PagesClosed, [Next]_vars PROVE PagesClosed'
  OBVIOUS
<1>1. ASSUME NEW r \in Renders, TakeJob(r) PROVE PagesClosed'
  BY <1>1, PagesOfOthers DEF TakeJob
<1>2. ASSUME NEW r \in Renders, Start(r) PROVE PagesClosed'
  BY <1>2, PagesOfOthers DEF Start
<1>3. ASSUME NEW r \in Renders, Resume(r) PROVE PagesClosed'
  BY <1>3, PagesOfOthers DEF Resume
<1>4. ASSUME NEW r \in Renders, NewPage(r) PROVE PagesClosed'
  <2>1. CASE At(r, "idle", None) /\ UNCHANGED page
    BY <1>4, <2>1, PagesOfOthers DEF NewPage
  <2>2. CASE /\ page' = [page EXCEPT ![on[r]] = @ \cup {r}]
             /\ At(r, "content", on[r])
    BY <2>2 DEF TypeOK, PagesClosed, At
  <2> QED
    BY <1>4, <2>1, <2>2 DEF NewPage
<1>5. ASSUME NEW r \in Renders, PrintPdf(r) PROVE PagesClosed'
  BY <1>5 DEF PrintPdf, TypeOK, PagesClosed, At
<1>6. ASSUME NEW r \in Renders, ClosePage(r) PROVE PagesClosed'
  BY <1>6 DEF ClosePage, TypeOK, PagesClosed, At
<1>7. ASSUME NEW b \in Browsers, Launched(b) \/ LaunchFailed(b) PROVE PagesClosed'
  BY <1>7, PagesUnmoved DEF Launched, LaunchFailed
<1>8. ASSUME NEW b \in Browsers, Die(b) PROVE PagesClosed'
  BY <1>8, PagesUnmoved DEF Die, Gone, TypeOK
<1>9. CASE Destroy \/ Drained
  BY <1>9, PagesUnmoved DEF Destroy, Drained
<1>10. CASE Destroyed
  BY <1>10, PagesUnmoved DEF Destroyed, Gone, TypeOK
<1>11. ASSUME NEW r \in Renders, StageTimesOut(r) PROVE PagesClosed'
  BY <1>11, PagesUnmoved DEF StageTimesOut
<1>12. CASE UNCHANGED vars
  BY <1>12, PagesUnmoved DEF vars
<1> QED
  BY <1>1, <1>2, <1>3, <1>4, <1>5, <1>6, <1>7, <1>8, <1>9, <1>10, <1>11, <1>12
  DEF Next, RenderStep, Settled

\* However its render ends, and whichever browser dies or is closed meanwhile, no
\* page outlives it: render()'s finally block closes what newPage opened.
THEOREM PagesAreClosed == Spec => []PagesClosed
<1>1. Init => PagesClosed
  BY DEF Init, PagesClosed
<1>2. IInv => TypeOK
  BY DEF IInv
<1> QED
  BY <1>1, <1>2, PagesStep, Invariant, PTL DEF Spec

=============================================================================
