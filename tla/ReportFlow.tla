----------------------------- MODULE ReportFlow ------------------------------
(***************************************************************************)
(* How one job's report comes to be stored.  A worker attempt compiles it: *)
(* the provider that the configuration bound answers, the answer is        *)
(* validated, and a malformed one is asked for once more.  A PATCH brings  *)
(* an edited tree.  Both replace the rows in a transaction at PostgreSQL's *)
(* default isolation, READ COMMITTED: each statement sees what is committed*)
(* when it starts, waits for the rows that another transaction has deleted *)
(* (locked), and then skips those that are gone.                           *)
(*                                                                         *)
(* Attempts overlap when a worker lost its lock and runs on; a PATCH may   *)
(* come at any time.  The stages around the compilation are JobSystem's.   *)
(***************************************************************************)
EXTENDS ReportTree, Config

CONSTANTS
  Writers,    \* worker attempts and PATCH requests that may overlap
  Envs,       \* environments a process may be given
  Outputs,    \* what a call of the model may come to
  Edits,      \* section trees that clients send
  Labels,     \* job labels that clients send
  NoLabel,    \* undefined
  MaxWrites   \* bound: committed replacements

ASSUME FlowAssumption ==
  /\ MaxWrites \in Nat /\ NoLabel \notin Labels
  /\ \A e \in Envs : e.TRANSCRIPTION_PROVIDER \in {"deepgram", "openai"}
  /\ \A sections \in Edits : IsTree(sections)
  /\ \A o \in Outputs : o.kind = "report" => IsTree(o.sections)

VARIABLES
  app,      \* the process: booting, refused, or its configuration
  job,      \* the job's label and whether it was deleted
  rows,     \* committed rows of the report
  wrote,    \* the committed replacements: from what each was made
  writer    \* attempts and requests

vars == <<app, job, rows, wrote, writer>>

Up == app.state = "up"

-----------------------------------------------------------------------------
(* The providers.                                                           *)

\* MockReportCompiler.
Canned ==
  LET Text(body) == [body |-> body, size |-> 80, padded |-> FALSE]
      Section(title, severities) ==
        [title    |-> Text(title),
         findings |-> [i \in DOMAIN severities |->
                         [text |-> Text(title), severity |-> severities[i]]]]
  IN  << Section("Roof", <<"repair", "maintenance">>),
         Section("Gutters & Drainage", <<"repair", "maintenance">>),
         Section("Exterior", <<"info">>),
         Section("Electrical", <<"safety", "info">>),
         Section("Plumbing", <<"safety", "repair", "info">>),
         Section("Kitchen", <<"info">>),
         Section("Bathrooms", <<"repair">>),
         Section("Attic", <<"maintenance", "info">>),
         Section("Basement & HVAC", <<"info", "info">>) >>

\* A call of the bound provider returns a report, some other JSON, or throws:
\* without a tool call, with arguments that are no JSON, or failing altogether.
Answers ==
  IF app.config.compiler = "mock" THEN {[kind |-> "report", sections |-> Canned]} ELSE Outputs

Throws(o) == o.kind \in {"no tool call", "not JSON", "error"}

Valid(o) == o.kind = "report" /\ CompiledReport(o.sections)

-----------------------------------------------------------------------------
Idle == [pc |-> "idle"]

Finished(w) == writer' = [writer EXCEPT ![w] = Idle]

\* The transaction that is to replace the report with a tree.
Transaction(source, sections, tree, label) ==
  [pc |-> "begin", source |-> source, sections |-> sections, tree |-> tree, label |-> label,
   seen |-> {}, gone |-> {}, bare |-> TRUE]

\* The transaction goes on.
At(w, pc, seen, gone, bare) ==
  writer' = [writer EXCEPT ![w] =
    [pc |-> pc, source |-> writer[w].source, sections |-> writer[w].sections,
     tree |-> writer[w].tree, label |-> writer[w].label,
     seen |-> seen, gone |-> gone, bare |-> bare]]

Holds(w, r) == writer[w].pc \in {"cleared", "sections", "emptied"} /\ r \in writer[w].gone

\* No other open transaction has deleted one of the rows.
Unlocked(w, rs) == \A u \in Writers \ {w} : \A r \in rs : ~Holds(u, r)

Init ==
  /\ app = [state |-> "booting"]
  /\ job = [label |-> NoLabel, deleted |-> FALSE]
  /\ rows = {}
  /\ wrote = <<>>
  /\ writer = [w \in Writers |-> Idle]

Boot ==
  /\ app.state = "booting"
  /\ \E e \in Envs :
       app' = IF Accepted(e) THEN [state |-> "up", config |-> LoadConfig(e)] ELSE [state |-> "refused"]
  /\ UNCHANGED <<job, rows, wrote, writer>>

-----------------------------------------------------------------------------
(* ReportCompilerService.compile, from compileStage.                        *)

\* An attempt loaded the job without a report; with one, it does not compile.
StartCompile(w) ==
  /\ Up /\ ~job.deleted
  /\ writer[w].pc = "idle" /\ Len(wrote) < MaxWrites
  /\ rows = {}
  /\ writer' = [writer EXCEPT ![w] = [pc |-> "first"]]
  /\ UNCHANGED <<app, job, rows, wrote>>

\* A thrown error is the attempt's, whichever call it was; a report that fails
\* the schema is asked for once more, and then fails the job for good.
Compiled(w, o) ==
  IF Valid(o) THEN Transaction(app.config.compiler, o.sections, Normalize(o.sections), NoLabel)
  ELSE IF ~Throws(o) /\ writer[w].pc = "first" THEN [pc |-> "second"]
  ELSE Idle

CompileAnswer(w) ==
  /\ writer[w].pc \in {"first", "second"}
  /\ \E o \in Answers : writer' = [writer EXCEPT ![w] = Compiled(w, o)]
  /\ UNCHANGED <<app, job, rows, wrote>>

-----------------------------------------------------------------------------
(* PATCH /jobs/:id.                                                         *)

\* JobsService.update with sections; the pipe answers an unfit body with 400.
PatchReport(w) ==
  /\ Up /\ ~job.deleted
  /\ writer[w].pc = "idle" /\ Len(wrote) < MaxWrites
  /\ \E sections \in Edits, label \in Labels \cup {NoLabel} :
       /\ UpdateJobDto(sections)
       /\ writer' = [writer EXCEPT ![w] =
                       Transaction("edit", sections, ToReportInput(sections), label)]
  /\ UNCHANGED <<app, job, rows, wrote>>

\* JobsService.update with a label only: updateLabelScoped.
PatchLabel ==
  /\ Up /\ ~job.deleted
  /\ \E label \in Labels : job' = [job EXCEPT !.label = label]
  /\ UNCHANGED <<app, rows, wrote, writer>>

Remove ==
  /\ Up /\ ~job.deleted
  /\ job' = [job EXCEPT !.deleted = TRUE]
  /\ UNCHANGED <<app, rows, wrote, writer>>

-----------------------------------------------------------------------------
(* replaceReport and replaceReportScoped, one statement after the other.    *)

\* The edit's ownership check throws P2025; then the first deleteMany starts.
BeginReplace(w) ==
  /\ writer[w].pc = "begin"
  /\ IF writer[w].source = "edit" /\ job.deleted
     THEN Finished(w)
     ELSE At(w, "findings", {r \in rows : r.findings # {}}, {}, TRUE)
  /\ UNCHANGED <<app, job, rows, wrote>>

\* Mutant: the delete does not wait for the transactions that hold its rows.
DeleteFindingsUnlocked(w) ==
  LET found == writer[w].seen \cap rows IN
  /\ writer[w].pc = "findings"
  /\ At(w, "cleared", writer[w].seen, found, found = {})
  /\ UNCHANGED <<app, job, rows, wrote>>

DeleteFindings(w) ==
  LET found == writer[w].seen \cap rows IN
  /\ writer[w].pc = "findings"
  /\ Unlocked(w, writer[w].seen)
  /\ At(w, "cleared", writer[w].seen, found, found = {})
  /\ UNCHANGED <<app, job, rows, wrote>>

\* The second deleteMany starts.
ReadSections(w) ==
  /\ writer[w].pc = "cleared"
  /\ At(w, "sections", rows, writer[w].gone, writer[w].bare)
  /\ UNCHANGED <<app, job, rows, wrote>>

\* Deleting a section cascades to its findings.
DeleteSections(w) ==
  /\ writer[w].pc = "sections"
  /\ Unlocked(w, writer[w].seen)
  /\ At(w, "emptied", writer[w].seen, writer[w].gone \cup (writer[w].seen \cap rows), writer[w].bare)
  /\ UNCHANGED <<app, job, rows, wrote>>

\* insertSections, the edit's job.update, and the commit.
Commit(w) ==
  LET t == writer[w] IN
  /\ t.pc = "emptied" /\ Len(wrote) < MaxWrites
  /\ wrote' = Append(wrote, [source |-> t.source, sections |-> t.sections])
  /\ rows' = (rows \ t.gone) \cup InsertSections(Len(wrote) + 1, t.bare, t.tree)
  /\ job' = IF t.label = NoLabel THEN job ELSE [job EXCEPT !.label = t.label]
  /\ Finished(w)
  /\ UNCHANGED app

\* The transaction is rolled back: its time limit, a deadlock, a lost connection.
Rollback(w) ==
  /\ writer[w].pc \in {"findings", "cleared", "sections", "emptied"}
  /\ Finished(w)
  /\ UNCHANGED <<app, job, rows, wrote>>

Write(w) ==
  \/ StartCompile(w) \/ CompileAnswer(w) \/ PatchReport(w)
  \/ BeginReplace(w) \/ DeleteFindings(w) \/ ReadSections(w) \/ DeleteSections(w)
  \/ Commit(w) \/ Rollback(w)

Next == Boot \/ PatchLabel \/ Remove \/ (\E w \in Writers : Write(w))

Spec == Init /\ [][Next]_vars

-----------------------------------------------------------------------------
(* Properties.                                                              *)

Written(v) == {r \in rows : r.write = v}

\* out holds what in holds, each entry like its original, in the order of their
\* keys and, among equals, in the order they came in.
Rearranges(out, in, Same(_, _), Key(_)) ==
  /\ Len(out) = Len(in)
  /\ \E p \in [DOMAIN out -> DOMAIN in] :
       /\ \A j \in DOMAIN out : Same(out[j], in[p[j]])
       /\ \A j, k \in DOMAIN out : j < k =>
            \/ Key(in[p[j]]) < Key(in[p[k]])
            \/ Key(in[p[j]]) = Key(in[p[k]]) /\ p[j] < p[k]

\* Every compiled report that is stored, whole or beside another, says what the
\* provider said ("nothing is invented here"): its sections that hold findings,
\* in their order; each section's findings trimmed, none lost or added, with
\* their severity, the most severe first and otherwise in the order given.
CompiledFaithfully ==
  \A v \in DOMAIN wrote : (wrote[v].source # "edit" /\ Written(v) # {}) =>
    LET dto == JobToDto(Written(v))
        said == Filter(wrote[v].sections, LAMBDA s : s.findings # <<>>)
        Same(d, f) == d.text = Trim(f.text) /\ d.severity = f.severity
        Severity(f) == CASE f.severity = "safety" -> 0 [] f.severity = "repair" -> 1
                         [] f.severity = "maintenance" -> 2 [] f.severity = "info" -> 3
    IN  /\ Len(dto) = Len(said)
        /\ \A k \in DOMAIN dto :
             /\ dto[k].title = Trim(said[k].title)
             /\ Rearranges(dto[k].findings, said[k].findings, Same, Severity)

\* Every edited report that is stored reads back as the client numbered it:
\* no section or finding lost, each with its text and severity as sent.
EditedFaithfully ==
  \A v \in DOMAIN wrote : (wrote[v].source = "edit" /\ Written(v) # {}) =>
    LET Order(r) == r.sortOrder
        SameFinding(d, f) == d.text = f.text /\ d.severity = f.severity
        Same(d, s) == d.title = s.title /\ Rearranges(d.findings, s.findings, SameFinding, Order)
    IN  Rearranges(JobToDto(Written(v)), wrote[v].sections, Same, Order)

\* A PDF printed from a stored report tells what the API tells: the same
\* sections and findings, and a summary that counts every finding once.
PdfTellsAll ==
  \A v \in DOMAIN wrote :
    LET dto == JobToDto(Written(v))
        pdf == BuildReportHtml(ToReportView(ExistingReport(Written(v))))
        Counted(sev) == UNION {{<<i, j>> : j \in {k \in DOMAIN dto[i].findings :
                                  dto[i].findings[k].severity = sev}} : i \in DOMAIN dto}
        Chips == {pdf.chips[c] : c \in DOMAIN pdf.chips}
    IN  /\ Len(pdf.body) = Len(dto)
        /\ \A i \in DOMAIN dto :
             /\ pdf.body[i].title = dto[i].title
             /\ pdf.body[i].findings =
                  [j \in DOMAIN dto[i].findings |->
                     [text |-> dto[i].findings[j].text, severity |-> dto[i].findings[j].severity]]
        /\ Chips = {[severity |-> sev, count |-> Cardinality(Counted(sev))] :
                      sev \in {s \in API_SEVERITIES : Counted(s) # {}}}

\* In production nothing that is stored comes from the mock compiler, whatever
\* the environment ("would serve fabricated findings to real users").
NeverFabricated ==
  (Up /\ app.config.nodeEnv = "production") =>
    /\ \A v \in DOMAIN wrote : wrote[v].source # "mock"
    /\ app.config.transcriber # "mock" /\ app.config.verifier # "dev"

\* "a misconfigured deploy fails at boot, not at the first request": a process
\* that is up has the key of every provider it calls.
CalledProvidersHaveKeys ==
  Up => {app.config.transcriber, app.config.compiler} \ {"mock"} \subseteq app.config.keys

\* The rows of two replacements stand side by side only when one of the two
\* found no finding to delete: the findings of an earlier report are what makes
\* overlapping replacements wait for each other.
MergedOnlyWhenBare ==
  \A r, s \in rows : r.write = s.write \/ r.bare \/ s.bare

\* The stored report is one replacement's ("Replace the report tree").
OneReport == \A r, s \in rows : r.write = s.write

=============================================================================
