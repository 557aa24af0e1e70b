----------------------------- MODULE ReportTree ------------------------------
(***************************************************************************)
(* The report as data: what the compiler's schema and the PATCH body admit,*)
(* how each is normalised, the rows it is stored as, and the two ways the  *)
(* rows are read back (the job's JSON, and the HTML that is printed).      *)
(*                                                                         *)
(* A text is its content, its length once trimmed, and whether white space *)
(* surrounds it.                                                           *)
(***************************************************************************)
EXTENDS Naturals, Sequences, FiniteSets

CONSTANTS
  MaxSections,  \* sections of a report: 100
  MaxFindings   \* findings of a section: 200

ASSUME TreeAssumption == MaxSections \in Nat /\ MaxFindings \in Nat

MaxTitle == 200
MaxText == 2000

API_SEVERITIES == {"info", "maintenance", "repair", "safety"}

FROM_API == [info |-> "INFO", maintenance |-> "MAINTENANCE", repair |-> "REPAIR", safety |-> "SAFETY"]

TO_API == [INFO |-> "info", MAINTENANCE |-> "maintenance", REPAIR |-> "repair", SAFETY |-> "safety"]

\* Mutant: the ranks are those of the API's list of severities, the least severe first.
SeverityRankAscending == [INFO |-> 0, MAINTENANCE |-> 1, REPAIR |-> 2, SAFETY |-> 3]

SEVERITY_RANK == [SAFETY |-> 0, REPAIR |-> 1, MAINTENANCE |-> 2, INFO |-> 3]

Trim(t) == [t EXCEPT !.padded = FALSE]

RawLength(t) == t.size + (IF t.padded THEN 1 ELSE 0)

Mapped(s, Op(_)) == [i \in DOMAIN s |-> Op(s[i])]

\* What JSON.parse makes of an array.
IsArray(s) == Len(s) \in Nat /\ s = [i \in 1..Len(s) |-> s[i]]

\* A section tree as it comes from outside.
IsTree(sections) == IsArray(sections) /\ \A i \in DOMAIN sections : IsArray(sections[i].findings)

\* Array.prototype.filter.
Filter(s, Test(_)) ==
  LET kept == {i \in DOMAIN s : Test(s[i])}
      Nth(k) == CHOOSE i \in kept : Cardinality({j \in kept : j < i}) = k - 1
  IN  [k \in 1..Cardinality(kept) |-> s[Nth(k)]]

\* Array.prototype.sort with a numeric comparator: stable.
StableSort(s, Key(_)) ==
  LET Before(i, j) == Key(s[i]) < Key(s[j]) \/ (Key(s[i]) = Key(s[j]) /\ i < j)
      Place(i) == Cardinality({j \in DOMAIN s : Before(j, i)}) + 1
  IN  [k \in DOMAIN s |-> s[CHOOSE i \in DOMAIN s : Place(i) = k]]

\* By the client's numbers.
ByOrder(s) == StableSort(s, LAMBDA r : r.sortOrder)

\* By severity, the most severe first.
BySeverity(s) == StableSort(s, LAMBDA f : SEVERITY_RANK[f.severity])

-----------------------------------------------------------------------------
(* The compiler's output.                                                   *)

Fits(t, max) == Trim(t).size \in 1..max

\* compiledReportSchema, applied to what the model's tool call held.
CompiledReport(sections) ==
  /\ Len(sections) <= MaxSections
  /\ \A i \in DOMAIN sections :
       /\ Fits(sections[i].title, MaxTitle)
       /\ Len(sections[i].findings) <= MaxFindings
       /\ \A j \in DOMAIN sections[i].findings :
            /\ Fits(sections[i].findings[j].text, MaxText)
            /\ sections[i].findings[j].severity \in API_SEVERITIES

\* Trimmed, without blank findings, the most severe first, without empty sections.
Normalize(sections) ==
  LET Finding(f) == [text |-> Trim(f.text), severity |-> FROM_API[f.severity]]
      Section(s) ==
        [title    |-> Trim(s.title),
         findings |-> BySeverity(Filter(Mapped(s.findings, Finding), LAMBDA f : f.text.size > 0))]
  IN  Filter(Mapped(sections, Section), LAMBDA s : s.title.size > 0 /\ s.findings # <<>>)

-----------------------------------------------------------------------------
(* The body of a PATCH: nothing is trimmed, and the client numbers the tree.*)

UpdateJobDto(sections) ==
  /\ Len(sections) <= MaxSections
  /\ \A i \in DOMAIN sections :
       /\ RawLength(sections[i].title) \in 1..MaxTitle
       /\ sections[i].sortOrder \in Nat
       /\ Len(sections[i].findings) <= MaxFindings
       /\ \A j \in DOMAIN sections[i].findings :
            /\ RawLength(sections[i].findings[j].text) \in 1..MaxText
            /\ sections[i].findings[j].severity \in API_SEVERITIES
            /\ sections[i].findings[j].sortOrder \in Nat

\* Mutant: the sections are taken in the order in which they were sent.
ToReportInputAsSent(sections) ==
  LET Finding(f) == [text |-> f.text, severity |-> FROM_API[f.severity]]
      Section(s) == [title |-> s.title, findings |-> Mapped(s.findings, Finding)]
  IN  Mapped(sections, Section)

ToReportInput(sections) ==
  LET Finding(f) == [text |-> f.text, severity |-> FROM_API[f.severity]]
      Section(s) == [title |-> s.title, findings |-> Mapped(ByOrder(s.findings), Finding)]
  IN  Mapped(ByOrder(sections), Section)

-----------------------------------------------------------------------------
(* The rows, and what is read from them.  A row of a section carries the    *)
(* rows of its findings, the write it stems from, and whether that write    *)
(* found no findings to delete.                                             *)

InsertSections(write, bare, tree) ==
  {[write     |-> write, bare |-> bare,
    title     |-> tree[s].title,
    sortOrder |-> s - 1,
    findings  |-> {[text      |-> tree[s].findings[i].text,
                    severity  |-> tree[s].findings[i].severity,
                    sortOrder |-> i - 1] : i \in DOMAIN tree[s].findings}]
     : s \in DOMAIN tree}

\* orderBy sortOrder, for rows that no two share a place.
InOrder(rows) ==
  [k \in 1..Cardinality(rows) |->
     CHOOSE r \in rows : Cardinality({q \in rows : q.sortOrder < r.sortOrder}) = k - 1]

JobToDto(rows) ==
  LET Finding(f) == [text |-> f.text, severity |-> TO_API[f.severity], sortOrder |-> f.sortOrder]
      Section(s) == [title |-> s.title, sortOrder |-> s.sortOrder,
                     findings |-> Mapped(InOrder(s.findings), Finding)]
  IN  Mapped(InOrder(rows), Section)

\* What a resumed attempt takes for the compiled report.
ExistingReport(rows) ==
  LET Finding(f) == [text |-> f.text, severity |-> f.severity]
      Section(s) == [title |-> s.title, findings |-> Mapped(InOrder(s.findings), Finding)]
  IN  Mapped(InOrder(rows), Section)

ToReportView(tree) ==
  LET Finding(f) == [text |-> f.text, severity |-> TO_API[f.severity]]
      Section(s) == [title |-> s.title, findings |-> Mapped(s.findings, Finding)]
  IN  Mapped(tree, Section)

\* Mutant: observations are not summarised.
SeverityOrderWithoutInfo == <<"safety", "repair", "maintenance">>

SEVERITY_ORDER == <<"safety", "repair", "maintenance", "info">>

Places(view) == UNION {{<<i, j>> : j \in DOMAIN view[i].findings} : i \in DOMAIN view}

CountBySeverity(view) ==
  [sev \in API_SEVERITIES |->
     Cardinality({p \in Places(view) : view[p[1]].findings[p[2]].severity = sev})]

\* The printed document: its chips, the number of findings in its head, and its body.
BuildReportHtml(view) ==
  LET counts == CountBySeverity(view)
      Chip(sev) == [severity |-> sev, count |-> counts[sev]]
  IN  [chips |-> Mapped(Filter(SEVERITY_ORDER, LAMBDA sev : counts[sev] > 0), Chip),
       total |-> Cardinality(Places(view)),
       body  |-> view]

=============================================================================
