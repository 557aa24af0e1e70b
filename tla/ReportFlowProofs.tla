--------------------------- MODULE ReportFlowProofs ---------------------------
(***************************************************************************)
(* Overlapping replacements of a report: which of them can stand side by   *)
(* side.  A transaction that deleted findings holds them to its end.  Two  *)
(* transactions cannot both hold findings: of two snapshots of the findings*)
(* one is the later, and holds all that the earlier one saw and that is    *)
(* still there.  So while one that holds findings is open, only bare ones  *)
(* commit beside it, and it deletes the sections of all that came before.  *)
(***************************************************************************)
EXTENDS ReportFlow, TLAPS

Past == {"cleared", "sections", "emptied"}

Tx == Past \cup {"findings"}

\* wrote is a sequence of whatever was written.
IsSequence == \E S : wrote \in Seq(S)

\* Rows that are stored, or that a statement saw, are of replacements so far.
RowsOfReplacements ==
  /\ writer = [w \in Writers |-> writer[w]]
  /\ \A r \in rows : r.write \in Nat /\ r.write <= Len(wrote)
  /\ \A w \in Writers : writer[w].pc \in Tx =>
       /\ \A r \in writer[w].seen : r.write \in Nat /\ r.write <= Len(wrote)
       /\ writer[w].bare \in BOOLEAN

\* What open transactions deleted is still stored for the others, and no two
\* deleted the same row.
DeletedIsHeld ==
  \A w \in Writers : writer[w].pc \in Past =>
    /\ writer[w].gone \subseteq rows
    /\ ~writer[w].bare => \E r \in writer[w].gone : r.findings # {}
    /\ \A u \in Writers \ {w} : writer[u].pc \in Past => writer[w].gone \cap writer[u].gone = {}

\* Of two snapshots of the findings, one holds what is left of the other.
SnapshotsNest ==
  \A w \in Writers : writer[w].pc = "findings" =>
    /\ \A r \in writer[w].seen : r.findings # {}
    /\ \A u \in Writers : writer[u].pc = "findings" =>
         \/ writer[u].seen \cap rows \subseteq writer[w].seen
         \/ writer[w].seen \cap rows \subseteq writer[u].seen
    /\ \A u \in Writers : (writer[u].pc \in Past /\ ~writer[u].bare) =>
         \/ writer[w].seen \cap writer[u].gone # {}
         \/ writer[w].seen \cap rows = {}

\* At most one open transaction holds findings.
OneHolder ==
  \A w, u \in Writers : (w # u /\ writer[w].pc \in Past /\ writer[u].pc \in Past) =>
    writer[w].bare = TRUE \/ writer[u].bare = TRUE

\* Beside one that does, what it will not delete is bare.
OthersAreBare ==
  \A w \in Writers :
    /\ (writer[w].pc = "sections" /\ ~writer[w].bare) =>
         \A r \in rows \ writer[w].seen : r.bare = TRUE
    /\ (writer[w].pc = "emptied" /\ ~writer[w].bare) =>
         \A r \in rows \ writer[w].gone : r.bare = TRUE

BareInv ==
  /\ IsSequence /\ RowsOfReplacements
  /\ DeletedIsHeld /\ SnapshotsNest /\ OneHolder /\ OthersAreBare
  /\ \A r, s \in rows : r.write = s.write \/ r.bare = TRUE \/ s.bare = TRUE

-----------------------------------------------------------------------------
LEMMA InitBare == Init => BareInv
  <1> SUFFICES ASSUME Init PROVE BareInv
    OBVIOUS
  <1>1. IsSequence
    BY DEF Init, IsSequence
  <1>2. \A w \in Writers : writer[w].pc = "idle"
    BY DEF Init, Idle
  <1>3. writer = [w \in Writers |-> writer[w]] /\ rows = {}
    BY DEF Init
  <1> QED
    BY <1>1, <1>2, <1>3 DEF BareInv, RowsOfReplacements, DeletedIsHeld, SnapshotsNest, OneHolder,
       OthersAreBare, Past, Tx

\* A step that leaves the rows alone and takes a writer out of its transaction,
\* or not into one.
LEMMA Leaves ==
  ASSUME BareInv, NEW w \in Writers, NEW x, x.pc \notin Tx,
         writer' = [writer EXCEPT ![w] = x], rows' = rows, wrote' = wrote
  PROVE  BareInv'
  <1>1. writer'[w] = x /\ \A u \in Writers \ {w} : writer'[u] = writer[u]
    BY DEF BareInv, RowsOfReplacements
  <1>2. writer' = [u \in Writers |-> writer'[u]]
    BY DEF BareInv, RowsOfReplacements
  <1>3. \A u \in Writers : writer'[u].pc \in Tx => u # w /\ writer'[u] = writer[u]
    BY <1>1
  <1>4. IsSequence'
    BY DEF BareInv, IsSequence
  <1>5. RowsOfReplacements'
    BY <1>2, <1>3 DEF BareInv, RowsOfReplacements
  <1>6. DeletedIsHeld'
    BY <1>3 DEF BareInv, DeletedIsHeld, Tx
  <1>7. SnapshotsNest'
    BY <1>3 DEF BareInv, SnapshotsNest, Tx
  <1>8. OneHolder'
    BY <1>3 DEF BareInv, OneHolder, Tx
  <1>9. OthersAreBare'
    BY <1>3 DEF BareInv, OthersAreBare, Tx, Past
  <1> QED
    BY <1>4, <1>5, <1>6, <1>7, <1>8, <1>9 DEF BareInv

\* What a call of the provider leads to is not yet an open transaction.
LEMMA CompiledPc ==
  ASSUME NEW w \in Writers, NEW o
  PROVE  Compiled(w, o).pc \notin Tx
  BY DEF Compiled, Idle, Transaction, Tx, Past

LEMMA BeginReplaceBare ==
  ASSUME BareInv, NEW w \in Writers, BeginReplace(w)
  PROVE  BareInv'
  <1> DEFINE found == {r \in rows : r.findings # {}}
  <1>1. rows' = rows /\ wrote' = wrote
    BY DEF BeginReplace
  <1>2. CASE Finished(w)
    BY <1>1, <1>2, Leaves DEF Finished, Idle, Tx, Past
  <1>3. CASE At(w, "findings", found, {}, TRUE)
    <2>1. /\ writer'[w].pc = "findings" /\ writer'[w].seen = found /\ writer'[w].bare = TRUE
          /\ \A u \in Writers \ {w} : writer'[u] = writer[u]
          /\ writer' = [u \in Writers |-> writer'[u]]
      BY <1>3 DEF At, BareInv, RowsOfReplacements
    <2>2. \A u \in Writers : writer'[u].pc \in Past => u # w /\ writer'[u] = writer[u]
      BY <2>1 DEF Past
    <2>3. IsSequence'
      BY <1>1 DEF BareInv, IsSequence
    <2>4. RowsOfReplacements'
      BY <1>1, <2>1 DEF BareInv, RowsOfReplacements
    <2>5. DeletedIsHeld'
      BY <1>1, <2>2 DEF BareInv, DeletedIsHeld
    <2>6. OneHolder'
      BY <2>2 DEF BareInv, OneHolder
    <2>7. OthersAreBare'
      BY <1>1, <2>2 DEF BareInv, OthersAreBare, Past
    <2>8. SnapshotsNest'
      <3> SUFFICES ASSUME NEW v \in Writers, writer'[v].pc = "findings"
                   PROVE  /\ \A r \in writer'[v].seen : r.findings # {}
                          /\ \A u \in Writers : writer'[u].pc = "findings" =>
                               \/ writer'[u].seen \cap rows \subseteq writer'[v].seen
                               \/ writer'[v].seen \cap rows \subseteq writer'[u].seen
                          /\ \A u \in Writers : (writer'[u].pc \in Past /\ ~writer'[u].bare) =>
                               \/ writer'[v].seen \cap writer'[u].gone # {}
                               \/ writer'[v].seen \cap rows = {}
        BY <1>1 DEF SnapshotsNest
      <3>1. \A u \in Writers : writer'[u].pc = "findings" =>
              \A r \in writer'[u].seen : r.findings # {}
        BY <2>1 DEF BareInv, SnapshotsNest
      <3>2. \A u \in Writers : (writer'[u].pc \in Past /\ ~writer'[u].bare) => found \cap writer'[u].gone # {}
        BY <2>2 DEF BareInv, DeletedIsHeld
      <3>3. \A u \in Writers : writer'[u].pc = "findings" =>
              \/ writer'[u].seen \cap rows \subseteq writer'[v].seen
              \/ writer'[v].seen \cap rows \subseteq writer'[u].seen
        BY <2>1, <3>1 DEF BareInv, SnapshotsNest
      <3>4. CASE v = w
        BY <2>1, <3>1, <3>2, <3>3, <3>4
      <3>5. CASE v # w
        BY <2>1, <2>2, <3>1, <3>3, <3>5 DEF BareInv, SnapshotsNest
      <3> QED
        BY <3>4, <3>5
    <2> QED
      BY <1>1, <2>3, <2>4, <2>5, <2>6, <2>7, <2>8 DEF BareInv
  <1> QED
    BY <1>2, <1>3 DEF BeginReplace

LEMMA DeleteFindingsBare ==
  ASSUME BareInv, NEW w \in Writers, DeleteFindings(w)
  PROVE  BareInv'
  <1> DEFINE found == writer[w].seen \cap rows
  <1>1. rows' = rows /\ wrote' = wrote /\ writer[w].pc = "findings"
    BY DEF DeleteFindings
  <1>2. /\ writer'[w].pc = "cleared" /\ writer'[w].seen = writer[w].seen
        /\ writer'[w].gone = found /\ writer'[w].bare = (found = {})
        /\ \A u \in Writers \ {w} : writer'[u] = writer[u]
        /\ writer' = [u \in Writers |-> writer'[u]]
    BY DEF DeleteFindings, At, BareInv, RowsOfReplacements
  <1>3. \A u \in Writers \ {w} : writer[u].pc \in Past => writer[w].seen \cap writer[u].gone = {}
    BY DEF DeleteFindings, Unlocked, Holds, Past
  <1>4. \A u \in Writers : writer'[u].pc = "findings" => u # w /\ writer'[u] = writer[u]
    BY <1>2
  <1>5. ~writer'[w].bare => \E r \in found : r.findings # {}
    BY <1>1, <1>2 DEF BareInv, SnapshotsNest
  <1>6. IsSequence'
    BY <1>1 DEF BareInv, IsSequence
  <1>7. RowsOfReplacements'
    BY <1>1, <1>2 DEF BareInv, RowsOfReplacements, Tx, Past
  <1>8. DeletedIsHeld'
    BY <1>1, <1>2, <1>3, <1>5 DEF BareInv, DeletedIsHeld
  <1>9. SnapshotsNest'
    <2>1. ASSUME NEW v \in Writers, writer'[v].pc = "findings", ~writer'[w].bare
          PROVE  writer'[v].seen \cap found # {} \/ writer'[v].seen \cap rows = {}
      <3>1. /\ writer[v].pc = "findings" /\ writer'[v].seen = writer[v].seen
            /\ \E r \in found : r.findings # {}
        BY <1>4, <1>5, <2>1
      <3>2. found \subseteq writer[v].seen \/ writer[v].seen \cap rows \subseteq writer[w].seen
        BY <1>1, <3>1 DEF BareInv, SnapshotsNest
      <3> QED
        BY <3>1, <3>2
    <2>2. ASSUME NEW v \in Writers, writer'[v].pc = "findings", NEW u \in Writers,
                 writer'[u].pc \in Past, ~writer'[u].bare
          PROVE  writer'[v].seen \cap writer'[u].gone # {} \/ writer'[v].seen \cap rows = {}
      BY <1>2, <1>4, <2>1, <2>2 DEF BareInv, SnapshotsNest
    <2> QED
      BY <1>1, <1>4, <2>2 DEF BareInv, SnapshotsNest
  <1>10. OneHolder'
    <2>1. ASSUME NEW u \in Writers \ {w}, writer[u].pc \in Past
          PROVE  writer'[w].bare = TRUE \/ writer[u].bare = TRUE
      <3>1. CASE writer[u].bare = TRUE
        BY <3>1
      <3>2. CASE ~writer[u].bare
        <4>1. found = {}
          BY <1>1, <1>3, <2>1, <3>2 DEF BareInv, SnapshotsNest
        <4> QED
          BY <1>2, <4>1, Zenon
      <3> QED
        <4>1. writer[u].bare \in BOOLEAN
          BY <2>1 DEF BareInv, RowsOfReplacements, Tx
        <4> QED
          BY <3>1, <3>2, <4>1, Zenon
    <2>2. \A v, u \in Writers : (v # u /\ v # w /\ u # w /\ writer'[v].pc \in Past /\ writer'[u].pc \in Past) =>
            writer'[v].bare = TRUE \/ writer'[u].bare = TRUE
      BY <1>2 DEF BareInv, OneHolder
    <2>3. \A u \in Writers \ {w} : writer'[u].pc \in Past => writer'[w].bare = TRUE \/ writer'[u].bare = TRUE
      BY <1>2, <2>1
    <2> QED
      BY <2>2, <2>3, Zenon DEF OneHolder
  <1>11. OthersAreBare'
    BY <1>1, <1>2 DEF BareInv, OthersAreBare
  <1> QED
    BY <1>1, <1>6, <1>7, <1>8, <1>9, <1>10, <1>11 DEF BareInv

LEMMA ReadSectionsBare ==
  ASSUME BareInv, NEW w \in Writers, ReadSections(w)
  PROVE  BareInv'
  <1>1. rows' = rows /\ wrote' = wrote /\ writer[w].pc = "cleared"
    BY DEF ReadSections
  <1>2. /\ writer'[w].pc = "sections" /\ writer'[w].seen = rows
        /\ writer'[w].gone = writer[w].gone /\ writer'[w].bare = writer[w].bare
        /\ \A u \in Writers \ {w} : writer'[u] = writer[u]
        /\ writer' = [u \in Writers |-> writer'[u]]
    BY DEF ReadSections, At, BareInv, RowsOfReplacements
  <1>3. \A u \in Writers : writer'[u].pc \in Past =>
          /\ writer[u].pc \in Past
          /\ writer'[u].gone = writer[u].gone /\ writer'[u].bare = writer[u].bare
    BY <1>1, <1>2 DEF Past
  <1>4. \A u \in Writers : writer'[u].pc = "findings" => u # w /\ writer'[u] = writer[u]
    BY <1>2
  <1>5. IsSequence'
    BY <1>1 DEF BareInv, IsSequence
  <1>6. RowsOfReplacements'
    BY <1>1, <1>2 DEF BareInv, RowsOfReplacements, Tx, Past
  <1>7. DeletedIsHeld'
    BY <1>1, <1>3 DEF BareInv, DeletedIsHeld
  <1>8. SnapshotsNest'
    BY <1>1, <1>3, <1>4 DEF BareInv, SnapshotsNest
  <1>9. OneHolder'
    BY <1>3 DEF BareInv, OneHolder
  <1>10. OthersAreBare'
    BY <1>1, <1>2 DEF BareInv, OthersAreBare
  <1> QED
    BY <1>1, <1>5, <1>6, <1>7, <1>8, <1>9, <1>10 DEF BareInv

LEMMA DeleteSectionsBare ==
  ASSUME BareInv, NEW w \in Writers, DeleteSections(w)
  PROVE  BareInv'
  <1> DEFINE found == writer[w].gone \cup (writer[w].seen \cap rows)
  <1>1. rows' = rows /\ wrote' = wrote /\ writer[w].pc = "sections"
    BY DEF DeleteSections
  <1>2. /\ writer'[w].pc = "emptied" /\ writer'[w].seen = writer[w].seen
        /\ writer'[w].gone = found /\ writer'[w].bare = writer[w].bare
        /\ \A u \in Writers \ {w} : writer'[u] = writer[u]
        /\ writer' = [u \in Writers |-> writer'[u]]
    BY DEF DeleteSections, At, BareInv, RowsOfReplacements
  <1>3. \A u \in Writers \ {w} : writer[u].pc \in Past => writer[w].seen \cap writer[u].gone = {}
    BY DEF DeleteSections, Unlocked, Holds, Past
  <1>4. \A u \in Writers : writer'[u].pc \in Past =>
          writer[u].pc \in Past /\ writer'[u].bare = writer[u].bare /\ writer[u].gone \subseteq writer'[u].gone
    BY <1>1, <1>2 DEF Past
  <1>5. \A u \in Writers : writer'[u].pc = "findings" => u # w /\ writer'[u] = writer[u]
    BY <1>2
  <1>6. IsSequence'
    BY <1>1 DEF BareInv, IsSequence
  <1>7. RowsOfReplacements'
    BY <1>1, <1>2 DEF BareInv, RowsOfReplacements, Tx, Past
  <1>8. DeletedIsHeld'
    BY <1>1, <1>2, <1>3, <1>4 DEF BareInv, DeletedIsHeld
  <1>9. SnapshotsNest'
    BY <1>1, <1>4, <1>5 DEF BareInv, SnapshotsNest
  <1>10. OneHolder'
    BY <1>4 DEF BareInv, OneHolder
  <1>11. OthersAreBare'
    BY <1>1, <1>2 DEF BareInv, OthersAreBare
  <1> QED
    BY <1>1, <1>6, <1>7, <1>8, <1>9, <1>10, <1>11 DEF BareInv

LEMMA CommitBare ==
  ASSUME BareInv, NEW w \in Writers, Commit(w)
  PROVE  BareInv'
  <1> DEFINE new == InsertSections(Len(wrote) + 1, writer[w].bare, writer[w].tree)
  <1>1. writer[w].pc = "emptied" /\ rows' = (rows \ writer[w].gone) \cup new
    BY DEF Commit
  <1>2. \A r \in new : r.write = Len(wrote) + 1 /\ r.bare = writer[w].bare
    BY DEF InsertSections
  <1>3. /\ writer'[w] = Idle /\ \A u \in Writers \ {w} : writer'[u] = writer[u]
        /\ writer' = [u \in Writers |-> writer'[u]]
    BY DEF Commit, Finished, BareInv, RowsOfReplacements
  <1>4. IsSequence' /\ Len(wrote) \in Nat /\ Len(wrote') = Len(wrote) + 1
    <2> DEFINE e == [source |-> writer[w].source, sections |-> writer[w].sections]
    <2>1. PICK S : wrote \in Seq(S)
      BY DEF BareInv, IsSequence
    <2>2. wrote \in Seq(S \cup {e})
      BY <2>1
    <2>3. wrote' = Append(wrote, e)
      BY DEF Commit
    <2>4. wrote' \in Seq(S \cup {e}) /\ Len(wrote) \in Nat /\ Len(wrote') = Len(wrote) + 1
      BY <2>2, <2>3
    <2> QED
      BY <2>4 DEF IsSequence
  <1>5. \A u \in Writers : writer'[u].pc \in Tx => u # w /\ writer'[u] = writer[u]
    BY <1>3 DEF Idle, Tx, Past
  <1>6. \A u \in Writers : writer[u].pc \in Tx => writer[u].seen \cap new = {}
    BY <1>2, <1>4 DEF BareInv, RowsOfReplacements
  <1>7. RowsOfReplacements'
    BY <1>1, <1>2, <1>3, <1>4, <1>5 DEF BareInv, RowsOfReplacements
  <1>8. DeletedIsHeld'
    BY <1>1, <1>5 DEF BareInv, DeletedIsHeld, Tx, Past
  <1>9. SnapshotsNest'
    <2>1. \A u \in Writers : writer[u].pc \in Tx => writer[u].seen \cap rows' \subseteq writer[u].seen \cap rows
      BY <1>1, <1>6
    <2> QED
      BY <1>5, <2>1 DEF BareInv, SnapshotsNest, Tx
  <1>10. OneHolder'
    BY <1>5 DEF BareInv, OneHolder, Tx
  <1>11. \A u \in Writers : (writer'[u].pc \in Past /\ ~writer'[u].bare) => \A r \in new : r.bare = TRUE
    BY <1>1, <1>2, <1>5 DEF BareInv, OneHolder, Tx, Past
  <1>12. OthersAreBare'
    BY <1>1, <1>5, <1>11 DEF BareInv, OthersAreBare, Tx, Past
  <1>13. \A r, s \in rows' : r.write = s.write \/ r.bare = TRUE \/ s.bare = TRUE
    <2>1. \A r \in new, s \in rows \ writer[w].gone : r.bare = TRUE \/ s.bare = TRUE
      BY <1>1, <1>2 DEF BareInv, OthersAreBare, RowsOfReplacements, Tx, Past
    <2> QED
      BY <1>1, <1>2, <2>1 DEF BareInv
  <1> QED
    BY <1>4, <1>7, <1>8, <1>9, <1>10, <1>12, <1>13 DEF BareInv

LEMMA NextBare == BareInv /\ [Next]_vars => BareInv'
  <1> SUFFICES ASSUME BareInv, [Next]_vars PROVE BareInv'
    OBVIOUS
  <1>1. CASE UNCHANGED <<rows, wrote, writer>>
    BY <1>1 DEF BareInv, IsSequence, RowsOfReplacements, DeletedIsHeld, SnapshotsNest, OneHolder, OthersAreBare
  <1>2. ASSUME NEW w \in Writers, Write(w) PROVE BareInv'
    <2>1. CASE StartCompile(w)
      BY <2>1, Leaves DEF StartCompile, Tx, Past
    <2>2. CASE CompileAnswer(w)
      BY <2>2, Leaves, CompiledPc DEF CompileAnswer
    <2>3. CASE PatchReport(w)
      BY <2>3, Leaves DEF PatchReport, Transaction, Tx, Past
    <2>4. CASE Rollback(w)
      BY <2>4, Leaves DEF Rollback, Finished, Idle, Tx, Past
    <2> QED
      BY <1>2, <2>1, <2>2, <2>3, <2>4, BeginReplaceBare, DeleteFindingsBare, ReadSectionsBare,
         DeleteSectionsBare, CommitBare DEF Write
  <1> QED
    BY <1>1, <1>2 DEF Next, vars, Boot, PatchLabel, Remove

\* For any number of overlapping attempts and PATCH requests, and any reports:
\* two replacements end up side by side only when one of them found no findings
\* to delete.  The row locks of the findings are what replaceReport's atomicity
\* rests on; on an empty report there are none.
THEOREM OverlapNeedsBareReport == Spec => []MergedOnlyWhenBare
  <1>1. BareInv => MergedOnlyWhenBare
    BY DEF BareInv, MergedOnlyWhenBare
  <1> QED
    BY InitBare, NextBare, <1>1, PTL DEF Spec

-----------------------------------------------------------------------------
(* What a process that booted is made of, and what it writes.               *)

\* The configuration of a process that is up came from an accepted environment.
Booted ==
  Up => \E e \in Envs : Accepted(e) /\ app.config = LoadConfig(e)

\* Nothing is written before, and afterwards only edits and what the bound
\* compiler returned.
SourcesKnown ==
  /\ IsSequence
  /\ writer = [w \in Writers |-> writer[w]]
  /\ ~Up => wrote = <<>> /\ \A w \in Writers : writer[w].pc = "idle"
  /\ \A w \in Writers : writer[w].pc \in Tx \cup {"begin"} => writer[w].source \in {"edit", app.config.compiler}
  /\ \A v \in 1..Len(wrote) : wrote[v].source \in {"edit", app.config.compiler}

BootInv == Booted /\ SourcesKnown

LEMMA InitBoot == Init => BootInv
  <1> SUFFICES ASSUME Init PROVE BootInv
    OBVIOUS
  <1>1. ~Up /\ wrote = <<>> /\ Len(wrote) = 0 /\ writer = [w \in Writers |-> writer[w]]
    BY DEF Init, Up
  <1>2. \A w \in Writers : writer[w].pc = "idle"
    BY DEF Init, Idle
  <1>3. IsSequence
    BY DEF Init, IsSequence
  <1> QED
    BY <1>1, <1>2, <1>3 DEF BootInv, Booted, SourcesKnown, Tx, Past

\* A step of a writer that commits nothing.
LEMMA SourceKept ==
  ASSUME BootInv, Up, NEW w \in Writers, NEW x, app' = app, wrote' = wrote,
         writer' = [writer EXCEPT ![w] = x],
         x.pc \in Tx \cup {"begin"} => x.source \in {"edit", app.config.compiler}
  PROVE  BootInv'
  <1>1. writer'[w] = x /\ \A u \in Writers \ {w} : writer'[u] = writer[u]
    BY DEF BootInv, SourcesKnown
  <1>2. writer' = [u \in Writers |-> writer'[u]]
    BY DEF BootInv, SourcesKnown
  <1>3. \A u \in Writers : writer'[u].pc \in Tx \cup {"begin"} => writer'[u].source \in {"edit", app.config.compiler}
    BY <1>1 DEF BootInv, SourcesKnown
  <1>4. IsSequence' /\ Up' /\ Booted'
    BY DEF BootInv, SourcesKnown, Booted, IsSequence, Up
  <1> QED
    BY <1>2, <1>3, <1>4 DEF BootInv, SourcesKnown

LEMMA CommitBoot ==
  ASSUME BootInv, Up, NEW w \in Writers, Commit(w)
  PROVE  BootInv'
  <1> DEFINE e == [source |-> writer[w].source, sections |-> writer[w].sections]
  <1>1. wrote' = Append(wrote, e) /\ app' = app /\ writer' = [writer EXCEPT ![w] = Idle]
    BY DEF Commit, Finished
  <1>2. e.source \in {"edit", app.config.compiler}
    BY DEF Commit, BootInv, SourcesKnown, Tx, Past
  <1>3. PICK S : wrote \in Seq(S)
    BY DEF BootInv, SourcesKnown, IsSequence
  <1>4. wrote \in Seq(S \cup {e})
    BY <1>3
  <1>5. /\ wrote' \in Seq(S \cup {e}) /\ Len(wrote') = Len(wrote) + 1 /\ Len(wrote) \in Nat
        /\ wrote'[Len(wrote) + 1] = e /\ \A v \in 1..Len(wrote) : wrote'[v] = wrote[v]
    BY <1>1, <1>4
  <1>6. \A v \in 1..Len(wrote') : wrote'[v].source \in {"edit", app.config.compiler}
    <2> SUFFICES ASSUME NEW v \in 1..Len(wrote') PROVE wrote'[v].source \in {"edit", app.config.compiler}
      OBVIOUS
    <2>1. v \in 1..Len(wrote) \/ v = Len(wrote) + 1
      BY <1>5
    <2> QED
      BY <1>2, <1>5, <2>1 DEF BootInv, SourcesKnown
  <1>7. IsSequence' /\ Up' /\ Booted'
    BY <1>1, <1>5 DEF BootInv, Booted, IsSequence, Up
  <1>8. /\ writer' = [u \in Writers |-> writer'[u]]
        /\ \A u \in Writers : writer'[u].pc \in Tx \cup {"begin"} => writer'[u].source \in {"edit", app.config.compiler}
    BY <1>1 DEF BootInv, SourcesKnown, Idle, Tx, Past
  <1> QED
    BY <1>1, <1>6, <1>7, <1>8 DEF BootInv, SourcesKnown

LEMMA NextBoot == BootInv /\ [Next]_vars => BootInv'
  <1> SUFFICES ASSUME BootInv, [Next]_vars PROVE BootInv'
    OBVIOUS
  <1>1. CASE UNCHANGED <<app, wrote, writer>>
    BY <1>1 DEF BootInv, Booted, SourcesKnown, IsSequence, Up
  <1>2. CASE Boot
    <2>1. ~Up /\ wrote' = wrote /\ writer' = writer
      BY <1>2 DEF Boot, Up
    <2>2. wrote = <<>> /\ Len(wrote) = 0 /\ \A w \in Writers : writer[w].pc = "idle"
      BY <2>1 DEF BootInv, SourcesKnown
    <2>3. Booted'
      BY <1>2 DEF Boot, Booted, Up
    <2> QED
      BY <2>1, <2>2, <2>3 DEF BootInv, SourcesKnown, IsSequence, Tx, Past
  <1>3. ASSUME NEW w \in Writers, Write(w) PROVE BootInv'
    <2>1. Up
      BY <1>3 DEF Write, StartCompile, PatchReport, CompileAnswer, BeginReplace, DeleteFindings, ReadSections,
         DeleteSections, Commit, Rollback, BootInv, SourcesKnown
    <2>2. CASE StartCompile(w)
      BY <2>1, <2>2, SourceKept DEF StartCompile, Tx, Past
    <2>3. CASE CompileAnswer(w)
      <3>1. PICK o \in Answers : writer' = [writer EXCEPT ![w] = Compiled(w, o)]
        BY <2>3 DEF CompileAnswer
      <3>2. Compiled(w, o).pc \in Tx \cup {"begin"} => Compiled(w, o).source \in {"edit", app.config.compiler}
        BY DEF Compiled, Idle, Transaction, Tx, Past
      <3> QED
        BY <2>1, <2>3, <3>1, <3>2, SourceKept DEF CompileAnswer
    <2>4. CASE PatchReport(w)
      <3>1. PICK sections \in Edits, label \in Labels \cup {NoLabel} :
              writer' = [writer EXCEPT ![w] = Transaction("edit", sections, ToReportInput(sections), label)]
        BY <2>4 DEF PatchReport
      <3>2. Transaction("edit", sections, ToReportInput(sections), label).source = "edit"
        BY DEF Transaction
      <3> QED
        BY <2>1, <2>4, <3>1, <3>2, SourceKept DEF PatchReport
    <2>5. ASSUME NEW pc, NEW seen, NEW gone, NEW bare, At(w, pc, seen, gone, bare),
                 writer[w].pc \in Tx \cup {"begin"}, app' = app, wrote' = wrote
          PROVE  BootInv'
      <3> DEFINE x == [pc |-> pc, source |-> writer[w].source, sections |-> writer[w].sections,
                       tree |-> writer[w].tree, label |-> writer[w].label,
                       seen |-> seen, gone |-> gone, bare |-> bare]
      <3>1. x.source \in {"edit", app.config.compiler}
        BY <2>5 DEF BootInv, SourcesKnown
      <3>2. writer' = [writer EXCEPT ![w] = x]
        BY <2>5 DEF At
      <3> HIDE DEF x
      <3> QED
        BY <2>1, <2>5, <3>1, <3>2, SourceKept
    <2>6. ASSUME Finished(w), app' = app, wrote' = wrote PROVE BootInv'
      BY <2>1, <2>6, SourceKept DEF Finished, Idle, Tx, Past
    <2>7. CASE BeginReplace(w)
      BY <2>5, <2>6, <2>7 DEF BeginReplace
    <2>8. CASE DeleteFindings(w)
      BY <2>5, <2>8 DEF DeleteFindings, Tx
    <2>9. CASE ReadSections(w)
      BY <2>5, <2>9 DEF ReadSections, Tx, Past
    <2>10. CASE DeleteSections(w)
      BY <2>5, <2>10 DEF DeleteSections, Tx, Past
    <2>11. CASE Rollback(w)
      BY <2>6, <2>11 DEF Rollback
    <2> QED
      BY <1>3, <2>1, <2>2, <2>3, <2>4, <2>7, <2>8, <2>9, <2>10, <2>11, CommitBoot DEF Write
  <1> QED
    BY <1>1, <1>2, <1>3 DEF Next, vars, PatchLabel, Remove

\* In production no stored report is the mock compiler's, and neither the
\* transcriber nor the token verifier is a stand-in, whatever environment the
\* process was given.
THEOREM ProductionIsReal == Spec => []NeverFabricated
  <1>1. BootInv => NeverFabricated
    <2> SUFFICES ASSUME BootInv, Up, app.config.nodeEnv = "production"
                 PROVE  /\ \A v \in DOMAIN wrote : wrote[v].source # "mock"
                        /\ app.config.transcriber # "mock" /\ app.config.verifier # "dev"
      BY DEF NeverFabricated
    <2>1. PICK e \in Envs : Accepted(e) /\ app.config = LoadConfig(e)
      BY DEF BootInv, Booted
    <2>2. e.NODE_ENV = "production"
      BY <2>1 DEF LoadConfig
    <2>3. ~Boolish(e.USE_MOCK_AI) /\ ~Boolish(e.APPLE_AUTH_DEV_BYPASS) /\ ~MockAi(e)
      BY <2>1, <2>2 DEF Accepted, MockAi
    <2>4. app.config.compiler = "deepseek" /\ app.config.transcriber # "mock" /\ app.config.verifier = "real"
      BY <2>1, <2>3, FlowAssumption DEF LoadConfig, Transcriber, ReportCompiler, AppleTokenVerifier
    <2>5. DOMAIN wrote = 1..Len(wrote)
      BY DEF BootInv, SourcesKnown, IsSequence
    <2> QED
      BY <2>4, <2>5 DEF BootInv, SourcesKnown
  <1> QED
    BY InitBoot, NextBoot, <1>1, PTL DEF Spec

\* A process that is up has the key of every provider it calls.
THEOREM KeysAtBoot == Spec => []CalledProvidersHaveKeys
  <1>1. BootInv => CalledProvidersHaveKeys
    <2> SUFFICES ASSUME BootInv, Up
                 PROVE  {app.config.transcriber, app.config.compiler} \ {"mock"} \subseteq app.config.keys
      BY DEF CalledProvidersHaveKeys
    <2>1. PICK e \in Envs : Accepted(e) /\ app.config = LoadConfig(e)
      BY DEF BootInv, Booted
    <2>2. CASE MockAi(e)
      BY <2>1, <2>2 DEF LoadConfig, Transcriber, ReportCompiler
    <2>3. CASE ~MockAi(e)
      BY <2>1, <2>3, FlowAssumption DEF LoadConfig, Transcriber, ReportCompiler, Accepted, MockAi, KeysGiven
    <2> QED
      BY <2>2, <2>3
  <1> QED
    BY InitBoot, NextBoot, <1>1, PTL DEF Spec

=============================================================================
