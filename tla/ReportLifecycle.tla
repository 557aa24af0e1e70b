--------------------------- MODULE ReportLifecycle ---------------------------
(***************************************************************************)
(* What FieldNote promises about one job, without queue, workers, retries  *)
(* or requests: speech becomes text, text becomes a PDF, and only then may *)
(* the PDF be offered; a job its user deleted is never offered again, and  *)
(* only then may its PDF disappear.                                        *)
(***************************************************************************)
VARIABLES
  transcribed,  \* the text is there
  rendered,     \* the PDF is there
  offered,      \* the API hands out the PDF
  withdrawn     \* the user has deleted the job

vars == <<transcribed, rendered, offered, withdrawn>>

Init == ~transcribed /\ ~rendered /\ ~offered /\ ~withdrawn

Transcribe == transcribed' = TRUE /\ UNCHANGED <<rendered, offered, withdrawn>>

Render ==
  /\ transcribed
  /\ rendered' = TRUE
  /\ UNCHANGED <<transcribed, offered, withdrawn>>

Offer ==
  /\ rendered /\ ~withdrawn
  /\ offered' = TRUE
  /\ UNCHANGED <<transcribed, rendered, withdrawn>>

\* The job is processed again, or has failed after all.
Retract == offered' = FALSE /\ UNCHANGED <<transcribed, rendered, withdrawn>>

Withdraw ==
  /\ withdrawn' = TRUE /\ offered' = FALSE
  /\ UNCHANGED <<transcribed, rendered>>

Erase ==
  /\ withdrawn
  /\ rendered' = FALSE
  /\ UNCHANGED <<transcribed, offered, withdrawn>>

Next == Transcribe \/ Render \/ Offer \/ Retract \/ Withdraw \/ Erase

Spec == Init /\ [][Next]_vars

=============================================================================
