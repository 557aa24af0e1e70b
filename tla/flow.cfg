SPECIFICATION Spec
CONSTANTS
  MaxSections = 9
  MaxFindings = 3
  Lower <- MCLower
  Writers = {w1, w2}
  Envs <- MCEnvs
  Outputs <- MCOutputs
  Edits <- MCEdits
  Labels = {"l"}
  NoLabel = NoLabel
  MaxWrites = 3
SYMMETRY Symmetry
INVARIANTS CalledProvidersHaveKeys NeverFabricated MergedOnlyWhenBare CompiledFaithfully EditedFaithfully PdfTellsAll
CHECK_DEADLOCK FALSE
