SPECIFICATION Spec
CONSTANTS
  Users = {u1, u2}
  Keys = {"k"}
  Headers = {"absent", "blank", "plain", "padded"}
  Trim <- MCTrim
  NoKey = NoKey
  MaxJobs = 4
  Creates = {c1, c2}
  Pagers = {p1}
  Limits = {1, 2}
SYMMETRY Symmetry
INVARIANTS AnswersAgree NoServerError PagesInOrder PagesComplete
CHECK_DEADLOCK FALSE
