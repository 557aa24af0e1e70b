---------------------------- MODULE MCReportFlow -----------------------------
(* Model-checking instance of ReportFlow. *)
EXTENDS ReportFlow, TLC

MCLower == [v \in {"", "off", "TRUE", "yes"} |-> IF v = "TRUE" THEN "true" ELSE v]

\* Every combination of what the boot-time rules look at.
MCEnvs ==
  [NODE_ENV: {"development", "test", "production"},
   USE_MOCK_AI: {"", "off", "TRUE"}, APPLE_AUTH_DEV_BYPASS: {"", "yes"},
   TRANSCRIPTION_PROVIDER: {"deepgram", "openai"},
   DEEPGRAM_API_KEY: BOOLEAN, OPENAI_API_KEY: BOOLEAN, DEEPSEEK_API_KEY: BOOLEAN,
   APPLE_KEYS: BOOLEAN,
   JWT_ACCESS_SECRET: {"change-me", "a"}, JWT_REFRESH_SECRET: {"a", "b"},
   CORS_ORIGINS: {{"*"}, {"https://app"}}]

Text(body, size, padded) == [body |-> body, size |-> size, padded |-> padded]
Said(body, severity) == [text |-> Text(body, 20, body = "x"), severity |-> severity]
Section(title, findings) == [title |-> Text(title, 4, title = "B"), findings |-> findings]
Report(sections) == [kind |-> "report", sections |-> sections]

\* Two findings that tie and one that must come first, in a padded section after
\* one without findings; nothing at all; a severity that does not exist, a text
\* that is only white space, more findings than are allowed; other JSON; and
\* calls that throw.
MCOutputs ==
  {Report(<<Section("A", <<>>),
            Section("B", <<Said("x", "info"), Said("y", "info"), Said("z", "safety")>>)>>),
   Report(<<>>),
   Report(<<Section("A", <<Said("x", "urgent")>>)>>),
   Report(<<Section("A", <<[text |-> Text("x", 0, TRUE), severity |-> "info"]>>)>>),
   Report(<<Section("A", [i \in 1..(MaxFindings + 1) |-> Said("x", "info")])>>),
   [kind |-> "other JSON"], [kind |-> "no tool call"], [kind |-> "not JSON"], [kind |-> "error"]}

Numbered(record, n) == [sortOrder |-> n] @@ record

\* Sections and findings sent in another order than they are numbered, with
\* equal numbers, and a text of white space, which a PATCH may hold; a section
\* left without findings; and an empty title, which a PATCH may not hold.
MCEdits ==
  {<<Numbered(Section("B", <<Numbered(Said("x", "info"), 1), Numbered(Said("y", "repair"), 0)>>), 5),
     Numbered(Section("A", <<Numbered([text |-> Text("x", 0, TRUE), severity |-> "info"], 0)>>), 5)>>,
   <<Numbered(Section("A", <<>>), 0)>>,
   <<Numbered([title |-> Text("", 0, FALSE), findings |-> <<>>], 0)>>}

Symmetry == Permutations(Writers)

=============================================================================
