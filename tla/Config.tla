------------------------------- MODULE Config --------------------------------
(***************************************************************************)
(* The environment a process boots with, the configuration made of it, and *)
(* the providers the modules bind.  An environment is a record of the      *)
(* variables that decide something: those that name a provider, open a     *)
(* bypass or hold a secret.  A flag is the spelling it was given; a key is *)
(* whether it is there.                                                    *)
(***************************************************************************)
CONSTANT Lower  \* String.prototype.toLowerCase, on the spellings of the flags

Boolish(v) == Lower[v] \in {"1", "true", "yes", "on"}

\* Mutant: only an explicit flag mocks the providers.
MockAiByFlagOnly(e) == Boolish(e.USE_MOCK_AI)

\* loadConfig's useMock.  superRefine computes the same for itself: see Accepted.
MockAi(e) == Boolish(e.USE_MOCK_AI) \/ e.NODE_ENV = "test"

KeysGiven(e) ==
  /\ e.TRANSCRIPTION_PROVIDER = "deepgram" => e.DEEPGRAM_API_KEY
  /\ e.TRANSCRIPTION_PROVIDER = "openai" => e.OPENAI_API_KEY
  /\ e.DEEPSEEK_API_KEY

SecretsFit(e) ==
  /\ e.JWT_ACCESS_SECRET # "change-me"
  /\ e.JWT_REFRESH_SECRET # "change-me"
  /\ e.JWT_ACCESS_SECRET # e.JWT_REFRESH_SECRET
  /\ "*" \notin e.CORS_ORIGINS

\* Mutant: the mock providers may run in production.
AcceptedWithMocks(e) ==
  /\ (Boolish(e.USE_MOCK_AI) \/ e.NODE_ENV = "test") \/ KeysGiven(e)
  /\ e.NODE_ENV = "production" => ~Boolish(e.APPLE_AUTH_DEV_BYPASS) /\ SecretsFit(e)
  /\ Boolish(e.APPLE_AUTH_DEV_BYPASS) \/ e.APPLE_KEYS

\* rawSchema with its superRefine: the process boots, or throws.
Accepted(e) ==
  /\ (Boolish(e.USE_MOCK_AI) \/ e.NODE_ENV = "test") \/ KeysGiven(e)
  /\ e.NODE_ENV = "production" =>
       /\ ~Boolish(e.APPLE_AUTH_DEV_BYPASS)
       /\ ~Boolish(e.USE_MOCK_AI)
       /\ SecretsFit(e)
  /\ Boolish(e.APPLE_AUTH_DEV_BYPASS) \/ e.APPLE_KEYS

Transcriber(e) ==
  IF MockAi(e) THEN "mock" ELSE e.TRANSCRIPTION_PROVIDER

ReportCompiler(e) == IF MockAi(e) THEN "mock" ELSE "deepseek"

AppleTokenVerifier(e) == IF Boolish(e.APPLE_AUTH_DEV_BYPASS) THEN "dev" ELSE "real"

\* loadConfig and the factories: what a process that boots is made of.
LoadConfig(e) ==
  [nodeEnv      |-> e.NODE_ENV,
   transcriber  |-> Transcriber(e),
   compiler     |-> ReportCompiler(e),
   verifier     |-> AppleTokenVerifier(e),
   keys         |-> {p \in {Transcriber(e), ReportCompiler(e)} :
                       \/ p = "deepgram" /\ e.DEEPGRAM_API_KEY
                       \/ p = "openai" /\ e.OPENAI_API_KEY
                       \/ p = "deepseek" /\ e.DEEPSEEK_API_KEY}]

=============================================================================
