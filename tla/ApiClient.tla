------------------------------ MODULE ApiClient ------------------------------
(***************************************************************************)
(* The app's session: the APIClient actor (stored tokens, one refresh task *)
(* at a time, resends of a lost request) and the SessionStore's phase,     *)
(* against the rotation of AuthService.  The actor runs one step at a time *)
(* and lets other calls in at every await.  The keychain always holds what *)
(* the actor's memory holds.                                               *)
(***************************************************************************)
EXTENDS AuthService, Sequences, SequencesExt

VARIABLES
  tokens,        \* the stored refresh token, 0 when there is none
  refreshTask,   \* the flight that callers join
  flight,        \* refresh tasks and the calls of refreshTokens that own them
  phase,         \* SessionStore.phase
  main           \* what waits for the main actor, which runs it in order

vars == <<token, call, tokens, refreshTask, flight, phase, main>>
auth == <<token, call>>
ui   == <<phase, main>>

Flight == [pc: {"idle", "send", "wait", "granted", "failed"},
           tok: 0..MaxTokens, sends: 0..MaxSends]

IdleFlight == [pc |-> "idle", tok |-> 0, sends |-> 0]

Init ==
  /\ AuthInit
  /\ tokens = 0 /\ refreshTask = NoFlight
  /\ flight = [f \in Flights |-> IdleFlight]
  /\ phase = "signedOut" /\ main = <<>>

\* Bound: n tokens can still be issued when every request that may yet be granted
\* one, and every attempt that a flight has left, has had its own.
Spare(n) ==
  LET asked == {c \in Calls : call[c].pc \in {"check", "rotate"}}
      up    == {f \in Flights : flight[f].pc \in {"send", "wait"}}
      left  == UNION {{f} \X (flight[f].sends + 1 .. MaxSends) : f \in up}
  IN  Cardinality({k \in Token : token[k].state = "unissued"})
        >= n + Cardinality(asked) + Cardinality(left)

-----------------------------------------------------------------------------
\* signInWithApple: verified, issued and applied.  SessionStore sets the phase
\* when it resumes on the main actor.
SignIn(n) ==
  /\ phase = "signedOut" /\ ~Contains(main, "signIn") /\ Spare(1)
  /\ IssueTokenPair(n)
  /\ tokens' = n /\ main' = Append(main, "signIn")
  /\ UNCHANGED <<call, refreshTask, flight, phase>>

\* The main actor runs what was enqueued first: the rest of exchange, the rest of
\* SessionStore.signOut, or handleAuthExpired.
MainStep ==
  /\ main # <<>>
  /\ phase' = IF Head(main) = "signIn" THEN "signedIn" ELSE "signedOut"
  /\ main' = Tail(main)
  /\ UNCHANGED <<auth, tokens, refreshTask, flight>>

\* Mutant: a second caller starts a refresh of its own.
StartRefreshUnjoined(f) ==
  /\ tokens # 0 /\ flight[f].pc = "idle" /\ Spare(MaxSends)
  /\ refreshTask' = f
  /\ flight' = [flight EXCEPT ![f] = [pc |-> "send", tok |-> tokens, sends |-> 0]]
  /\ UNCHANGED <<auth, tokens, ui>>

\* An authorized request got a 401 and finds no refresh to join.
StartRefresh(f) ==
  /\ refreshTask = NoFlight /\ tokens # 0 /\ flight[f].pc = "idle" /\ Spare(MaxSends)
  /\ refreshTask' = f
  /\ flight' = [flight EXCEPT ![f] = [pc |-> "send", tok |-> tokens, sends |-> 0]]
  /\ UNCHANGED <<auth, tokens, ui>>

\* Mutant: a resend does not count as an attempt.
SendUncounted(f, c) ==
  /\ flight[f].pc = "send" /\ call[c].pc = "idle"
  /\ call' = [call EXCEPT ![c] = [IdleCall EXCEPT !.pc = "check", !.tok = flight[f].tok, !.flight = f]]
  /\ flight' = [flight EXCEPT ![f].pc = "wait"]
  /\ UNCHANGED <<token, tokens, refreshTask, ui>>

\* requestRefresh reaches the server.
Send(f, c) ==
  /\ flight[f].pc = "send" /\ call[c].pc = "idle"
  /\ call' = [call EXCEPT ![c] = [IdleCall EXCEPT !.pc = "check", !.tok = flight[f].tok, !.flight = f]]
  /\ flight' = [flight EXCEPT ![f].pc = "wait", ![f].sends = @ + 1]
  /\ UNCHANGED <<token, tokens, refreshTask, ui>>

\* The flight c answers is still waiting for it.
Awaited(c) == call[c].flight # NoFlight

\* The answer arrives, or finds nobody waiting.  A 401 is not retried.
Reply(c) ==
  /\ call[c].pc \in {"granted", "denied"}
  /\ call' = [call EXCEPT ![c] = IdleCall]
  /\ flight' = IF Awaited(c)
               THEN [flight EXCEPT ![call[c].flight] =
                       [pc |-> IF call[c].pc = "granted" THEN "granted" ELSE "failed",
                        tok |-> call[c].new, sends |-> 0]]
               ELSE flight
  /\ UNCHANGED <<token, tokens, refreshTask, ui>>

\* Mutant: one attempt too many.
MayResendOnceMore(f) == flight[f].sends <= MaxSends

\* performData sends again after a transport error while attempts remain.
MayResend(f) == flight[f].sends < MaxSends

\* The request times out at the client or its connection breaks, or a 5xx comes
\* back; the server may go on with it all the same.
LoseReply(c) ==
  LET f == call[c].flight IN
  /\ "lost" \in Faults
  /\ call[c].pc # "idle" /\ Awaited(c)
  /\ call' = [call EXCEPT ![c].flight = NoFlight]
  /\ flight' = [flight EXCEPT ![f] = IF MayResend(f) THEN [@ EXCEPT !.pc = "send"]
                                     ELSE [pc |-> "failed", tok |-> 0, sends |-> 0]]
  /\ UNCHANGED <<token, tokens, refreshTask, ui>>

\* Mutant: the new pair is not stored.
StoredOld(f) == tokens

\* applyTokens stores the new pair, clearTokens drops whatever is stored.
Stored(f) == IF flight[f].pc = "granted" THEN flight[f].tok ELSE 0

\* Mutant: the app is not told that its session ended.
NoticedNever(f) == main

\* notifyAuthExpired schedules the SessionStore's handler.
Noticed(f) == IF flight[f].pc = "failed" THEN Append(main, "expired") ELSE main

\* refreshTokens resumes after task.value: its defer clears refreshTask.
FinishRefresh(f) ==
  /\ flight[f].pc \in {"granted", "failed"}
  /\ tokens' = Stored(f)
  /\ main' = Noticed(f)
  /\ refreshTask' = NoFlight
  /\ flight' = [flight EXCEPT ![f] = IdleFlight]
  /\ UNCHANGED <<auth, phase>>

\* A request under way that belongs to flight f loses its client.
Abandoned(f) == [c \in Calls |-> IF call[c].flight = f THEN [call[c] EXCEPT !.flight = NoFlight] ELSE call[c]]

\* signOut cancels the task: one that still waits fails, one that has its answer
\* is past cancelling.  SessionStore sets the phase when it resumes.  Bound: one
\* sign-out waits for the main actor at a time.
SignOut ==
  /\ "signout" \in Faults /\ phase = "signedIn" /\ ~Contains(main, "signOut")
  /\ \/ refreshTask = NoFlight /\ UNCHANGED <<call, flight>>
     \/ /\ refreshTask # NoFlight /\ flight[refreshTask].pc \in {"send", "wait"}
        /\ call' = Abandoned(refreshTask)
        /\ flight' = [flight EXCEPT ![refreshTask] = [pc |-> "failed", tok |-> 0, sends |-> 0]]
     \/ /\ refreshTask # NoFlight /\ flight[refreshTask].pc \notin {"send", "wait"}
        /\ UNCHANGED <<call, flight>>
  /\ refreshTask' = NoFlight /\ tokens' = 0 /\ main' = Append(main, "signOut")
  /\ UNCHANGED <<token, phase>>

\* The app is killed and launched again: only the keychain survives.
Restart ==
  /\ "restart" \in Faults
  /\ call' = [c \in Calls |-> [call[c] EXCEPT !.flight = NoFlight]]
  /\ flight' = [f \in Flights |-> IdleFlight]
  /\ refreshTask' = NoFlight
  /\ phase' = IF tokens # 0 THEN "signedIn" ELSE "signedOut"
  /\ main' = <<>>
  /\ UNCHANGED <<token, tokens>>

-----------------------------------------------------------------------------
ServerStep(c) ==
  /\ RefreshCheck(c) \/ RefreshRevokeChain(c) \/ RefreshRotate(c)
  /\ UNCHANGED <<tokens, refreshTask, flight, ui>>

Next ==
  \/ \E n \in Token : SignIn(n)
  \/ MainStep \/ SignOut \/ Restart
  \/ \E f \in Flights : StartRefresh(f) \/ FinishRefresh(f) \/ \E c \in Calls : Send(f, c)
  \/ \E c \in Calls : ServerStep(c) \/ Reply(c) \/ LoseReply(c)
  \/ \E k \in Token : Expire(k) /\ UNCHANGED <<tokens, refreshTask, flight, ui>>

Spec == Init /\ [][Next]_vars

\* Requests are sent, handled and answered, and suspended calls resume.
Fairness ==
  /\ \A f \in Flights : WF_vars(FinishRefresh(f)) /\ WF_vars(\E c \in Calls : Send(f, c))
  /\ \A c \in Calls : WF_vars(ServerStep(c)) /\ WF_vars(Reply(c))
  /\ WF_vars(MainStep)

FairSpec == Spec /\ Fairness

-----------------------------------------------------------------------------
\* Every part of the session's state has the shape the code gives it.
TypeOK ==
  /\ token \in [Token -> TokenRow] /\ call \in [Calls -> Call]
  /\ tokens \in 0..MaxTokens /\ refreshTask \in Flights \cup {NoFlight}
  /\ flight \in [Flights -> Flight]
  /\ phase \in {"signedIn", "signedOut"} /\ main \in Seq({"signIn", "signOut", "expired"})

\* As long as no answer is lost and the app is not killed, the token the app has
\* stored is the live one of its chain whenever no refresh is under way: rotation
\* never locks an orderly client out.
StoredTokenIsLive ==
  (tokens # 0 /\ \A f \in Flights : flight[f].pc = "idle") => tokens \in Active

\* Rotation is single-use: no token is traded for two others.  It holds as long as
\* no answer is lost and the app is not killed; a resend may break it.
SingleUse == \A k, m \in Token : token[k].parent = token[m].parent /\ token[k].parent # 0 => k = m

\* Concurrent callers never race on the refresh path: one token is never
\* presented by two refresh tasks at a time.
SingleFlight ==
  \A f, g \in Flights :
    flight[f].pc \in {"send", "wait"} /\ flight[g].pc \in {"send", "wait"} /\ flight[f].tok = flight[g].tok => f = g

\* The app does not stay in its signed-in screens without a session.
PhaseFollowsSession == (phase = "signedIn" /\ tokens = 0) ~> (phase = "signedOut" \/ tokens # 0)

\* A refresh ends, whatever is lost: the callers that joined it are answered.
RefreshEnds == \A f \in Flights : flight[f].pc # "idle" ~> flight[f].pc = "idle"

-----------------------------------------------------------------------------
(* The inductive invariants behind the proofs.                              *)

\* A flight may send as often as it has attempts left.
SendsInv == \A f \in Flights : flight[f].pc = "send" => flight[f].sends < MaxSends

\* Whatever the app and the requests hold has been issued.
IsIssued(k) == k \in Token /\ token[k].state # "unissued"

Carries(f) == flight[f].pc \in {"send", "wait", "granted"}

IssuedInv ==
  /\ tokens # 0 => IsIssued(tokens)
  /\ \A f \in Flights : Carries(f) => IsIssued(flight[f].tok)
  /\ \A c \in Calls : /\ call[c].pc # "idle" => IsIssued(call[c].tok)
                      /\ call[c].pc = "granted" => IsIssued(call[c].new)

\* A token has one place: that of the flight that presents it or brings it, of the
\* answer that grants it, or of the store; only the task that callers join presents
\* the token that is stored.
OnePlaceInv ==
  /\ \A f, g \in Flights : Carries(f) /\ Carries(g) /\ flight[f].tok = flight[g].tok => f = g
  /\ \A f \in Flights :
       Carries(f) /\ flight[f].tok = tokens => f = refreshTask /\ flight[f].pc # "granted"
  /\ \A c \in Calls : call[c].pc = "granted" =>
       /\ call[c].new # tokens
       /\ \A f \in Flights : Carries(f) => flight[f].tok # call[c].new
       /\ \A d \in Calls : call[d].pc = "granted" /\ call[c].new = call[d].new => c = d

\* A request that is awaited belongs to one waiting flight and carries its token, and
\* the task that callers join is under way.
AwaitedInv ==
  /\ \A c \in Calls : Awaited(c) =>
       /\ call[c].pc # "idle" /\ flight[call[c].flight].pc = "wait"
       /\ call[c].tok = flight[call[c].flight].tok
       /\ \A d \in Calls : call[d].flight = call[c].flight => c = d
  /\ refreshTask # NoFlight => flight[refreshTask].pc # "idle"

\* While no answer is lost and the app is not killed, a token is presented once:
\* not again by another request, a flight that has yet to send, or the store, and a
\* token that is being granted not at all.
PresentedOnceInv ==
  \A c \in Calls : call[c].pc # "idle" =>
    /\ \A d \in Calls : call[d].pc # "idle" /\ call[c].tok = call[d].tok => c = d
    /\ \A d \in Calls : call[d].pc = "granted" => call[d].new # call[c].tok
    /\ \A f \in Flights : flight[f].pc \in {"send", "granted"} => flight[f].tok # call[c].tok
    /\ ~Awaited(c) => call[c].tok # tokens

\* So reuse is never detected, and a token is live until its one request trades it.
LiveInv ==
  /\ \A c \in Calls : /\ call[c].pc # "revoke"
                      /\ call[c].pc \in {"check", "rotate"} => call[c].tok \in Active
                      /\ call[c].pc = "granted" => call[c].new \in Active
  /\ \A f \in Flights : flight[f].pc \in {"send", "granted"} => flight[f].tok \in Active
  /\ tokens # 0 /\ refreshTask = NoFlight => tokens \in Active

\* A token that was traded for another has been revoked.
TradedInv ==
  \A m \in Token : token[m].parent # 0 =>
    /\ token[m].state # "unissued"
    /\ token[m].parent \in Token /\ token[token[m].parent].state = "revoked"

=============================================================================
