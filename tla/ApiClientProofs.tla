--------------------------- MODULE ApiClientProofs ---------------------------
(* Proofs about the session, for any number of tokens, refresh tasks,        *)
(* requests and attempts.                                                    *)
EXTENDS ApiClient, TLAPS

-----------------------------------------------------------------------------
(* What each action does, point by point.                                   *)

OtherCalls(c) == \A d \in Calls : d # c => call'[d] = call[d]

OtherFlights(f) == \A g \in Flights : g # f => flight'[g] = flight[g]

\* A sign-in issues a token that was never issued and stores it.
LEMMA SignInMoves ==
  ASSUME TypeOK, NEW n \in Token, SignIn(n)
  PROVE  /\ token[n].state = "unissued" /\ token' = [token EXCEPT ![n] = Issued(0)]
         /\ tokens' = n /\ UNCHANGED <<call, refreshTask, flight>>
  BY DEF SignIn, IssueTokenPair, Fresh

\* A refresh starts with the stored token, when there is no task to join.
LEMMA StartRefreshMoves ==
  ASSUME TypeOK, NEW f \in Flights, StartRefresh(f)
  PROVE  /\ refreshTask = NoFlight /\ tokens # 0 /\ flight[f].pc = "idle" /\ refreshTask' = f
         /\ flight'[f] = [pc |-> "send", tok |-> tokens, sends |-> 0] /\ OtherFlights(f)
         /\ UNCHANGED <<token, call, tokens>>
  BY DEF StartRefresh, TypeOK, OtherFlights, auth

\* A refresh that ends stores what it brings and clears the task.
LEMMA FinishRefreshMoves ==
  ASSUME TypeOK, NEW f \in Flights, FinishRefresh(f)
  PROVE  /\ \/ flight[f].pc = "granted" /\ tokens' = flight[f].tok
            \/ flight[f].pc = "failed" /\ tokens' = 0
         /\ refreshTask' = NoFlight /\ flight'[f] = IdleFlight /\ OtherFlights(f)
         /\ UNCHANGED <<token, call>>
  BY DEF FinishRefresh, Stored, TypeOK, OtherFlights, auth

\* The request that a flight sends,
LEMMA SendRequest ==
  ASSUME TypeOK, NEW f \in Flights, NEW c \in Calls, Send(f, c)
  PROVE  call'[c] = [pc |-> "check", tok |-> flight[f].tok, new |-> 0, flight |-> f]
  BY DEF Send, TypeOK, IdleCall

\* and what sending it changes.
LEMMA SendMoves ==
  ASSUME TypeOK, NEW f \in Flights, NEW c \in Calls, Send(f, c)
  PROVE  /\ flight[f].pc = "send" /\ call[c].pc = "idle"
         /\ call'[c].pc = "check" /\ call'[c].tok = flight[f].tok /\ call'[c].flight = f
         /\ OtherCalls(c)
         /\ flight'[f].pc = "wait" /\ flight'[f].tok = flight[f].tok /\ OtherFlights(f)
         /\ UNCHANGED <<token, tokens, refreshTask>>
<1>1. flight[f] \in Flight
  BY DEF TypeOK
<1>2. flight'[f] = [[flight[f] EXCEPT !.pc = "wait"] EXCEPT !.sends = flight[f].sends + 1]
  BY <1>1 DEF Send, TypeOK, Flight
<1>3. flight'[f].pc = "wait" /\ flight'[f].tok = flight[f].tok
  BY <1>1, <1>2 DEF Flight
<1>4. call'[c].pc = "check" /\ call'[c].tok = flight[f].tok /\ call'[c].flight = f
  <2>1. call'[c] = [pc |-> "check", tok |-> flight[f].tok, new |-> 0, flight |-> f]
    BY SendRequest
  <2> QED
    BY <2>1
<1>5. OtherCalls(c) /\ OtherFlights(f)
  BY DEF Send, TypeOK, OtherCalls, OtherFlights
<1> QED
  BY <1>3, <1>4, <1>5 DEF Send

\* An answer ends its request and reaches the flight that waits for it.
LEMMA ReplyMoves ==
  ASSUME TypeOK, NEW c \in Calls, Reply(c)
  PROVE  /\ call[c].pc \in {"granted", "denied"} /\ call'[c] = IdleCall /\ OtherCalls(c)
         /\ call'[c].pc = "idle" /\ call'[c].flight = NoFlight
         /\ Awaited(c) => flight'[call[c].flight] =
              [pc |-> IF call[c].pc = "granted" THEN "granted" ELSE "failed",
               tok |-> call[c].new, sends |-> 0]
         /\ OtherFlights(call[c].flight)
         /\ UNCHANGED <<token, tokens, refreshTask>>
<1>1. call[c].flight \in Flights \cup {NoFlight}
  BY DEF TypeOK, Call
<1>2. call'[c] = IdleCall
  BY DEF Reply, TypeOK
<1>3. IdleCall.pc = "idle" /\ IdleCall.flight = NoFlight
  BY DEF IdleCall
<1> QED
  BY <1>1, <1>2, <1>3, AuthAssumption DEF Reply, Awaited, TypeOK, OtherCalls, OtherFlights

\* A lost answer leaves the request behind; the flight sends again or fails.
LEMMA LoseReplyMoves ==
  ASSUME TypeOK, NEW c \in Calls, LoseReply(c)
  PROVE  LET f == call[c].flight IN
         /\ "lost" \in Faults /\ f \in Flights
         /\ call[c].pc # "idle" /\ call'[c] = [call[c] EXCEPT !.flight = NoFlight] /\ OtherCalls(c)
         /\ \/ flight[f].sends < MaxSends /\ flight'[f] = [flight[f] EXCEPT !.pc = "send"]
            \/ flight'[f] = [pc |-> "failed", tok |-> 0, sends |-> 0]
         /\ OtherFlights(f)
         /\ UNCHANGED <<token, tokens, refreshTask>>
<1>1. call[c] \in Call /\ call[c].flight \in Flights
  BY DEF TypeOK, LoseReply, Awaited, Call
<1>2. call'[c] = [call[c] EXCEPT !.flight = NoFlight] /\ OtherCalls(c)
  BY <1>1 DEF LoseReply, TypeOK, OtherCalls
<1> QED
  BY <1>1, <1>2 DEF LoseReply, MayResend, TypeOK, OtherFlights

\* The check moves its request on and changes no token.
LEMMA RefreshCheckMoves ==
  ASSUME TypeOK, NEW c \in Calls, RefreshCheck(c)
  PROVE  /\ call[c].pc = "check" /\ OtherCalls(c) /\ UNCHANGED token
         /\ call'[c].pc \in {"revoke", "denied", "rotate"}
         /\ call'[c].pc = "revoke" <=> token[call[c].tok].state = "revoked"
         /\ call'[c] = [call[c] EXCEPT !.pc = call'[c].pc]
<1> DEFINE row == token[call[c].tok]
           pc == CASE row.state = "revoked" -> "revoke"
                   [] row.state # "revoked" /\ row.expired -> "denied"
                   [] OTHER -> "rotate"
<1>1. pc \in {"revoke", "denied", "rotate"} /\ (pc = "revoke" <=> row.state = "revoked")
  OBVIOUS
<1>2. call'[c] = [call[c] EXCEPT !.pc = pc] /\ OtherCalls(c)
  BY DEF RefreshCheck, TypeOK, OtherCalls
<1>3. call[c] \in Call
  BY DEF TypeOK
<1> HIDE DEF pc
<1>4. call'[c].pc = pc
  BY <1>2, <1>3 DEF Call
<1> QED
  BY <1>1, <1>2, <1>4 DEF RefreshCheck

\* Revoking the chain takes no token back and issues none.
LEMMA RevokeChainMoves ==
  ASSUME TypeOK, NEW c \in Calls, RefreshRevokeChain(c)
  PROVE  /\ call[c].pc = "revoke" /\ OtherCalls(c)
         /\ call'[c] = [call[c] EXCEPT !.pc = "denied"]
         /\ token' \in [Token -> TokenRow]
         /\ \A k \in Token : token'[k].state = "unissued" <=> token[k].state = "unissued"
<1>1. \A k \in Token : token[k] \in TokenRow
  BY DEF TypeOK
<1>2. \A k \in Token : [token[k] EXCEPT !.state = "revoked"] \in TokenRow
                       /\ [token[k] EXCEPT !.state = "revoked"].state = "revoked"
  BY <1>1 DEF TokenRow
<1>3. \A k \in Token : token'[k] = IF k \in Active THEN [token[k] EXCEPT !.state = "revoked"] ELSE token[k]
  BY DEF RefreshRevokeChain
<1>4. token' \in [Token -> TokenRow]
  BY <1>1, <1>2 DEF RefreshRevokeChain
<1>5. \A k \in Token : token'[k].state = "unissued" <=> token[k].state = "unissued"
  BY <1>2, <1>3 DEF Active
<1> QED
  BY <1>4, <1>5 DEF RefreshRevokeChain, TypeOK, OtherCalls

\* The rotation revokes the token presented and issues one.
LEMMA RotateMoves ==
  ASSUME TypeOK, IssuedInv, NEW c \in Calls, RefreshRotate(c)
  PROVE  \E n \in Token :
           /\ call[c].pc = "rotate" /\ OtherCalls(c)
           /\ call'[c] = [[call[c] EXCEPT !.pc = "granted"] EXCEPT !.new = n]
           /\ token[n].state = "unissued" /\ call[c].tok \in Token /\ n # call[c].tok
           /\ token' \in [Token -> TokenRow]
           /\ token'[n].state = "active" /\ token'[call[c].tok].state = "revoked"
           /\ \A k \in Token : k # n /\ k # call[c].tok => token'[k] = token[k]
<1>1. PICK n \in Token :
        /\ Fresh(n) /\ token' = Rotated(call[c].tok, n)
        /\ call' = [call EXCEPT ![c].pc = "granted", ![c].new = n]
  BY DEF RefreshRotate
<1>2. call[c].pc = "rotate" /\ call[c] \in Call
  BY DEF RefreshRotate, TypeOK
<1> DEFINE k == call[c].tok
<1>3. k \in Token /\ token[k].state # "unissued" /\ token[n].state = "unissued"
  BY <1>1, <1>2 DEF IssuedInv, IsIssued, Fresh
<1>4. n # k
  BY <1>3
<1>5. call'[c] = [[call[c] EXCEPT !.pc = "granted"] EXCEPT !.new = n] /\ OtherCalls(c)
  BY <1>1, <1>2 DEF TypeOK, OtherCalls
<1>6. token' = [[token EXCEPT ![k] = [token[k] EXCEPT !.state = "revoked"]] EXCEPT ![n] = Issued(k)]
  BY <1>1, <1>3 DEF Rotated, TypeOK
<1>7. [token[k] EXCEPT !.state = "revoked"] \in TokenRow /\ [token[k] EXCEPT !.state = "revoked"].state = "revoked"
  <2>1. token[k] \in TokenRow
    BY <1>3 DEF TypeOK
  <2> QED
    BY <2>1 DEF TokenRow
<1>8. Issued(k) \in TokenRow /\ Issued(k).state = "active"
  BY <1>3, AuthAssumption DEF Issued, TokenRow, Token
<1> HIDE DEF k
<1>9. token' \in [Token -> TokenRow]
  BY <1>3, <1>6, <1>7, <1>8 DEF TypeOK
<1>10. token'[n].state = "active" /\ token'[k].state = "revoked"
       /\ \A j \in Token : j # n /\ j # k => token'[j] = token[j]
  BY <1>3, <1>4, <1>6, <1>7, <1>8 DEF TypeOK
<1> QED
  BY <1>2, <1>3, <1>4, <1>5, <1>9, <1>10 DEF k

\* A flight that was cancelled.
Failed == [pc |-> "failed", tok |-> 0, sends |-> 0]

\* A sign-out drops the stored token and fails the task that is not yet answered.
LEMMA SignOutMoves ==
  ASSUME TypeOK, SignOut
  PROVE  /\ tokens' = 0 /\ refreshTask' = NoFlight /\ UNCHANGED token
         /\ \/ UNCHANGED <<call, flight>>
            \/ /\ refreshTask \in Flights
               /\ \A c \in Calls : call'[c] = IF call[c].flight = refreshTask
                                              THEN [call[c] EXCEPT !.flight = NoFlight] ELSE call[c]
               /\ call' \in [Calls -> Call]
               /\ flight'[refreshTask] = Failed /\ OtherFlights(refreshTask)
               /\ flight' \in [Flights -> Flight]
<1>1. tokens' = 0 /\ refreshTask' = NoFlight /\ UNCHANGED token
  BY DEF SignOut
<1>2. ASSUME refreshTask # NoFlight, call' = Abandoned(refreshTask),
             flight' = [flight EXCEPT ![refreshTask] = Failed]
      PROVE  /\ refreshTask \in Flights
             /\ \A c \in Calls : call'[c] = IF call[c].flight = refreshTask
                                            THEN [call[c] EXCEPT !.flight = NoFlight] ELSE call[c]
             /\ call' \in [Calls -> Call]
             /\ flight'[refreshTask] = Failed /\ OtherFlights(refreshTask)
             /\ flight' \in [Flights -> Flight]
  <2>1. refreshTask \in Flights
    BY <1>2 DEF TypeOK
  <2>2. \A c \in Calls : call[c] \in Call /\ [call[c] EXCEPT !.flight = NoFlight] \in Call
    BY DEF TypeOK, Call
  <2>3. call' \in [Calls -> Call]
    BY <1>2, <2>2 DEF Abandoned
  <2>4. Failed \in Flight
    BY AuthAssumption DEF Failed, Flight
  <2> QED
    BY <1>2, <2>1, <2>3, <2>4 DEF Abandoned, TypeOK, OtherFlights
<1> QED
  BY <1>1, <1>2 DEF SignOut, Failed

\* A restart leaves requests behind and drops every flight.
LEMMA RestartMoves ==
  ASSUME TypeOK, Restart
  PROVE  /\ "restart" \in Faults /\ refreshTask' = NoFlight /\ UNCHANGED <<token, tokens>>
         /\ \A c \in Calls : call'[c] = [call[c] EXCEPT !.flight = NoFlight]
         /\ call' \in [Calls -> Call]
         /\ \A f \in Flights : flight'[f] = IdleFlight
         /\ flight' \in [Flights -> Flight]
<1>1. \A c \in Calls : call[c] \in Call /\ [call[c] EXCEPT !.flight = NoFlight] \in Call
  BY DEF TypeOK, Call
<1>2. IdleFlight \in Flight
  BY AuthAssumption DEF IdleFlight, Flight
<1> QED
  BY <1>1, <1>2 DEF Restart

\* A token that expires keeps its state.
LEMMA ExpireMoves ==
  ASSUME TypeOK, NEW k \in Token, Expire(k)
  PROVE  /\ token' \in [Token -> TokenRow] /\ UNCHANGED call
         /\ \A m \in Token : token'[m].state = token[m].state
<1>1. token[k] \in TokenRow
  BY DEF TypeOK
<1>2. [token[k] EXCEPT !.expired = TRUE] \in TokenRow
      /\ [token[k] EXCEPT !.expired = TRUE].state = token[k].state
  BY <1>1 DEF TokenRow
<1>3. token' = [token EXCEPT ![k] = [token[k] EXCEPT !.expired = TRUE]]
  BY DEF Expire
<1> QED
  BY <1>2, <1>3 DEF Expire, TypeOK

-----------------------------------------------------------------------------
(* Types.                                                                   *)

\* What a task schedules for the main actor keeps main well-formed.
LEMMA MainType ==
  ASSUME TypeOK, [Next]_vars
  PROVE  phase' \in {"signedIn", "signedOut"} /\ main' \in Seq({"signIn", "signOut", "expired"})
<1> DEFINE P == phase' \in {"signedIn", "signedOut"} /\ main' \in Seq({"signIn", "signOut", "expired"})
<1>1. ASSUME UNCHANGED <<phase, main>> PROVE P
  BY <1>1 DEF TypeOK
<1>2. ASSUME UNCHANGED phase, NEW m \in {"signIn", "signOut", "expired"}, main' = Append(main, m) PROVE P
  BY <1>2 DEF TypeOK
<1>3. CASE MainStep
  BY <1>3 DEF MainStep, TypeOK
<1>4. CASE Restart
  BY <1>4 DEF Restart
<1>5. ASSUME NEW f \in Flights, FinishRefresh(f) PROVE P
  BY <1>1, <1>2, <1>5 DEF FinishRefresh, Noticed
<1> QED
  BY <1>1, <1>2, <1>3, <1>4, <1>5
  DEF Next, SignIn, SignOut, StartRefresh, Send, ServerStep, Reply, LoseReply, ui, vars

\* Every action keeps the state well-formed and the attempts within their bound.
LEMMA TypeStep ==
  ASSUME TypeOK, SendsInv, IssuedInv, [Next]_vars
  PROVE  TypeOK' /\ SendsInv'
<1> DEFINE P ==
      /\ token' \in [Token -> TokenRow] /\ call' \in [Calls -> Call]
      /\ tokens' \in 0..MaxTokens /\ refreshTask' \in Flights \cup {NoFlight}
      /\ flight' \in [Flights -> Flight]
      /\ SendsInv'
<1>0. /\ token \in [Token -> TokenRow] /\ call \in [Calls -> Call]
      /\ tokens \in 0..MaxTokens /\ refreshTask \in Flights \cup {NoFlight}
      /\ flight \in [Flights -> Flight]
  BY DEF TypeOK
<1>a. 0 \in 0..MaxTokens /\ 0 \in 0..MaxSends /\ 0 < MaxSends
  BY AuthAssumption
<1>1. ASSUME NEW n \in Token, SignIn(n) PROVE P
  <2>1. Issued(0) \in TokenRow
    BY <1>a DEF Issued, TokenRow
  <2>2. n \in 0..MaxTokens
    BY DEF Token
  <2>3. token' = [token EXCEPT ![n] = Issued(0)] /\ tokens' = n /\ UNCHANGED <<call, refreshTask, flight>>
    BY <1>1, SignInMoves
  <2> QED
    BY <1>0, <2>1, <2>2, <2>3 DEF SendsInv
<1>2. ASSUME MainStep PROVE P
  BY <1>0, <1>2 DEF MainStep, auth, SendsInv
<1>3. ASSUME SignOut PROVE P
  <2>1. tokens' = 0 /\ refreshTask' = NoFlight /\ UNCHANGED token
    BY <1>3, SignOutMoves
  <2>2. CASE UNCHANGED <<call, flight>>
    BY <1>0, <1>a, <2>1, <2>2 DEF SendsInv
  <2>3. CASE /\ call' \in [Calls -> Call] /\ flight' \in [Flights -> Flight]
             /\ flight'[refreshTask] = Failed /\ OtherFlights(refreshTask)
    BY <1>0, <1>a, <2>1, <2>3 DEF SendsInv, Failed, OtherFlights
  <2> QED
    BY <1>3, <2>2, <2>3, SignOutMoves
<1>4. ASSUME Restart PROVE P
  <2>1. /\ refreshTask' = NoFlight /\ UNCHANGED <<token, tokens>>
        /\ call' \in [Calls -> Call] /\ flight' \in [Flights -> Flight]
        /\ \A f \in Flights : flight'[f] = IdleFlight
    BY <1>4, RestartMoves
  <2> QED
    BY <1>0, <2>1 DEF SendsInv, IdleFlight
<1>5. ASSUME NEW f \in Flights, StartRefresh(f) PROVE P
  <2>1. [pc |-> "send", tok |-> tokens, sends |-> 0] \in Flight
    BY <1>0, <1>a DEF Flight
  <2>2. flight' = [flight EXCEPT ![f] = [pc |-> "send", tok |-> tokens, sends |-> 0]]
        /\ refreshTask' = f /\ UNCHANGED <<token, call, tokens>>
    BY <1>5 DEF StartRefresh, auth
  <2>3. SendsInv'
    BY <1>0, <1>a, <2>2 DEF SendsInv
  <2> QED
    BY <1>0, <2>1, <2>2, <2>3
<1>6. ASSUME NEW f \in Flights, FinishRefresh(f) PROVE P
  <2>1. IdleFlight \in Flight /\ flight[f].tok \in 0..MaxTokens
    BY <1>0, <1>a DEF IdleFlight, Flight
  <2>2. flight' = [flight EXCEPT ![f] = IdleFlight] /\ refreshTask' = NoFlight
        /\ UNCHANGED <<token, call>> /\ tokens' \in {flight[f].tok, 0}
    BY <1>6 DEF FinishRefresh, Stored, auth
  <2>3. SendsInv'
    BY <1>0, <2>2 DEF SendsInv, IdleFlight
  <2> QED
    BY <1>0, <1>a, <2>1, <2>2, <2>3
<1>7. ASSUME NEW f \in Flights, NEW c \in Calls, Send(f, c) PROVE P
  <2>1. flight[f] \in Flight
    BY <1>0
  <2>2. flight[f].sends + 1 \in 0..MaxSends
    BY <1>7, <2>1, AuthAssumption DEF Send, SendsInv, Flight
  <2>3. ASSUME NEW s \in 0..MaxSends PROVE [[flight[f] EXCEPT !.pc = "wait"] EXCEPT !.sends = s] \in Flight
    BY <2>1 DEF Flight
  <2>4. flight' = [flight EXCEPT ![f] = [[flight[f] EXCEPT !.pc = "wait"] EXCEPT !.sends = flight[f].sends + 1]]
    BY <1>0, <1>7, <2>1 DEF Send, Flight
  <2>5. flight' \in [Flights -> Flight]
    BY <1>0, <2>2, <2>3, <2>4
  <2> DEFINE request == [pc |-> "check", tok |-> flight[f].tok, new |-> 0, flight |-> f]
  <2>6. request \in Call
    BY <1>a, <2>1 DEF Flight, Call
  <2>7. call' = [call EXCEPT ![c] = call'[c]] /\ UNCHANGED <<token, tokens, refreshTask>>
    BY <1>0, <1>7 DEF Send
  <2>8. call'[c] = request
    BY <1>7, SendRequest
  <2>9. call' \in [Calls -> Call]
    BY <1>0, <2>6, <2>7, <2>8
  <2>10. flight'[f].pc = "wait" /\ OtherFlights(f)
    BY <1>7, SendMoves
  <2>11. SendsInv'
    BY <2>10 DEF SendsInv, OtherFlights
  <2> QED
    BY <1>0, <2>5, <2>7, <2>9, <2>11
<1>9. ASSUME NEW c \in Calls, RefreshCheck(c), UNCHANGED <<tokens, refreshTask, flight, ui>> PROVE P
  <2>1. ASSUME NEW w \in {"revoke", "denied", "rotate"} PROVE [call[c] EXCEPT !.pc = w] \in Call
    BY <1>0 DEF Call
  <2>2. call'[c].pc \in {"revoke", "denied", "rotate"} /\ call'[c] = [call[c] EXCEPT !.pc = call'[c].pc]
    BY <1>9, RefreshCheckMoves
  <2>3. call' \in [Calls -> Call]
    BY <1>0, <1>9, <2>1, <2>2 DEF RefreshCheck
  <2> QED
    BY <1>0, <1>9, <2>3 DEF RefreshCheck, SendsInv
<1>10. ASSUME NEW c \in Calls, RefreshRevokeChain(c), UNCHANGED <<tokens, refreshTask, flight, ui>> PROVE P
  <2>1. [call[c] EXCEPT !.pc = "denied"] \in Call
    BY <1>0 DEF Call
  <2>2. call' \in [Calls -> Call]
    BY <1>0, <1>10, <2>1 DEF RefreshRevokeChain
  <2>3. token' \in [Token -> TokenRow]
    BY <1>10, RevokeChainMoves
  <2> QED
    BY <1>0, <1>10, <2>2, <2>3 DEF SendsInv
<1>11. ASSUME NEW c \in Calls, RefreshRotate(c), UNCHANGED <<tokens, refreshTask, flight, ui>> PROVE P
  <2>1. ASSUME NEW n \in 0..MaxTokens PROVE [[call[c] EXCEPT !.pc = "granted"] EXCEPT !.new = n] \in Call
    BY <1>0 DEF Call
  <2>2. PICK n \in Token : call'[c] = [[call[c] EXCEPT !.pc = "granted"] EXCEPT !.new = n]
    BY <1>11, RotateMoves
  <2>3. n \in 0..MaxTokens
    BY DEF Token
  <2>4. call'[c] \in Call
    BY <2>1, <2>2, <2>3
  <2>5. call' \in [Calls -> Call]
    BY <1>0, <1>11, <2>4 DEF RefreshRotate
  <2>6. token' \in [Token -> TokenRow]
    BY <1>11, RotateMoves
  <2> QED
    BY <1>0, <1>11, <2>5, <2>6 DEF SendsInv
<1>12. ASSUME NEW c \in Calls, Reply(c) PROVE P
  <2>1. call[c] \in Call
    BY <1>0
  <2>2. IdleCall \in Call
    BY <1>a DEF IdleCall, Call
  <2>3. call' \in [Calls -> Call] /\ UNCHANGED <<token, tokens, refreshTask>>
    BY <1>0, <1>12, <2>2 DEF Reply
  <2>4. \A w \in {"granted", "failed"} : [pc |-> w, tok |-> call[c].new, sends |-> 0] \in Flight
    BY <1>a, <2>1 DEF Call, Flight
  <2>5. flight' \in [Flights -> Flight]
    BY <1>0, <1>12, <2>4 DEF Reply
  <2>6. /\ \A g \in Flights : g = call[c].flight => flight'[g].pc \in {"granted", "failed"}
        /\ \A g \in Flights : g # call[c].flight => flight'[g] = flight[g]
    <3>1. /\ Awaited(c) => flight'[call[c].flight] =
               [pc |-> IF call[c].pc = "granted" THEN "granted" ELSE "failed",
                tok |-> call[c].new, sends |-> 0]
          /\ OtherFlights(call[c].flight)
      BY <1>12, ReplyMoves
    <3> QED
      BY <3>1, AuthAssumption DEF Awaited, OtherFlights
  <2>7. SendsInv'
    BY <2>6 DEF SendsInv
  <2> QED
    BY <1>0, <2>3, <2>5, <2>7
<1>13. ASSUME NEW c \in Calls, LoseReply(c) PROVE P
  <2>1. call[c] \in Call /\ [call[c] EXCEPT !.flight = NoFlight] \in Call
    BY <1>0 DEF Call
  <2>2. call' \in [Calls -> Call] /\ UNCHANGED <<token, tokens, refreshTask>>
    BY <1>0, <1>13, <2>1 DEF LoseReply
  <2> DEFINE f == call[c].flight
  <2>3. /\ f \in Flights /\ OtherFlights(f)
        /\ \/ flight[f].sends < MaxSends /\ flight'[f] = [flight[f] EXCEPT !.pc = "send"]
           \/ flight'[f] = Failed
    BY <1>13, LoseReplyMoves DEF Failed
  <2> HIDE DEF f
  <2>4. flight[f] \in Flight
    BY <1>0, <2>3
  <2>5. Failed \in Flight
    BY <1>a DEF Flight, Failed
  <2>6. [flight[f] EXCEPT !.pc = "send"] \in Flight
        /\ [flight[f] EXCEPT !.pc = "send"].sends = flight[f].sends
    BY <2>4 DEF Flight
  <2>7. flight' = [flight EXCEPT ![f] = flight'[f]]
    BY <1>0, <1>13 DEF LoseReply, f
  <2>8. flight' \in [Flights -> Flight]
    BY <1>0, <2>3, <2>5, <2>6, <2>7
  <2>9. flight'[f].pc = "send" => flight'[f].sends < MaxSends
    <3>1. CASE flight'[f] = Failed
      BY <3>1 DEF Failed
    <3>2. CASE flight[f].sends < MaxSends /\ flight'[f] = [flight[f] EXCEPT !.pc = "send"]
      BY <2>6, <3>2
    <3> QED
      BY <2>3, <3>1, <3>2
  <2>10. SendsInv'
    BY <2>3, <2>9 DEF SendsInv, OtherFlights
  <2> QED
    BY <1>0, <2>2, <2>8, <2>10
<1>14. ASSUME NEW k \in Token, Expire(k), UNCHANGED <<tokens, refreshTask, flight, ui>> PROVE P
  <2>1. token' \in [Token -> TokenRow] /\ UNCHANGED call
    BY <1>14, ExpireMoves
  <2> QED
    BY <1>0, <1>14, <2>1 DEF SendsInv
<1>15. ASSUME UNCHANGED vars PROVE P
  BY <1>0, <1>15 DEF vars, SendsInv
<1>16. P
  <2> HIDE DEF P
  <2> QED
    BY <1>1, <1>2, <1>3, <1>4, <1>5, <1>6, <1>7, <1>9, <1>10, <1>11, <1>12, <1>13, <1>14, <1>15 DEF Next, ServerStep
<1> QED
  BY <1>16, MainType DEF TypeOK

-----------------------------------------------------------------------------
(* What a step leaves of a request and of a flight.                         *)

SameRequest(c) == call'[c].pc = call[c].pc /\ call'[c].tok = call[c].tok /\ call'[c].new = call[c].new

\* Sign-out, restart and a lost answer change no request, except that its client is gone.
LEMMA LeftBehind ==
  ASSUME TypeOK, NEW c \in Calls, call'[c] = [call[c] EXCEPT !.flight = NoFlight]
  PROVE  SameRequest(c) /\ call'[c].flight = NoFlight
<1>1. call[c] \in Call
  BY DEF TypeOK
<1> QED
  BY <1>1 DEF Call, SameRequest

\* What a sign-out leaves of requests and flights.
LEMMA SignOutKeeps ==
  ASSUME TypeOK, SignOut
  PROVE  /\ tokens' = 0 /\ refreshTask' = NoFlight /\ UNCHANGED token
         /\ \A c \in Calls : SameRequest(c)
         /\ \A c \in Calls : call'[c].flight = call[c].flight \/ call'[c].flight = NoFlight
         /\ \A f \in Flights : \/ flight'[f] = flight[f]
                               \/ flight'[f].pc = "failed" /\ \A c \in Calls : call'[c].flight # f
<1>1. tokens' = 0 /\ refreshTask' = NoFlight /\ UNCHANGED token
  BY SignOutMoves
<1>2. CASE UNCHANGED <<call, flight>>
  BY <1>1, <1>2 DEF SameRequest
<1>3. CASE /\ refreshTask \in Flights
           /\ \A c \in Calls : call'[c] = IF call[c].flight = refreshTask
                                          THEN [call[c] EXCEPT !.flight = NoFlight] ELSE call[c]
           /\ flight'[refreshTask] = Failed /\ OtherFlights(refreshTask)
  <2>1. ASSUME NEW c \in Calls
        PROVE  /\ SameRequest(c) /\ call'[c].flight # refreshTask
               /\ call'[c].flight = call[c].flight \/ call'[c].flight = NoFlight
    <3>1. CASE call[c].flight = refreshTask
      BY <1>3, <3>1, LeftBehind, AuthAssumption
    <3>2. CASE call[c].flight # refreshTask
      BY <1>3, <3>2 DEF SameRequest
    <3> QED
      BY <3>1, <3>2
  <2>2. ASSUME NEW f \in Flights
        PROVE  \/ flight'[f] = flight[f]
               \/ flight'[f].pc = "failed" /\ \A c \in Calls : call'[c].flight # f
    BY <1>3, <2>1 DEF OtherFlights, Failed
  <2> QED
    BY <1>1, <2>1, <2>2
<1> QED
  BY <1>2, <1>3, SignOutMoves

\* What a restart leaves of them.
LEMMA RestartKeeps ==
  ASSUME TypeOK, Restart
  PROVE  /\ "restart" \in Faults /\ refreshTask' = NoFlight /\ UNCHANGED <<token, tokens>>
         /\ \A c \in Calls : SameRequest(c) /\ call'[c].flight = NoFlight
         /\ \A f \in Flights : flight'[f].pc = "idle"
<1>1. \A f \in Flights : flight'[f].pc = "idle"
  BY RestartMoves DEF IdleFlight
<1>2. \A c \in Calls : call'[c] = [call[c] EXCEPT !.flight = NoFlight]
  BY RestartMoves
<1>3. \A c \in Calls : SameRequest(c) /\ call'[c].flight = NoFlight
  BY <1>2, LeftBehind
<1> QED
  BY <1>1, <1>3, RestartMoves

\* What a lost answer leaves of them.
LEMMA LoseReplyKeeps ==
  ASSUME TypeOK, NEW c \in Calls, LoseReply(c)
  PROVE  LET f == call[c].flight IN
         /\ "lost" \in Faults /\ f \in Flights /\ Awaited(c)
         /\ \A d \in Calls : SameRequest(d)
         /\ call'[c].flight = NoFlight /\ OtherCalls(c)
         /\ \/ flight'[f].pc = "send" /\ flight'[f].tok = flight[f].tok
            \/ flight'[f].pc = "failed"
         /\ OtherFlights(f)
         /\ UNCHANGED <<token, tokens, refreshTask>>
<1> DEFINE f == call[c].flight
<1>1. /\ "lost" \in Faults /\ f \in Flights /\ OtherCalls(c) /\ OtherFlights(f)
      /\ call'[c] = [call[c] EXCEPT !.flight = NoFlight]
      /\ UNCHANGED <<token, tokens, refreshTask>>
  BY LoseReplyMoves
<1>2. flight'[f] = [flight[f] EXCEPT !.pc = "send"] \/ flight'[f] = Failed
  BY LoseReplyMoves DEF Failed
<1>3. flight[f] \in Flight
  BY <1>1 DEF TypeOK
<1>4. \/ flight'[f].pc = "send" /\ flight'[f].tok = flight[f].tok
      \/ flight'[f].pc = "failed"
  BY <1>2, <1>3 DEF Flight, Failed
<1>5. SameRequest(c) /\ call'[c].flight = NoFlight
  BY <1>1, LeftBehind
<1>6. \A d \in Calls : SameRequest(d)
  BY <1>1, <1>5 DEF SameRequest, OtherCalls
<1> QED
  BY <1>1, <1>4, <1>5, <1>6 DEF LoseReply

\* What the check leaves of its request.
LEMMA RefreshCheckKeeps ==
  ASSUME TypeOK, NEW c \in Calls, RefreshCheck(c)
  PROVE  /\ call[c].pc = "check" /\ OtherCalls(c) /\ UNCHANGED token
         /\ call'[c].pc \in {"revoke", "denied", "rotate"}
         /\ call'[c].pc = "revoke" <=> token[call[c].tok].state = "revoked"
         /\ call'[c].tok = call[c].tok /\ call'[c].flight = call[c].flight
<1>1. call[c] \in Call /\ call'[c] = [call[c] EXCEPT !.pc = call'[c].pc]
  BY RefreshCheckMoves DEF TypeOK
<1>2. call'[c].tok = call[c].tok /\ call'[c].flight = call[c].flight
  BY <1>1 DEF Call
<1> QED
  BY <1>2, RefreshCheckMoves

\* What revoking the chain leaves of its request.
LEMMA RevokeChainKeeps ==
  ASSUME TypeOK, NEW c \in Calls, RefreshRevokeChain(c)
  PROVE  /\ call[c].pc = "revoke" /\ OtherCalls(c) /\ call'[c].pc = "denied"
         /\ call'[c].tok = call[c].tok /\ call'[c].flight = call[c].flight
         /\ \A k \in Token : token'[k].state = "unissued" <=> token[k].state = "unissued"
<1>1. call[c] \in Call /\ call'[c] = [call[c] EXCEPT !.pc = "denied"]
  BY RevokeChainMoves DEF TypeOK
<1>2. call'[c].pc = "denied" /\ call'[c].tok = call[c].tok /\ call'[c].flight = call[c].flight
  BY <1>1 DEF Call
<1> QED
  BY <1>2, RevokeChainMoves

\* What the rotation leaves of its request and of the other tokens.
LEMMA RotateKeeps ==
  ASSUME TypeOK, IssuedInv, NEW c \in Calls, RefreshRotate(c)
  PROVE  \E n \in Token :
           /\ call[c].pc = "rotate" /\ OtherCalls(c)
           /\ call'[c].pc = "granted" /\ call'[c].new = n
           /\ call'[c].tok = call[c].tok /\ call'[c].flight = call[c].flight
           /\ token[n].state = "unissued" /\ token'[n].state = "active"
           /\ \A k \in Token : k # n /\ k # call[c].tok => token'[k] = token[k]
           /\ token'[call[c].tok].state = "revoked"
<1>1. PICK n \in Token :
           /\ call[c].pc = "rotate" /\ OtherCalls(c)
           /\ call'[c] = [[call[c] EXCEPT !.pc = "granted"] EXCEPT !.new = n]
           /\ token[n].state = "unissued" /\ token'[n].state = "active"
           /\ \A k \in Token : k # n /\ k # call[c].tok => token'[k] = token[k]
           /\ token'[call[c].tok].state = "revoked"
  BY RotateMoves
<1>2. call[c] \in Call
  BY DEF TypeOK
<1>3. /\ call'[c].pc = "granted" /\ call'[c].new = n
      /\ call'[c].tok = call[c].tok /\ call'[c].flight = call[c].flight
  BY <1>1, <1>2 DEF Call
<1> QED
  BY <1>1, <1>3

-----------------------------------------------------------------------------
(* The invariants.                                                          *)

\* A flight that starts is about to send the stored token.
LEMMA StartedFlight ==
  ASSUME TypeOK, NEW f \in Flights, StartRefresh(f)
  PROVE  flight'[f].pc = "send" /\ flight'[f].tok = tokens
  BY StartRefreshMoves

\* A flight after an answer: untouched, or with what it waited for.
LEMMA RepliedFlight ==
  ASSUME TypeOK, NEW c \in Calls, Reply(c), NEW f \in Flights
  PROVE  \/ call[c].flight # f /\ flight'[f] = flight[f]
         \/ /\ call[c].flight = f
            /\ \/ call[c].pc = "granted" /\ flight'[f].pc = "granted" /\ flight'[f].tok = call[c].new
               \/ call[c].pc = "denied" /\ flight'[f].pc = "failed"
<1>1. /\ Awaited(c) => flight'[call[c].flight] =
              [pc |-> IF call[c].pc = "granted" THEN "granted" ELSE "failed",
               tok |-> call[c].new, sends |-> 0]
      /\ OtherFlights(call[c].flight) /\ call[c].pc \in {"granted", "denied"}
  BY ReplyMoves
<1> QED
  BY <1>1, AuthAssumption DEF Awaited, OtherFlights

\* No token is taken back once it is issued.
LEMMA IssuedStays ==
  ASSUME TypeOK, IssuedInv, [Next]_vars, NEW k \in Token, token[k].state # "unissued"
  PROVE  token'[k].state # "unissued"
<1> DEFINE P == token'[k].state # "unissued"
<1>1. ASSUME NEW n \in Token, SignIn(n) PROVE P
  <2>1. token[n].state = "unissued" /\ token' = [token EXCEPT ![n] = Issued(0)]
    BY <1>1, SignInMoves
  <2> QED
    BY <2>1 DEF TypeOK
<1>2. ASSUME NEW c \in Calls, RefreshRevokeChain(c) PROVE P
  BY <1>2, RevokeChainKeeps
<1>3. ASSUME NEW c \in Calls, RefreshRotate(c) PROVE P
  <2>1. PICK n \in Token : /\ token'[n].state = "active" /\ token'[call[c].tok].state = "revoked"
                           /\ \A j \in Token : j # n /\ j # call[c].tok => token'[j] = token[j]
    BY <1>3, RotateKeeps
  <2> QED
    BY <2>1
<1>4. ASSUME NEW m \in Token, Expire(m) PROVE P
  BY <1>4, ExpireMoves
<1>5. ASSUME UNCHANGED token PROVE P
  BY <1>5
<1> HIDE DEF P
<1>6. P
  BY <1>1, <1>2, <1>3, <1>4, <1>5
  DEF Next, ServerStep, RefreshCheck, MainStep, SignOut, Restart, StartRefresh, FinishRefresh, Send,
      Reply, LoseReply, auth, vars
<1> QED
  BY <1>6 DEF P

\* Every action keeps what the app and the requests hold among the issued tokens.
LEMMA IssuedStep ==
  ASSUME TypeOK, IssuedInv, AwaitedInv, [Next]_vars
  PROVE  IssuedInv'
<1> DEFINE P == IssuedInv'
<1>0. \A k : IsIssued(k) => IsIssued(k)'
  BY IssuedStays DEF IsIssued
<1> USE DEF IssuedInv, Carries, P
<1>1. ASSUME NEW n \in Token, SignIn(n) PROVE P
  <2>1. /\ token' = [token EXCEPT ![n] = Issued(0)] /\ tokens' = n
        /\ UNCHANGED <<call, refreshTask, flight>>
    BY <1>1, SignInMoves
  <2>2. IsIssued(n)'
    BY <2>1 DEF IsIssued, Issued, TypeOK
  <2> QED
    BY <1>0, <2>1, <2>2
<1>2. ASSUME UNCHANGED <<call, tokens, flight>> PROVE P
  BY <1>0, <1>2
<1>3. ASSUME SignOut PROVE P
  BY <1>0, <1>3, SignOutKeeps DEF SameRequest
<1>4. ASSUME Restart PROVE P
  BY <1>0, <1>4, RestartKeeps DEF SameRequest
<1>5. ASSUME NEW f \in Flights, StartRefresh(f) PROVE P
  BY <1>0, <1>5, StartRefreshMoves, StartedFlight DEF OtherFlights
<1>6. ASSUME NEW f \in Flights, FinishRefresh(f) PROVE P
  <2>1. flight'[f].pc = "idle" /\ OtherFlights(f) /\ UNCHANGED <<token, call>>
    BY <1>6, FinishRefreshMoves DEF IdleFlight
  <2>2. \/ flight[f].pc = "granted" /\ tokens' = flight[f].tok
        \/ tokens' = 0
    BY <1>6, FinishRefreshMoves
  <2> QED
    BY <1>0, <2>1, <2>2 DEF OtherFlights
<1>7. ASSUME NEW f \in Flights, NEW c \in Calls, Send(f, c) PROVE P
  <2>1. /\ flight[f].pc = "send" /\ call'[c].pc = "check" /\ call'[c].tok = flight[f].tok /\ OtherCalls(c)
        /\ flight'[f].pc = "wait" /\ flight'[f].tok = flight[f].tok /\ OtherFlights(f)
        /\ UNCHANGED <<token, tokens>>
    BY <1>7, SendMoves
  <2> QED
    BY <1>0, <2>1 DEF OtherCalls, OtherFlights
<1>8. ASSUME NEW c \in Calls, RefreshCheck(c), UNCHANGED <<tokens, refreshTask, flight, ui>> PROVE P
  <2>1. /\ call[c].pc # "idle" /\ call'[c].pc # "granted" /\ OtherCalls(c) /\ call'[c].tok = call[c].tok
    BY <1>8, RefreshCheckKeeps
  <2> QED
    BY <1>0, <1>8, <2>1 DEF OtherCalls
<1>9. ASSUME NEW c \in Calls, RefreshRevokeChain(c), UNCHANGED <<tokens, refreshTask, flight, ui>> PROVE P
  <2>1. /\ call[c].pc # "idle" /\ call'[c].pc # "granted" /\ OtherCalls(c) /\ call'[c].tok = call[c].tok
    BY <1>9, RevokeChainKeeps
  <2> QED
    BY <1>0, <1>9, <2>1 DEF OtherCalls
<1>10. ASSUME NEW c \in Calls, RefreshRotate(c), UNCHANGED <<tokens, refreshTask, flight, ui>> PROVE P
  <2>1. PICK n \in Token : /\ call[c].pc = "rotate" /\ OtherCalls(c) /\ call'[c].new = n
                           /\ call'[c].tok = call[c].tok /\ token'[n].state = "active"
    BY <1>10, RotateKeeps
  <2>2. IsIssued(n)'
    BY <2>1 DEF IsIssued
  <2> QED
    BY <1>0, <1>10, <2>1, <2>2 DEF OtherCalls
<1>11. ASSUME NEW c \in Calls, Reply(c) PROVE P
  <2>1. call'[c].pc = "idle" /\ OtherCalls(c) /\ UNCHANGED <<token, tokens>>
    BY <1>11, ReplyMoves
  <2>2. \A f \in Flights : flight'[f] = flight[f] \/ flight'[f].pc = "failed"
                           \/ (call[c].pc = "granted" /\ flight'[f].tok = call[c].new)
    BY <1>11, RepliedFlight
  <2> QED
    BY <1>0, <2>1, <2>2 DEF OtherCalls
<1>12. ASSUME NEW c \in Calls, LoseReply(c) PROVE P
  <2> DEFINE f == call[c].flight
  <2>1. /\ f \in Flights /\ Awaited(c) /\ \A d \in Calls : SameRequest(d)
        /\ \/ flight'[f].pc = "send" /\ flight'[f].tok = flight[f].tok
           \/ flight'[f].pc = "failed"
        /\ OtherFlights(f) /\ UNCHANGED <<token, tokens>>
    BY <1>12, LoseReplyKeeps
  <2>2. flight[f].pc = "wait"
    BY <2>1 DEF AwaitedInv
  <2> QED
    BY <1>0, <2>1, <2>2 DEF OtherFlights, SameRequest
<1> HIDE DEF P, IssuedInv, Carries
<1>13. P
  BY <1>1, <1>2, <1>3, <1>4, <1>5, <1>6, <1>7, <1>8, <1>9, <1>10, <1>11, <1>12
  DEF Next, ServerStep, MainStep, Expire, auth, vars
<1> QED
  BY <1>13 DEF P

\* Every action keeps the awaited requests with the flights that wait for them.
LEMMA AwaitedStep ==
  ASSUME TypeOK, IssuedInv, AwaitedInv, [Next]_vars
  PROVE  AwaitedInv'
<1> DEFINE P == AwaitedInv'
<1>0. \A c \in Calls : call[c].flight \in Flights \cup {NoFlight}
  BY DEF TypeOK, Call
<1>1. ASSUME \A c \in Calls : /\ call'[c].flight = call[c].flight /\ call'[c].tok = call[c].tok
                              /\ call[c].pc # "idle" => call'[c].pc # "idle",
             UNCHANGED <<refreshTask, flight>>
      PROVE  P
  BY <1>1 DEF AwaitedInv, Awaited
<1>2. ASSUME UNCHANGED <<call, refreshTask, flight>> PROVE P
  BY <1>2 DEF AwaitedInv, Awaited
<1>3. ASSUME SignOut PROVE P
  <2>1. /\ refreshTask' = NoFlight /\ \A c \in Calls : SameRequest(c)
        /\ \A c \in Calls : call'[c].flight = call[c].flight \/ call'[c].flight = NoFlight
        /\ \A f \in Flights : \/ flight'[f] = flight[f]
                              \/ flight'[f].pc = "failed" /\ \A c \in Calls : call'[c].flight # f
    BY <1>3, SignOutKeeps
  <2>2. \A c \in Calls : Awaited(c)' => Awaited(c) /\ call'[c].flight = call[c].flight
                                         /\ flight'[call[c].flight] = flight[call[c].flight]
    BY <1>0, <2>1 DEF Awaited
  <2> QED
    BY <2>1, <2>2 DEF AwaitedInv, SameRequest, Awaited
<1>4. ASSUME Restart PROVE P
  <2>1. refreshTask' = NoFlight /\ \A c \in Calls : call'[c].flight = NoFlight
    BY <1>4, RestartKeeps
  <2> QED
    BY <2>1 DEF AwaitedInv, Awaited
<1>5. ASSUME NEW f \in Flights, StartRefresh(f) PROVE P
  <2>1. /\ flight[f].pc = "idle" /\ refreshTask' = f /\ flight'[f].pc = "send" /\ OtherFlights(f)
        /\ UNCHANGED call
    BY <1>5, StartRefreshMoves, StartedFlight
  <2>2. \A c \in Calls : call[c].flight # f
    BY <2>1, AuthAssumption DEF AwaitedInv, Awaited
  <2> QED
    BY <1>0, <2>1, <2>2 DEF AwaitedInv, Awaited, OtherFlights
<1>6. ASSUME NEW f \in Flights, FinishRefresh(f) PROVE P
  <2>1. /\ flight[f].pc \in {"granted", "failed"} /\ refreshTask' = NoFlight /\ OtherFlights(f)
        /\ UNCHANGED call
    BY <1>6, FinishRefreshMoves
  <2>2. \A c \in Calls : call[c].flight # f
    BY <2>1, AuthAssumption DEF AwaitedInv, Awaited
  <2> QED
    BY <1>0, <2>1, <2>2 DEF AwaitedInv, Awaited, OtherFlights
<1>7. ASSUME NEW f \in Flights, NEW c \in Calls, Send(f, c) PROVE P
  <2>1. /\ flight[f].pc = "send" /\ call[c].pc = "idle"
        /\ call'[c].pc = "check" /\ call'[c].tok = flight[f].tok /\ call'[c].flight = f /\ OtherCalls(c)
        /\ flight'[f].pc = "wait" /\ flight'[f].tok = flight[f].tok /\ OtherFlights(f)
        /\ UNCHANGED refreshTask
    BY <1>7, SendMoves
  <2>2. \A d \in Calls : call[d].flight # f
    BY <2>1, AuthAssumption DEF AwaitedInv, Awaited
  <2>3. ASSUME NEW d \in Calls, Awaited(d)'
        PROVE  /\ call'[d].pc # "idle" /\ flight'[call'[d].flight].pc = "wait"
               /\ call'[d].tok = flight'[call'[d].flight].tok
               /\ \A e \in Calls : call'[e].flight = call'[d].flight => d = e
    <3>1. CASE d = c
      BY <2>1, <2>2, <3>1 DEF OtherCalls
    <3>2. CASE d # c
      <4>1. call'[d] = call[d] /\ call[d].flight \in Flights /\ call[d].flight # f /\ Awaited(d)
        BY <1>0, <2>1, <2>2, <2>3, <3>2 DEF OtherCalls, Awaited
      <4>2. flight'[call[d].flight] = flight[call[d].flight]
        BY <2>1, <4>1 DEF OtherFlights
      <4> QED
        BY <2>1, <4>1, <4>2 DEF AwaitedInv, OtherCalls
    <3> QED
      BY <3>1, <3>2
  <2>4. refreshTask' # NoFlight => flight'[refreshTask'].pc # "idle"
    <3>1. refreshTask \in Flights \cup {NoFlight}
      BY DEF TypeOK
    <3> QED
      BY <2>1, <3>1 DEF AwaitedInv, OtherFlights
  <2> QED
    BY <2>3, <2>4 DEF AwaitedInv
<1>8. ASSUME NEW c \in Calls, RefreshCheck(c), UNCHANGED <<tokens, refreshTask, flight, ui>> PROVE P
  <2>1. /\ call'[c].pc # "idle" /\ OtherCalls(c)
        /\ call'[c].tok = call[c].tok /\ call'[c].flight = call[c].flight
    BY <1>8, RefreshCheckKeeps
  <2> QED
    BY <1>1, <1>8, <2>1 DEF OtherCalls
<1>9. ASSUME NEW c \in Calls, RefreshRevokeChain(c), UNCHANGED <<tokens, refreshTask, flight, ui>> PROVE P
  <2>1. /\ call'[c].pc # "idle" /\ OtherCalls(c)
        /\ call'[c].tok = call[c].tok /\ call'[c].flight = call[c].flight
    BY <1>9, RevokeChainKeeps
  <2> QED
    BY <1>1, <1>9, <2>1 DEF OtherCalls
<1>10. ASSUME NEW c \in Calls, RefreshRotate(c), UNCHANGED <<tokens, refreshTask, flight, ui>> PROVE P
  <2>1. /\ call'[c].pc # "idle" /\ OtherCalls(c)
        /\ call'[c].tok = call[c].tok /\ call'[c].flight = call[c].flight
    BY <1>10, RotateKeeps
  <2> QED
    BY <1>1, <1>10, <2>1 DEF OtherCalls
<1>11. ASSUME NEW c \in Calls, Reply(c) PROVE P
  <2>1. /\ call'[c].flight = NoFlight /\ OtherCalls(c) /\ UNCHANGED refreshTask
    BY <1>11, ReplyMoves
  <2>2. \A f \in Flights : flight'[f].pc = "idle" => flight[f].pc = "idle"
    BY <1>11, RepliedFlight
  <2>3. \A f \in Flights : f # call[c].flight => flight'[f] = flight[f]
    BY <1>11, RepliedFlight
  <2>4. ASSUME NEW d \in Calls, Awaited(d)'
        PROVE  /\ call'[d].pc # "idle" /\ flight'[call'[d].flight].pc = "wait"
               /\ call'[d].tok = flight'[call'[d].flight].tok
               /\ \A e \in Calls : call'[e].flight = call'[d].flight => d = e
    <3>1. d # c /\ call'[d] = call[d] /\ Awaited(d) /\ call[d].flight \in Flights
      BY <1>0, <2>1, <2>4 DEF OtherCalls, Awaited
    <3>2. call[d].flight # call[c].flight
      BY <3>1 DEF AwaitedInv
    <3>3. flight'[call[d].flight] = flight[call[d].flight]
      BY <2>3, <3>1, <3>2
    <3> QED
      BY <2>1, <3>1, <3>3 DEF AwaitedInv, OtherCalls, Awaited
  <2>5. refreshTask' # NoFlight => flight'[refreshTask'].pc # "idle"
    <3>1. refreshTask \in Flights \cup {NoFlight}
      BY DEF TypeOK
    <3> QED
      BY <2>1, <2>2, <3>1 DEF AwaitedInv
  <2> QED
    BY <2>4, <2>5 DEF AwaitedInv
<1>12. ASSUME NEW c \in Calls, LoseReply(c) PROVE P
  <2> DEFINE f == call[c].flight
  <2>1. /\ f \in Flights /\ Awaited(c) /\ call'[c].flight = NoFlight /\ OtherCalls(c)
        /\ flight'[f].pc \in {"send", "failed"} /\ OtherFlights(f) /\ UNCHANGED refreshTask
    BY <1>12, LoseReplyKeeps
  <2>2. ASSUME NEW d \in Calls, Awaited(d)'
        PROVE  /\ call'[d].pc # "idle" /\ flight'[call'[d].flight].pc = "wait"
               /\ call'[d].tok = flight'[call'[d].flight].tok
               /\ \A e \in Calls : call'[e].flight = call'[d].flight => d = e
    <3>1. d # c /\ call'[d] = call[d] /\ Awaited(d) /\ call[d].flight \in Flights
      BY <1>0, <2>1, <2>2 DEF OtherCalls, Awaited
    <3>2. call[d].flight # f
      BY <2>1, <3>1 DEF AwaitedInv
    <3>3. flight'[call[d].flight] = flight[call[d].flight]
      BY <2>1, <3>1, <3>2 DEF OtherFlights
    <3> QED
      BY <2>1, <3>1, <3>3 DEF AwaitedInv, OtherCalls, Awaited
  <2>3. refreshTask' # NoFlight => flight'[refreshTask'].pc # "idle"
    <3>1. refreshTask \in Flights \cup {NoFlight}
      BY DEF TypeOK
    <3> QED
      BY <2>1, <3>1 DEF AwaitedInv, OtherFlights
  <2> QED
    BY <2>2, <2>3 DEF AwaitedInv
<1> HIDE DEF P
<1>13. P
  BY <1>2, <1>3, <1>4, <1>5, <1>6, <1>7, <1>8, <1>9, <1>10, <1>11, <1>12
  DEF Next, ServerStep, SignIn, MainStep, Expire, auth, vars
<1> QED
  BY <1>13 DEF P

\* Every action keeps every token in one place.
LEMMA OnePlaceStep ==
  ASSUME TypeOK, IssuedInv, AwaitedInv, OnePlaceInv, [Next]_vars
  PROVE  OnePlaceInv'
<1> DEFINE P == OnePlaceInv'
<1>0. /\ tokens \in 0..MaxTokens /\ 0 \notin Token
      /\ \A c \in Calls : call[c].flight \in Flights \cup {NoFlight}
  BY DEF TypeOK, Call, Token
<1>a. /\ tokens # 0 => tokens \in Token /\ token[tokens].state # "unissued"
      /\ \A f \in Flights : Carries(f) => flight[f].tok \in Token /\ token[flight[f].tok].state # "unissued"
      /\ \A c \in Calls : call[c].pc = "granted" => call[c].new \in Token /\ token[call[c].new].state # "unissued"
  BY DEF IssuedInv, IsIssued
<1>1. ASSUME NEW n \in Token, SignIn(n) PROVE P
  <2>1. token[n].state = "unissued" /\ tokens' = n /\ UNCHANGED <<call, refreshTask, flight>>
    BY <1>1, SignInMoves
  <2> QED
    BY <1>a, <2>1 DEF OnePlaceInv, Carries
<1>2. ASSUME UNCHANGED <<call, tokens, refreshTask, flight>> PROVE P
  BY <1>2 DEF OnePlaceInv, Carries
<1>3. ASSUME SignOut PROVE P
  <2>1. /\ tokens' = 0 /\ \A c \in Calls : SameRequest(c)
        /\ \A f \in Flights : flight'[f] = flight[f] \/ flight'[f].pc = "failed"
    BY <1>3, SignOutKeeps
  <2> QED
    BY <1>0, <1>a, <2>1 DEF OnePlaceInv, Carries, SameRequest
<1>4. ASSUME Restart PROVE P
  <2>1. /\ UNCHANGED tokens /\ \A c \in Calls : SameRequest(c)
        /\ \A f \in Flights : flight'[f].pc = "idle"
    BY <1>4, RestartKeeps
  <2> QED
    BY <2>1 DEF OnePlaceInv, Carries, SameRequest
<1>5. ASSUME NEW f \in Flights, StartRefresh(f) PROVE P
  <2>1. /\ refreshTask = NoFlight /\ tokens # 0 /\ refreshTask' = f
        /\ flight'[f].pc = "send" /\ flight'[f].tok = tokens /\ OtherFlights(f)
        /\ UNCHANGED <<call, tokens>>
    BY <1>5, StartRefreshMoves, StartedFlight
  <2>2. \A g \in Flights : Carries(g) => flight[g].tok # tokens
    BY <2>1, AuthAssumption DEF OnePlaceInv
  <2> QED
    BY <2>1, <2>2 DEF OnePlaceInv, Carries, OtherFlights
<1>6. ASSUME NEW f \in Flights, FinishRefresh(f) PROVE P
  <2>1. flight'[f].pc = "idle" /\ OtherFlights(f) /\ UNCHANGED call
    BY <1>6, FinishRefreshMoves DEF IdleFlight
  <2>2. \/ flight[f].pc = "granted" /\ tokens' = flight[f].tok
        \/ tokens' = 0
    BY <1>6, FinishRefreshMoves
  <2>3. \A g \in Flights : g # f /\ Carries(g) => flight[g].tok # tokens'
    BY <1>0, <1>a, <2>2 DEF OnePlaceInv, Carries
  <2>4. \A c \in Calls : call[c].pc = "granted" => call[c].new # tokens'
    BY <1>0, <1>a, <2>2 DEF OnePlaceInv, Carries
  <2> QED
    BY <2>1, <2>3, <2>4 DEF OnePlaceInv, Carries, OtherFlights
<1>7. ASSUME NEW f \in Flights, NEW c \in Calls, Send(f, c) PROVE P
  <2>1. /\ flight[f].pc = "send" /\ call[c].pc = "idle" /\ call'[c].pc = "check" /\ OtherCalls(c)
        /\ flight'[f].pc = "wait" /\ flight'[f].tok = flight[f].tok /\ OtherFlights(f)
        /\ UNCHANGED <<tokens, refreshTask>>
    BY <1>7, SendMoves
  <2>2. \A g \in Flights : /\ Carries(g)' <=> Carries(g)
                           /\ flight'[g].tok = flight[g].tok
                           /\ flight'[g].pc = "granted" <=> flight[g].pc = "granted"
    BY <2>1 DEF Carries, OtherFlights
  <2>3. \A d \in Calls : call'[d].pc = "granted" => d # c /\ call'[d] = call[d]
    BY <2>1 DEF OtherCalls
  <2> QED
    BY <2>1, <2>2, <2>3 DEF OnePlaceInv
<1>8. ASSUME NEW c \in Calls, RefreshCheck(c), UNCHANGED <<tokens, refreshTask, flight, ui>> PROVE P
  <2>1. call'[c].pc # "granted" /\ OtherCalls(c)
    BY <1>8, RefreshCheckKeeps
  <2> QED
    BY <1>8, <2>1 DEF OnePlaceInv, Carries, OtherCalls
<1>9. ASSUME NEW c \in Calls, RefreshRevokeChain(c), UNCHANGED <<tokens, refreshTask, flight, ui>> PROVE P
  <2>1. call'[c].pc # "granted" /\ OtherCalls(c)
    BY <1>9, RevokeChainKeeps
  <2> QED
    BY <1>9, <2>1 DEF OnePlaceInv, Carries, OtherCalls
<1>10. ASSUME NEW c \in Calls, RefreshRotate(c), UNCHANGED <<tokens, refreshTask, flight, ui>> PROVE P
  <2>1. PICK n \in Token : OtherCalls(c) /\ call'[c].new = n /\ token[n].state = "unissued"
    BY <1>10, RotateKeeps
  <2>2. n # tokens /\ \A f \in Flights : Carries(f) => flight[f].tok # n
    BY <1>0, <1>a, <2>1
  <2>3. \A d \in Calls : call[d].pc = "granted" => call[d].new # n
    BY <1>a, <2>1
  <2> QED
    BY <1>10, <2>1, <2>2, <2>3 DEF OnePlaceInv, Carries, OtherCalls
<1>11. ASSUME NEW c \in Calls, Reply(c) PROVE P
  <2>1. call'[c].pc = "idle" /\ OtherCalls(c) /\ UNCHANGED <<tokens, refreshTask>>
    BY <1>11, ReplyMoves
  <2>2. \A f \in Flights :
          \/ flight'[f] = flight[f] /\ call[c].flight # f
          \/ flight'[f].pc = "failed"
          \/ call[c].flight = f /\ call[c].pc = "granted" /\ flight'[f].pc = "granted" /\ flight'[f].tok = call[c].new
    BY <1>11, RepliedFlight
  <2>3. \A f \in Flights : call[c].pc = "granted" /\ Carries(f) => flight[f].tok # call[c].new
    BY DEF OnePlaceInv
  <2>4. \A f, g \in Flights : Carries(f)' /\ Carries(g)' /\ flight'[f].tok = flight'[g].tok => f = g
    BY <2>2, <2>3 DEF OnePlaceInv, Carries
  <2>5. \A f \in Flights :
          Carries(f)' /\ flight'[f].tok = tokens' => f = refreshTask' /\ flight'[f].pc # "granted"
    BY <2>1, <2>2 DEF OnePlaceInv, Carries
  <2>6. \A d \in Calls : call'[d].pc = "granted" =>
          /\ call'[d].new # tokens'
          /\ \A f \in Flights : Carries(f)' => flight'[f].tok # call'[d].new
          /\ \A e \in Calls : call'[e].pc = "granted" /\ call'[d].new = call'[e].new => d = e
    <3> SUFFICES ASSUME NEW d \in Calls, call'[d].pc = "granted"
                 PROVE  /\ call'[d].new # tokens'
                        /\ \A f \in Flights : Carries(f)' => flight'[f].tok # call'[d].new
                        /\ \A e \in Calls : call'[e].pc = "granted" /\ call'[d].new = call'[e].new => d = e
      OBVIOUS
    <3>1. d # c /\ call'[d] = call[d]
      BY <2>1 DEF OtherCalls
    <3>2. call[c].pc = "granted" => call[c].new # call[d].new
      BY <3>1 DEF OnePlaceInv
    <3>3. \A f \in Flights : Carries(f)' => flight'[f].tok # call[d].new
      BY <2>2, <3>1, <3>2 DEF OnePlaceInv, Carries
    <3>4. \A e \in Calls : call'[e].pc = "granted" => call'[e] = call[e]
      BY <2>1 DEF OtherCalls
    <3> QED
      BY <2>1, <3>1, <3>3, <3>4 DEF OnePlaceInv
  <2> QED
    BY <2>4, <2>5, <2>6 DEF OnePlaceInv
<1>12. ASSUME NEW c \in Calls, LoseReply(c) PROVE P
  <2> DEFINE f == call[c].flight
  <2>1. /\ f \in Flights /\ Awaited(c) /\ \A d \in Calls : SameRequest(d)
        /\ \/ flight'[f].pc = "send" /\ flight'[f].tok = flight[f].tok
           \/ flight'[f].pc = "failed"
        /\ OtherFlights(f) /\ UNCHANGED <<tokens, refreshTask>>
    BY <1>12, LoseReplyKeeps
  <2>2. flight[f].pc = "wait"
    BY <2>1 DEF AwaitedInv
  <2>3. \A g \in Flights : Carries(g)' => /\ Carries(g) /\ flight'[g].tok = flight[g].tok
                                          /\ flight'[g].pc = "granted" => flight[g].pc = "granted"
    BY <2>1, <2>2 DEF Carries, OtherFlights
  <2> QED
    BY <2>1, <2>3 DEF OnePlaceInv, SameRequest
<1> HIDE DEF P
<1>13. P
  BY <1>1, <1>2, <1>3, <1>4, <1>5, <1>6, <1>7, <1>8, <1>9, <1>10, <1>11, <1>12
  DEF Next, ServerStep, MainStep, Expire, auth, vars
<1> QED
  BY <1>13 DEF P

-----------------------------------------------------------------------------
(* An orderly client: no answer is lost and the app is not killed.          *)

Orderly == "lost" \notin Faults /\ "restart" \notin Faults

\* Every action of an orderly client keeps every token presented once at most.
LEMMA PresentedOnceStep ==
  ASSUME Orderly, TypeOK, IssuedInv, AwaitedInv, OnePlaceInv, PresentedOnceInv, [Next]_vars
  PROVE  PresentedOnceInv'
<1> DEFINE P == PresentedOnceInv'
<1>0. /\ 0 \notin Token
      /\ \A c \in Calls : call[c].flight \in Flights \cup {NoFlight}
  BY DEF TypeOK, Call, Token
<1>a. /\ tokens # 0 => tokens \in Token /\ token[tokens].state # "unissued"
      /\ \A f \in Flights : Carries(f) => flight[f].tok \in Token /\ token[flight[f].tok].state # "unissued"
      /\ \A c \in Calls : /\ call[c].pc = "granted" => call[c].new \in Token /\ token[call[c].new].state # "unissued"
                          /\ call[c].pc # "idle" => call[c].tok \in Token /\ token[call[c].tok].state # "unissued"
  BY DEF IssuedInv, IsIssued
<1>1. ASSUME NEW n \in Token, SignIn(n) PROVE P
  <2>1. token[n].state = "unissued" /\ tokens' = n /\ UNCHANGED <<call, refreshTask, flight>>
    BY <1>1, SignInMoves
  <2> QED
    BY <1>a, <2>1 DEF PresentedOnceInv, Awaited
<1>2. ASSUME UNCHANGED <<call, tokens, refreshTask, flight>> PROVE P
  BY <1>2 DEF PresentedOnceInv, Awaited
<1>3. ASSUME SignOut PROVE P
  <2>1. /\ tokens' = 0 /\ \A c \in Calls : SameRequest(c)
        /\ \A f \in Flights : flight'[f] = flight[f] \/ flight'[f].pc = "failed"
    BY <1>3, SignOutKeeps
  <2> QED
    BY <1>0, <1>a, <2>1 DEF PresentedOnceInv, SameRequest
<1>4. ASSUME NEW f \in Flights, StartRefresh(f) PROVE P
  <2>1. /\ refreshTask = NoFlight /\ flight'[f].pc = "send" /\ flight'[f].tok = tokens /\ OtherFlights(f)
        /\ UNCHANGED <<call, tokens>>
    BY <1>4, StartRefreshMoves, StartedFlight
  <2>2. ASSUME NEW c \in Calls, call[c].pc # "idle" PROVE call[c].tok # tokens
    <3>1. CASE ~Awaited(c)
      BY <2>2, <3>1 DEF PresentedOnceInv
    <3>2. CASE Awaited(c)
      <4>1. call[c].flight \in Flights /\ flight[call[c].flight].pc = "wait"
            /\ call[c].tok = flight[call[c].flight].tok
        BY <1>0, <3>2 DEF AwaitedInv, Awaited
      <4> QED
        BY <2>1, <4>1, AuthAssumption DEF OnePlaceInv, Carries
    <3> QED
      BY <3>1, <3>2
  <2> QED
    BY <2>1, <2>2 DEF PresentedOnceInv, Awaited, OtherFlights
<1>5. ASSUME NEW f \in Flights, FinishRefresh(f) PROVE P
  <2>1. flight'[f].pc = "idle" /\ OtherFlights(f) /\ UNCHANGED call
    BY <1>5, FinishRefreshMoves DEF IdleFlight
  <2>2. \/ flight[f].pc = "granted" /\ tokens' = flight[f].tok
        \/ tokens' = 0
    BY <1>5, FinishRefreshMoves
  <2>3. \A c \in Calls : call[c].pc # "idle" => call[c].tok # tokens'
    BY <1>0, <1>a, <2>2 DEF PresentedOnceInv
  <2> QED
    BY <2>1, <2>3 DEF PresentedOnceInv, OtherFlights
<1>6. ASSUME NEW f \in Flights, NEW c \in Calls, Send(f, c) PROVE P
  <2>1. /\ flight[f].pc = "send" /\ call[c].pc = "idle"
        /\ call'[c].pc = "check" /\ call'[c].tok = flight[f].tok /\ call'[c].flight = f /\ OtherCalls(c)
        /\ flight'[f].pc = "wait" /\ OtherFlights(f) /\ UNCHANGED tokens
    BY <1>6, SendMoves
  <2>2. Carries(f) /\ \A d \in Calls : call[d].pc # "idle" => call[d].tok # flight[f].tok
    BY <2>1 DEF PresentedOnceInv, Carries
  <2>3. ASSUME NEW d \in Calls, call'[d].pc # "idle", d # c
        PROVE  /\ \A e \in Calls : call'[e].pc # "idle" /\ call'[d].tok = call'[e].tok => d = e
               /\ \A e \in Calls : call'[e].pc = "granted" => call'[e].new # call'[d].tok
               /\ \A g \in Flights : flight'[g].pc \in {"send", "granted"} => flight'[g].tok # call'[d].tok
               /\ ~Awaited(d)' => call'[d].tok # tokens'
    <3>1. call'[d] = call[d] /\ call[d].pc # "idle"
      BY <2>1, <2>3 DEF OtherCalls
    <3> QED
      BY <2>1, <2>2, <3>1 DEF PresentedOnceInv, OtherCalls, OtherFlights, Awaited
  <2>4. /\ \A e \in Calls : call'[e].pc # "idle" /\ call'[c].tok = call'[e].tok => c = e
        /\ \A e \in Calls : call'[e].pc = "granted" => call'[e].new # call'[c].tok
        /\ \A g \in Flights : flight'[g].pc \in {"send", "granted"} => flight'[g].tok # call'[c].tok
        /\ ~Awaited(c)' => call'[c].tok # tokens'
    <3>1. \A e \in Calls : call'[e].pc # "idle" /\ call'[c].tok = call'[e].tok => c = e
      BY <2>1, <2>2 DEF OtherCalls
    <3>2. \A e \in Calls : call'[e].pc = "granted" => call'[e].new # call'[c].tok
      BY <2>1, <2>2 DEF OnePlaceInv, OtherCalls
    <3>3. \A g \in Flights : flight'[g].pc \in {"send", "granted"} => flight'[g].tok # call'[c].tok
      BY <2>1, <2>2 DEF OnePlaceInv, OtherFlights, Carries
    <3>4. Awaited(c)'
      BY <2>1, AuthAssumption DEF Awaited
    <3> QED
      BY <3>1, <3>2, <3>3, <3>4
  <2> QED
    BY <2>3, <2>4 DEF PresentedOnceInv
<1>7. ASSUME NEW c \in Calls, OtherCalls(c), call[c].pc # "idle", call'[c].pc # "granted",
             call'[c].tok = call[c].tok, call'[c].flight = call[c].flight, UNCHANGED <<tokens, flight>>
      PROVE  P
  BY <1>7 DEF PresentedOnceInv, OtherCalls, Awaited
<1>8. ASSUME NEW c \in Calls, RefreshCheck(c), UNCHANGED <<tokens, refreshTask, flight, ui>> PROVE P
  <2>1. /\ OtherCalls(c) /\ call[c].pc # "idle" /\ call'[c].pc # "granted"
        /\ call'[c].tok = call[c].tok /\ call'[c].flight = call[c].flight
    BY <1>8, RefreshCheckKeeps
  <2> QED
    BY <1>7, <1>8, <2>1
<1>9. ASSUME NEW c \in Calls, RefreshRevokeChain(c), UNCHANGED <<tokens, refreshTask, flight, ui>> PROVE P
  <2>1. /\ OtherCalls(c) /\ call[c].pc # "idle" /\ call'[c].pc # "granted"
        /\ call'[c].tok = call[c].tok /\ call'[c].flight = call[c].flight
    BY <1>9, RevokeChainKeeps
  <2> QED
    BY <1>7, <1>9, <2>1
<1>10. ASSUME NEW c \in Calls, RefreshRotate(c), UNCHANGED <<tokens, refreshTask, flight, ui>> PROVE P
  <2>1. PICK n \in Token : /\ OtherCalls(c) /\ call[c].pc = "rotate" /\ call'[c].new = n
                           /\ call'[c].tok = call[c].tok /\ call'[c].flight = call[c].flight
                           /\ token[n].state = "unissued"
    BY <1>10, RotateKeeps
  <2>2. \A d \in Calls : call[d].pc # "idle" => call[d].tok # n
    BY <1>a, <2>1
  <2> QED
    BY <1>10, <2>1, <2>2 DEF PresentedOnceInv, OtherCalls, Awaited
<1>11. ASSUME NEW c \in Calls, Reply(c) PROVE P
  <2>1. call'[c].pc = "idle" /\ OtherCalls(c) /\ UNCHANGED <<tokens, refreshTask>>
    BY <1>11, ReplyMoves
  <2>2. \A f \in Flights :
          \/ flight'[f] = flight[f]
          \/ flight'[f].pc = "failed"
          \/ call[c].pc = "granted" /\ flight'[f].tok = call[c].new
    BY <1>11, RepliedFlight
  <2> QED
    BY <2>1, <2>2 DEF PresentedOnceInv, OtherCalls, Awaited
<1> HIDE DEF P
<1>12. P
  BY <1>1, <1>2, <1>3, <1>4, <1>5, <1>6, <1>8, <1>9, <1>10, <1>11
  DEF Next, ServerStep, MainStep, Restart, LoseReply, Expire, Orderly, auth, vars
<1> QED
  BY <1>12 DEF P

\* Every action of an orderly client keeps alive what the app holds or waits for.
LEMMA LiveStep ==
  ASSUME Orderly, TypeOK, IssuedInv, AwaitedInv, OnePlaceInv, PresentedOnceInv, LiveInv, [Next]_vars
  PROVE  LiveInv'
<1> DEFINE P == LiveInv'
<1>0. /\ 0 \notin Token
      /\ \A c \in Calls : call[c].flight \in Flights \cup {NoFlight}
  BY DEF TypeOK, Call, Token
<1>1. ASSUME NEW n \in Token, SignIn(n) PROVE P
  <2>1. /\ token' = [token EXCEPT ![n] = Issued(0)]
        /\ tokens' = n /\ UNCHANGED <<call, refreshTask, flight>>
    BY <1>1, SignInMoves
  <2>2. n \in Active' /\ \A k \in Active : k \in Active'
    BY <2>1 DEF Active, Issued, TypeOK
  <2> QED
    BY <2>1, <2>2 DEF LiveInv
<1>2. ASSUME UNCHANGED <<call, tokens, refreshTask, flight>>, Active' = Active PROVE P
  BY <1>2 DEF LiveInv
<1>3. ASSUME SignOut PROVE P
  <2>1. /\ tokens' = 0 /\ UNCHANGED token /\ \A c \in Calls : SameRequest(c)
        /\ \A f \in Flights : flight'[f] = flight[f] \/ flight'[f].pc = "failed"
    BY <1>3, SignOutKeeps
  <2>2. Active' = Active
    BY <2>1 DEF Active
  <2> QED
    BY <2>1, <2>2 DEF LiveInv, SameRequest
<1>4. ASSUME NEW f \in Flights, StartRefresh(f) PROVE P
  <2>1. /\ refreshTask = NoFlight /\ tokens # 0 /\ refreshTask' = f
        /\ flight'[f].pc = "send" /\ flight'[f].tok = tokens /\ OtherFlights(f)
        /\ UNCHANGED <<token, call, tokens>>
    BY <1>4, StartRefreshMoves, StartedFlight
  <2>2. Active' = Active
    BY <2>1 DEF Active
  <2> QED
    BY <2>1, <2>2, AuthAssumption DEF LiveInv, OtherFlights
<1>5. ASSUME NEW f \in Flights, FinishRefresh(f) PROVE P
  <2>1. flight'[f].pc = "idle" /\ OtherFlights(f) /\ UNCHANGED <<token, call>>
    BY <1>5, FinishRefreshMoves DEF IdleFlight
  <2>2. \/ flight[f].pc = "granted" /\ tokens' = flight[f].tok
        \/ tokens' = 0
    BY <1>5, FinishRefreshMoves
  <2>3. Active' = Active
    BY <2>1 DEF Active
  <2> QED
    BY <2>1, <2>2, <2>3 DEF LiveInv, OtherFlights
<1>6. ASSUME NEW f \in Flights, NEW c \in Calls, Send(f, c) PROVE P
  <2>1. /\ flight[f].pc = "send"
        /\ call'[c].pc = "check" /\ call'[c].tok = flight[f].tok /\ OtherCalls(c)
        /\ flight'[f].pc = "wait" /\ OtherFlights(f) /\ UNCHANGED <<token, tokens, refreshTask>>
    BY <1>6, SendMoves
  <2>2. Active' = Active
    BY <2>1 DEF Active
  <2> QED
    BY <2>1, <2>2 DEF LiveInv, OtherCalls, OtherFlights
<1>7. ASSUME NEW c \in Calls, RefreshCheck(c), UNCHANGED <<tokens, refreshTask, flight, ui>> PROVE P
  <2>1. /\ call[c].pc = "check" /\ OtherCalls(c) /\ UNCHANGED token
        /\ call'[c].pc \in {"revoke", "denied", "rotate"} /\ call'[c].tok = call[c].tok
        /\ call'[c].pc = "revoke" <=> token[call[c].tok].state = "revoked"
    BY <1>7, RefreshCheckKeeps
  <2>2. Active' = Active /\ token[call[c].tok].state = "active"
    BY <2>1 DEF Active, LiveInv
  <2>3. call'[c].pc \in {"denied", "rotate"}
    BY <2>1, <2>2
  <2> QED
    BY <1>7, <2>1, <2>2, <2>3 DEF LiveInv, OtherCalls
<1>8. ASSUME NEW c \in Calls, RefreshRevokeChain(c) PROVE FALSE
  BY <1>8 DEF RefreshRevokeChain, LiveInv
<1>9. ASSUME NEW c \in Calls, RefreshRotate(c), UNCHANGED <<tokens, refreshTask, flight, ui>> PROVE P
  <2>1. PICK n \in Token : /\ OtherCalls(c) /\ call[c].pc = "rotate" /\ call'[c].pc = "granted" /\ call'[c].new = n
                           /\ token'[n].state = "active"
                           /\ \A k \in Token : k # n /\ k # call[c].tok => token'[k] = token[k]
    BY <1>9, RotateKeeps
  <2>2. n \in Active' /\ \A k \in Active : k # call[c].tok => k \in Active'
    BY <2>1 DEF Active
  <2>3. ASSUME NEW d \in Calls
        PROVE  /\ call'[d].pc # "revoke"
               /\ call'[d].pc \in {"check", "rotate"} => call'[d].tok \in Active'
               /\ call'[d].pc = "granted" => call'[d].new \in Active'
    <3>1. CASE d = c
      BY <2>1, <2>2, <3>1
    <3>2. CASE d # c
      <4>1. call'[d] = call[d]
        BY <2>1, <3>2 DEF OtherCalls
      <4>2. call[d].pc \in {"check", "rotate"} => call[d].tok # call[c].tok
        BY <2>1, <3>2 DEF PresentedOnceInv
      <4>3. call[d].pc = "granted" => call[d].new # call[c].tok
        BY <2>1 DEF PresentedOnceInv
      <4> QED
        BY <2>2, <4>1, <4>2, <4>3 DEF LiveInv
    <3> QED
      BY <3>1, <3>2
  <2>4. ASSUME NEW f \in Flights, flight'[f].pc \in {"send", "granted"} PROVE flight'[f].tok \in Active'
    <3>1. flight[f].tok # call[c].tok
      BY <1>9, <2>1, <2>4 DEF PresentedOnceInv
    <3> QED
      BY <1>9, <2>2, <2>4, <3>1 DEF LiveInv
  <2>5. ASSUME tokens # 0, refreshTask = NoFlight PROVE tokens \in Active'
    <3>1. CASE ~Awaited(c)
      BY <2>1, <2>2, <2>5, <3>1 DEF PresentedOnceInv, LiveInv
    <3>2. CASE Awaited(c)
      <4>1. call[c].flight \in Flights /\ flight[call[c].flight].pc = "wait"
            /\ call[c].tok = flight[call[c].flight].tok
        BY <1>0, <3>2 DEF AwaitedInv, Awaited
      <4>2. call[c].tok # tokens
        BY <2>5, <4>1, AuthAssumption DEF OnePlaceInv, Carries
      <4> QED
        BY <2>2, <2>5, <4>2 DEF LiveInv
    <3> QED
      BY <3>1, <3>2
  <2> QED
    BY <1>9, <2>3, <2>4, <2>5 DEF LiveInv
<1>10. ASSUME NEW c \in Calls, Reply(c) PROVE P
  <2>1. call'[c].pc = "idle" /\ OtherCalls(c) /\ UNCHANGED <<token, tokens, refreshTask>>
    BY <1>10, ReplyMoves
  <2>2. \A f \in Flights :
          \/ flight'[f] = flight[f]
          \/ flight'[f].pc = "failed"
          \/ call[c].pc = "granted" /\ flight'[f].tok = call[c].new
    BY <1>10, RepliedFlight
  <2>3. Active' = Active
    BY <2>1 DEF Active
  <2> QED
    BY <2>1, <2>2, <2>3 DEF LiveInv, OtherCalls
<1>11. ASSUME NEW k \in Token, Expire(k) PROVE Active' = Active
  BY <1>11, ExpireMoves DEF Active
<1>12. ASSUME UNCHANGED token PROVE Active' = Active
  BY <1>12 DEF Active
<1> HIDE DEF P
<1>13. P
  BY <1>1, <1>2, <1>3, <1>4, <1>5, <1>6, <1>7, <1>8, <1>9, <1>10, <1>11, <1>12
  DEF Next, ServerStep, MainStep, Restart, LoseReply, Expire, Orderly, auth, vars
<1> QED
  BY <1>13 DEF P

\* Every action of an orderly client trades a token once.
LEMMA TradedStep ==
  ASSUME Orderly, TypeOK, IssuedInv, LiveInv, TradedInv, SingleUse, [Next]_vars
  PROVE  TradedInv' /\ SingleUse'
<1> DEFINE P == TradedInv' /\ SingleUse'
<1>0. \A m \in Token : token[m] \in TokenRow
  BY DEF TypeOK
<1>1. ASSUME UNCHANGED token PROVE P
  BY <1>1 DEF TradedInv, SingleUse
<1>2. ASSUME NEW n \in Token, NEW k \in 0..MaxTokens, token[n].state = "unissued",
             k # 0 => k \in Token /\ k \in Active /\ token'[k].state = "revoked" /\ token'[k].parent = token[k].parent,
             token'[n].state = "active", token'[n].parent = k,
             \A m \in Token : m # n /\ m # k => token'[m] = token[m]
      PROVE  P
  <2>0. 0 \notin Token
    BY DEF Token
  <2>1. \A m \in Token : m # n => token'[m].parent = token[m].parent
    BY <1>2, <2>0
  <2>2. \A m \in Token : token[m].parent # 0 => token[m].parent # k /\ token[m].parent # n /\ m # n
    BY <1>2 DEF TradedInv, Active
  <2>3. \A m \in Token : m # n /\ token[m].state # "unissued" => token'[m].state # "unissued"
    BY <1>2, <2>0
  <2>4. \A m \in Token : m # n /\ m # k => token'[m].state = token[m].state
    BY <1>2
  <2>5. SingleUse'
    BY <1>2, <2>1, <2>2 DEF SingleUse
  <2>6. ASSUME NEW m \in Token, token'[m].parent # 0
        PROVE  /\ token'[m].state # "unissued"
               /\ token'[m].parent \in Token /\ token'[token'[m].parent].state = "revoked"
    <3>1. CASE m = n
      BY <1>2, <2>6, <3>1
    <3>2. CASE m # n
      <4>1. token'[m].parent = token[m].parent /\ token[m].parent # 0
        BY <2>1, <2>6, <3>2
      <4>2. token[m].parent \in Token /\ token[m].parent # n /\ token[m].parent # k
        BY <2>2, <4>1 DEF TradedInv
      <4> QED
        BY <2>3, <2>4, <3>2, <4>1, <4>2 DEF TradedInv
    <3> QED
      BY <3>1, <3>2
  <2> QED
    BY <2>5, <2>6 DEF TradedInv
<1>3. ASSUME NEW n \in Token, SignIn(n) PROVE P
  <2>1. token[n].state = "unissued" /\ token' = [token EXCEPT ![n] = Issued(0)]
    BY <1>3, SignInMoves
  <2>2. Issued(0).state = "active" /\ Issued(0).parent = 0 /\ 0 \in 0..MaxTokens
    BY AuthAssumption DEF Issued
  <2>3. token'[n] = Issued(0) /\ \A m \in Token : m # n => token'[m] = token[m]
    BY <2>1 DEF TypeOK
  <2> QED
    BY <1>2, <2>1, <2>2, <2>3
<1>4. ASSUME NEW c \in Calls, RefreshRotate(c) PROVE P
  <2> DEFINE k == call[c].tok
  <2>1. PICK n \in Token : Fresh(n) /\ token' = Rotated(k, n)
    BY <1>4 DEF RefreshRotate
  <2>2. k \in Active /\ k \in Token /\ token[n].state = "unissued" /\ n # k
    BY <1>4, <2>1 DEF RefreshRotate, LiveInv, Active, Fresh
  <2>3. k \in 0..MaxTokens
    BY <2>2 DEF Token
  <2> HIDE DEF k
  <2>4. token'[n] = Issued(k) /\ token'[k] = [token[k] EXCEPT !.state = "revoked"]
        /\ \A m \in Token : m # n /\ m # k => token'[m] = token[m]
    BY <2>1, <2>2 DEF Rotated, TypeOK
  <2>5. token'[k].state = "revoked" /\ token'[k].parent = token[k].parent
    BY <1>0, <2>2, <2>4 DEF TokenRow
  <2>6. token'[n].state = "active" /\ token'[n].parent = k
    BY <2>4 DEF Issued
  <2> QED
    BY <1>2, <2>2, <2>3, <2>4, <2>5, <2>6
<1>5. ASSUME NEW c \in Calls, RefreshRevokeChain(c) PROVE FALSE
  BY <1>5 DEF RefreshRevokeChain, LiveInv
<1>6. ASSUME NEW k \in Token, Expire(k) PROVE P
  <2>1. token' = [token EXCEPT ![k] = [token[k] EXCEPT !.expired = TRUE]]
    BY <1>6 DEF Expire
  <2>2. /\ [token[k] EXCEPT !.expired = TRUE].state = token[k].state
        /\ [token[k] EXCEPT !.expired = TRUE].parent = token[k].parent
    BY <1>0 DEF TokenRow
  <2>3. \A m \in Token : token'[m].state = token[m].state /\ token'[m].parent = token[m].parent
    BY <2>1, <2>2 DEF TypeOK
  <2> QED
    BY <2>3 DEF TradedInv, SingleUse
<1> HIDE DEF P
<1>7. P
  BY <1>1, <1>3, <1>4, <1>5, <1>6
  DEF Next, ServerStep, RefreshCheck, MainStep, SignOut, Restart, StartRefresh, FinishRefresh, Send,
      Reply, LoseReply, auth, vars
<1> QED
  BY <1>7 DEF P

-----------------------------------------------------------------------------
(* The theorems.                                                            *)

SessionInv == TypeOK /\ SendsInv /\ IssuedInv /\ AwaitedInv /\ OnePlaceInv

\* The invariants of every client hold throughout.
LEMMA SessionInvariant == Spec => []SessionInv
<1>1. Init => SessionInv
  <2> SUFFICES ASSUME Init PROVE SessionInv
    OBVIOUS
  <2>1. /\ \A c \in Calls : call[c].pc = "idle" /\ call[c].flight = NoFlight
        /\ \A f \in Flights : flight[f].pc = "idle"
        /\ tokens = 0 /\ refreshTask = NoFlight
    BY DEF Init, AuthInit, IdleCall, IdleFlight
  <2>2. SendsInv /\ IssuedInv /\ AwaitedInv /\ OnePlaceInv
    BY <2>1 DEF SendsInv, IssuedInv, AwaitedInv, OnePlaceInv, Carries, Awaited
  <2>3. IdleCall \in Call /\ IdleFlight \in Flight
    BY AuthAssumption DEF IdleCall, IdleFlight, Call, Flight
  <2>4. [state |-> "unissued", expired |-> FALSE, parent |-> 0] \in TokenRow /\ 0 \in 0..MaxTokens
    BY AuthAssumption DEF TokenRow
  <2>5. TypeOK
    BY <2>3, <2>4 DEF Init, AuthInit, TypeOK
  <2> QED
    BY <2>2, <2>5 DEF SessionInv
<1>2. SessionInv /\ [Next]_vars => SessionInv'
  BY TypeStep, IssuedStep, AwaitedStep, OnePlaceStep DEF SessionInv
<1> QED
  BY <1>1, <1>2, PTL DEF Spec

\* Every part of the session's state keeps its shape; in particular no refresh task
\* ever makes more attempts than APIClient.maxAttempts.
THEOREM SessionTypeCorrect == Spec => []TypeOK
<1>1. SessionInv => TypeOK
  BY DEF SessionInv
<1> QED
  BY <1>1, SessionInvariant, PTL

\* For any number of concurrent callers, lost answers, sign-outs and restarts: no
\* token is presented by two refresh tasks at a time.
THEOREM RefreshIsSingleFlight == Spec => []SingleFlight
<1>1. SessionInv => SingleFlight
  BY DEF SessionInv, OnePlaceInv, SingleFlight, Carries
<1> QED
  BY <1>1, SessionInvariant, PTL

OrderlyInv == PresentedOnceInv /\ LiveInv /\ TradedInv /\ SingleUse

\* The invariants of an orderly client hold throughout.
LEMMA OrderlyInvariant == ASSUME Orderly PROVE Spec => []OrderlyInv
<1>1. Init => OrderlyInv
  <2> SUFFICES ASSUME Init PROVE OrderlyInv
    OBVIOUS
  <2>1. /\ \A c \in Calls : call[c].pc = "idle"
        /\ \A f \in Flights : flight[f].pc = "idle"
        /\ \A k \in Token : token[k].parent = 0
        /\ tokens = 0
    BY DEF Init, AuthInit, IdleCall, IdleFlight
  <2> QED
    BY <2>1 DEF OrderlyInv, PresentedOnceInv, LiveInv, TradedInv, SingleUse
<1>2. SessionInv /\ OrderlyInv /\ [Next]_vars => OrderlyInv'
  BY PresentedOnceStep, LiveStep, TradedStep DEF SessionInv, OrderlyInv
<1> QED
  BY <1>1, <1>2, SessionInvariant, PTL DEF Spec

\* As long as no answer is lost and the app is not killed, whatever it signs out of
\* and however its calls overlap: when no refresh is under way, the token it has
\* stored is live.
THEOREM OrderlyClientKeepsSession == ASSUME Orderly PROVE Spec => []StoredTokenIsLive
<1>1. SessionInv /\ OrderlyInv => StoredTokenIsLive
  <2> SUFFICES ASSUME SessionInv, OrderlyInv, tokens # 0, \A f \in Flights : flight[f].pc = "idle"
               PROVE  tokens \in Active
    BY DEF StoredTokenIsLive
  <2>1. refreshTask = NoFlight
    BY DEF SessionInv, AwaitedInv, TypeOK
  <2> QED
    BY <2>1 DEF OrderlyInv, LiveInv
<1> QED
  BY <1>1, SessionInvariant, OrderlyInvariant, PTL

\* For such a client rotation is single-use, as AuthService means it to be: the two
\* successors of one token that the model checker finds need a lost answer or a
\* killed app.
THEOREM OrderlyRotationIsSingleUse == ASSUME Orderly PROVE Spec => []SingleUse
<1>1. OrderlyInv => SingleUse
  BY DEF OrderlyInv
<1> QED
  BY <1>1, OrderlyInvariant, PTL

=============================================================================
