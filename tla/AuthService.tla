----------------------------- MODULE AuthService -----------------------------
(***************************************************************************)
(* The server's refresh-token rotation (AuthService.refresh) for one user: *)
(* requests that overlap, each a read of the token row followed by one     *)
(* transaction.  Tokens are numbered in the order in which they are        *)
(* issued; 0 is no token.  Access tokens are not modelled: they are        *)
(* verified without any stored state.                                      *)
(***************************************************************************)
EXTENDS Naturals, FiniteSets

CONSTANTS
  MaxTokens,   \* bound on the refresh tokens issued in one behaviour
  Calls,       \* POST /auth/refresh requests the server handles at a time
  Flights,     \* refresh tasks of the client
  NoFlight,    \* no refresh task
  MaxSends,    \* APIClient.maxAttempts
  Faults       \* the kinds of fault that may occur

ASSUME AuthAssumption ==
  /\ MaxTokens \in Nat /\ MaxSends \in Nat \ {0}
  /\ NoFlight \notin Flights
  /\ Faults \subseteq {"lost", "signout", "restart", "expiry"}

VARIABLES
  token,   \* the RefreshToken rows
  call     \* refresh requests being handled

Token    == 1..MaxTokens
TokenRow == [state: {"unissued", "active", "revoked"}, expired: BOOLEAN, parent: 0..MaxTokens]

\* flight is the client task that still waits for the answer.
Call == [pc: {"idle", "check", "rotate", "revoke", "granted", "denied"},
         tok: 0..MaxTokens, new: 0..MaxTokens, flight: Flights \cup {NoFlight}]

IdleCall == [pc |-> "idle", tok |-> 0, new |-> 0, flight |-> NoFlight]

Active == {k \in Token : token[k].state = "active"}

\* generateRefreshToken never repeats a token.
Fresh(n) == n \in Token /\ token[n].state = "unissued" /\ \A m \in 1..(n - 1) : token[m].state # "unissued"

Issued(parent) == [state |-> "active", expired |-> FALSE, parent |-> parent]

AuthInit ==
  /\ token = [k \in Token |-> [state |-> "unissued", expired |-> FALSE, parent |-> 0]]
  /\ call = [c \in Calls |-> IdleCall]

-----------------------------------------------------------------------------
\* findUnique and the rejections that follow from the row it returned.
RefreshCheck(c) ==
  LET row == token[call[c].tok] IN
  /\ call[c].pc = "check"
  /\ call' = [call EXCEPT ![c].pc = CASE row.state = "revoked" -> "revoke"
                                      [] row.state # "revoked" /\ row.expired -> "denied"
                                      [] OTHER -> "rotate"]
  /\ UNCHANGED token

\* Reuse detected: every active token of the user is revoked.
RefreshRevokeChain(c) ==
  /\ call[c].pc = "revoke"
  /\ token' = [k \in Token |-> IF k \in Active THEN [token[k] EXCEPT !.state = "revoked"] ELSE token[k]]
  /\ call' = [call EXCEPT ![c].pc = "denied"]

\* The rows after the transaction that trades token k for token n: the update of
\* k does not ask whether it is still active.
Rotated(k, n) == [token EXCEPT ![k].state = "revoked", ![n] = Issued(k)]

RefreshRotate(c) ==
  /\ call[c].pc = "rotate"
  /\ \E n \in Token :
       /\ Fresh(n)
       /\ token' = Rotated(call[c].tok, n)
       /\ call' = [call EXCEPT ![c].pc = "granted", ![c].new = n]

\* issueTokenPair of a sign-in; a sign-in starts a chain of its own.
IssueTokenPair(n) ==
  /\ Fresh(n)
  /\ token' = [token EXCEPT ![n] = Issued(0)]

\* A token passes its expiresAt.
Expire(k) ==
  /\ "expiry" \in Faults
  /\ token[k].state # "unissued" /\ ~token[k].expired
  /\ token' = [token EXCEPT ![k].expired = TRUE]
  /\ UNCHANGED call

=============================================================================
