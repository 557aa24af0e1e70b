------------------------------- MODULE JobsApi -------------------------------
(***************************************************************************)
(* The API over many jobs and users: POST /jobs with its idempotency key,  *)
(* DELETE, and GET /jobs page by page, with the guard in front of them and *)
(* the exception filter behind them.  A client that lost an answer sends   *)
(* the same request again while the first is still handled.  What happens  *)
(* to one job afterwards is JobSystem's subject.                           *)
(*                                                                         *)
(* A job is its place in the order of the list (createdAt, then id): rows  *)
(* may become visible in another order than that of their createdAt.       *)
(***************************************************************************)
EXTENDS Naturals, FiniteSets, Sequences

CONSTANTS
  Users,     \* user ids
  Keys,      \* idempotency keys, trimmed
  Headers,   \* values of the Idempotency-Key header
  Trim,      \* String.prototype.trim: from Headers to Keys, or to NoKey when blank
  NoKey,     \* null
  MaxJobs,   \* bound: rows of the Job table
  Creates,   \* the POST /jobs requests of a behaviour
  Pagers,    \* clients that read the whole list, page by page
  Limits     \* page sizes that clients ask for

ASSUME ApiAssumption ==
  /\ NoKey \notin Keys
  /\ Trim \in [Headers -> Keys \cup {NoKey}]
  /\ MaxJobs \in Nat
  /\ Limits \subseteq Nat \ {0}

VARIABLES
  row,     \* the Job table
  create,  \* creates, from the request to its answer
  pager    \* clients reading pages

vars == <<row, create, pager>>

Ids == 1..MaxJobs

\* A bearer token as the guard sees it: whose it is, whether it verifies (its
\* signature, expiry, issuer and audience), and its type, "none" without a token.
Credential == [sub: Users, verifies: BOOLEAN, type: {"access", "other", "none"}]

\* canActivate: the request goes on for the token's user, or is a 401.
Authorized(c) == c.type = "access" /\ c.verifies

-----------------------------------------------------------------------------
(* AllExceptionsFilter: the status of an answer.                            *)

\* Mutant: a unique violation is an unknown database error.
MapPrismaWithout2002(code) ==
  CASE code = "P2025" -> 404 [] code = "P2003" -> 400 [] OTHER -> 500

MapPrisma(code) ==
  CASE code = "P2025" -> 404 [] code = "P2002" -> 409 [] code = "P2003" -> 400 [] OTHER -> 500

\* Exceptions are HttpExceptions with their status, Prisma errors, or unknown.
Normalize(e) ==
  CASE e.kind = "http"       -> e.status
    [] e.kind = "prisma"     -> MapPrisma(e.code)
    [] e.kind = "validation" -> 400
    [] OTHER                 -> 500

Unauthorized == [kind |-> "http", status |-> 401]

UniqueViolation == [kind |-> "prisma", code |-> "P2002"]

-----------------------------------------------------------------------------
NoRow == [state |-> "none"]

IsRow(i) == row[i].state # "none"

Live(u) == {i \in Ids : row[i].state = "live" /\ row[i].userId = u}

NewCreate == [pc |-> "new"]

\* The request got past the guard; the header is trimmed and a blank one is null.
Accepted(u, header) ==
  [pc |-> IF Trim[header] = NoKey THEN "insert" ELSE "find", userId |-> u, key |-> Trim[header]]

\* A create that ended with this job, and one that ended with an exception.
Answer(x, i) == [pc |-> "answered", status |-> 201, userId |-> x.userId, key |-> x.key, job |-> i]

Refuse(e) == [pc |-> "refused", status |-> Normalize(e)]

\* JobsController.create behind the guard.
CreateRequest(c, credential, header) ==
  /\ create[c].pc = "new"
  /\ create' = [create EXCEPT ![c] =
       IF Authorized(credential) THEN Accepted(credential.sub, header) ELSE Refuse(Unauthorized)]
  /\ UNCHANGED <<row, pager>>

\* findByIdempotencyKey: of the jobs that are not deleted.
FindByKey(u, k) == {i \in Live(u) : row[i].key = k}

\* A replay is answered with the job found and a fresh upload URL.
CreateFind(c) ==
  LET found == FindByKey(create[c].userId, create[c].key) IN
  /\ create[c].pc = "find"
  /\ \/ \E i \in found : create' = [create EXCEPT ![c] = Answer(create[c], i)]
     \/ found = {} /\ create' = [create EXCEPT ![c].pc = "insert"]
  /\ UNCHANGED <<row, pager>>

\* Mutant: deleted rows do not count.
TakenUnlessDeleted(u, k) == k # NoKey /\ FindByKey(u, k) # {}

\* @@unique([userId, idempotencyKey]): nulls are distinct, deleted rows count.
Taken(u, k) == k # NoKey /\ \E i \in Ids : IsRow(i) /\ row[i].userId = u /\ row[i].key = k

\* createDraft: a fresh id, or a unique violation; presigning needs no service.
CreateInsert(c) ==
  LET x == create[c] IN
  /\ x.pc = "insert"
  /\ \/ /\ Taken(x.userId, x.key)
        /\ create' = [create EXCEPT ![c] = Refuse(UniqueViolation)]
        /\ UNCHANGED row
     \/ /\ ~Taken(x.userId, x.key)
        /\ \E i \in Ids :
             /\ ~IsRow(i)
             /\ row' = [row EXCEPT ![i] = [state |-> "live", userId |-> x.userId, key |-> x.key]]
             /\ create' = [create EXCEPT ![c] = Answer(x, i)]
  /\ UNCHANGED pager

\* DELETE by the owner: softDeleteScoped.
Remove(u, i) ==
  /\ i \in Live(u)
  /\ row' = [row EXCEPT ![i].state = "deleted"]
  /\ UNCHANGED <<create, pager>>

-----------------------------------------------------------------------------
(* Listing.                                                                 *)

\* How many of the jobs in S come before job i (the newest first).
Before(S, i) == Cardinality({j \in S : j > i})

\* Mutant: the cursor's own row is not skipped.
SkipNone(cursor) == 0

\* skip: 1 with a cursor.
Skip(cursor) == IF cursor = 0 THEN 0 ELSE 1

\* listScoped: the live jobs of the user from the cursor's place on (whether or not
\* the cursor's row is still live), without the first, at most limit of them.
\* Without a cursor (0) the list starts at the newest.
ListScoped(u, cursor, limit) ==
  LET after == {i \in Live(u) : cursor = 0 \/ i <= cursor}
  IN  {i \in after : Before(after, i) \in Skip(cursor)..(Skip(cursor) + limit - 1)}

\* Mutant: a full page that happens to be the last is taken for the end.
NextCursorAtOnce(items, limit) ==
  IF Cardinality(items) > limit THEN CHOOSE i \in items : \A j \in items : i <= j ELSE 0

\* nextCursor: the last item of a full page, otherwise null.
NextCursor(items, limit) ==
  IF Cardinality(items) = limit THEN CHOOSE i \in items : \A j \in items : i <= j ELSE 0

NewPager == [pc |-> "new", pages |-> <<>>]

\* A client starts to read the list.
StartPaging(p, u, limit) ==
  /\ pager[p].pc = "new"
  /\ pager' = [pager EXCEPT ![p] = [pc |-> "reading", userId |-> u, limit |-> limit, cursor |-> 0,
                                    pages |-> <<>>, start |-> Live(u), stale |-> 0]]
  /\ UNCHANGED <<row, create>>

\* GET /jobs?cursor: list().  stale counts the pages asked for with the cursor of
\* a job that has been deleted meanwhile.
ReadPage(p) ==
  LET x == pager[p]
      items == ListScoped(x.userId, x.cursor, x.limit)
      next == NextCursor(items, x.limit)
  IN
  /\ x.pc = "reading"
  /\ pager' = [pager EXCEPT ![p] =
       [x EXCEPT !.pages = Append(@, items), !.cursor = next,
                 !.pc = IF next = 0 THEN "done" ELSE "reading",
                 !.stale = IF x.cursor # 0 /\ row[x.cursor].state = "deleted" THEN @ + 1 ELSE @]]
  /\ UNCHANGED <<row, create>>

-----------------------------------------------------------------------------
\* Some jobs are there already, created without a key.
Init ==
  /\ row \in [Ids -> {NoRow} \cup [state: {"live"}, userId: Users, key: {NoKey}]]
  /\ create = [c \in Creates |-> NewCreate]
  /\ pager = [p \in Pagers |-> NewPager]

Next ==
  \/ \E c \in Creates :
       \/ \E credential \in Credential, h \in Headers : CreateRequest(c, credential, h)
       \/ CreateFind(c) \/ CreateInsert(c)
  \/ \E u \in Users, i \in Ids : Remove(u, i)
  \/ \E p \in Pagers :
       \/ \E u \in Users, limit \in Limits : StartPaging(p, u, limit)
       \/ ReadPage(p)

Spec == Init /\ [][Next]_vars

-----------------------------------------------------------------------------
(* Properties                                                               *)

Answered == {c \in Creates : create[c].pc = "answered"}

\* However often a create is sent, in whatever order its copies are handled and
\* whatever is deleted in between, all answers with an idempotency key of a user
\* name the same job, and it is that user's ("retries never duplicate work").
AnswersAgree ==
  \A c, d \in Answered :
    /\ row[create[c].job].userId = create[c].userId
    /\ create[c].key # NoKey /\ create[c].key = create[d].key /\ create[c].userId = create[d].userId
         => create[c].job = create[d].job

\* No interleaving of creates and deletions ends in a server error.
NoServerError == \A c \in Creates : create[c].pc = "refused" => create[c].status < 500

\* A client that reads all pages while jobs are created and deleted sees its own
\* jobs, each once and in the order of the list ("stable ordering under inserts").
PagesInOrder ==
  \A p \in Pagers : LET pages == pager[p].pages IN
    \A m \in DOMAIN pages : \A i \in pages[m] :
      /\ row[i].userId = pager[p].userId
      /\ \A n \in DOMAIN pages : n > m => \A j \in pages[n] : i > j

\* The jobs a client has been shown, on whatever page.
Shown(p) == UNION {pager[p].pages[n] : n \in DOMAIN pager[p].pages}

\* The jobs that were there when the client began and still are, and that no page
\* has shown.
Missed(p) == {i \in pager[p].start : row[i].state = "live"} \ Shown(p)

\* Such a client misses no job, except one for each page it asked for with the
\* cursor of a job deleted meanwhile (skip: 1 then drops a live row).
PagesComplete == \A p \in Pagers : pager[p].pc = "done" => Cardinality(Missed(p)) <= pager[p].stale

-----------------------------------------------------------------------------
(* The inductive invariant behind the proofs.                               *)

RowType ==
  row \in [Ids -> {NoRow} \cup [state: {"live", "deleted"}, userId: Users, key: Keys \cup {NoKey}]]

CreateType ==
  create \in [Creates ->
    {NewCreate}
      \cup [pc: {"find", "insert"}, userId: Users, key: Keys \cup {NoKey}]
      \cup [pc: {"answered"}, status: {201}, userId: Users, key: Keys \cup {NoKey}, job: Ids]
      \cup [pc: {"refused"}, status: Nat]]

PagerType ==
  pager \in [Pagers ->
    {NewPager}
      \cup [pc: {"reading", "done"}, userId: Users, limit: Limits, cursor: 0..MaxJobs,
            pages: Seq(SUBSET Ids), start: SUBSET Ids, stale: Nat]]

\* Every part of the state has its shape.
TypeOK == RowType /\ CreateType /\ PagerType

\* A key of a user has one row, and an answer names a row with its user and key.
KeyInv ==
  /\ \A i, j \in Ids :
       IsRow(i) /\ IsRow(j) /\ row[i].key # NoKey /\ row[i].key = row[j].key
         /\ row[i].userId = row[j].userId => i = j
  /\ \A c \in Answered :
       /\ IsRow(create[c].job)
       /\ row[create[c].job].userId = create[c].userId /\ row[create[c].job].key = create[c].key

\* What a client has read are rows of its user, and its cursor is the last of them.
CursorInv ==
  \A p \in Pagers : LET x == pager[p] IN
    \A m \in DOMAIN x.pages : \A i \in x.pages[m] :
      /\ IsRow(i) /\ row[i].userId = x.userId
      /\ x.pc = "reading" => x.cursor # 0 /\ x.cursor <= i

\* The missed jobs that a client's cursor has passed, all of them when it is done.
Passed(p) ==
  {i \in Missed(p) : pager[p].pc = "reading" => pager[p].cursor # 0 /\ i > pager[p].cursor}

\* A client began with rows of its user, holds the cursor of a job it was shown, and
\* its cursor passed no more jobs than it asked for pages with a stale cursor.
PassedInv ==
  \A p \in Pagers : pager[p].pc # "new" =>
    /\ \A i \in pager[p].start : IsRow(i) /\ row[i].userId = pager[p].userId
    /\ pager[p].pc = "reading" /\ pager[p].cursor # 0 => pager[p].cursor \in Shown(p)
    /\ Cardinality(Passed(p)) <= pager[p].stale

=============================================================================
