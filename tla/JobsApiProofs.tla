---------------------------- MODULE JobsApiProofs ----------------------------
(* Proofs about creating and listing jobs, for any number of users, keys,    *)
(* jobs, requests, readers and page sizes.                                   *)
EXTENDS JobsApi, TLAPS, NaturalsInduction, WellFoundedInduction, FunctionTheorems, FiniteSetTheorems

\* A non-empty set of natural numbers has a least member.
LEMMA LeastNatural ==
  ASSUME NEW S, S \subseteq Nat, S # {}
  PROVE  \E i \in S : \A j \in S : i <= j
<1>1. PICK i \in S : \A j \in S : <<j, i>> \notin OpToRel(<, Nat)
  BY NatLessThanWellFounded, WFMin
<1>2. \A j \in S : ~(j < i)
  BY <1>1 DEF OpToRel
<1> QED
  BY <1>2

\* nextCursor is null or the last item of the page.
LEMMA NextCursorIsLast ==
  ASSUME NEW items, items \subseteq Ids, NEW limit \in Limits,
         NextCursor(items, limit) # 0
  PROVE  NextCursor(items, limit) \in items /\ \A j \in items : NextCursor(items, limit) <= j
<1>1. items # {}
  <2> SUFFICES ASSUME items = {} PROVE FALSE
    OBVIOUS
  <2>1. Cardinality(items) = 0
    BY FS_EmptySet
  <2> QED
    BY <2>1, ApiAssumption DEF NextCursor
<1>2. \E i \in items : \A j \in items : i <= j
  <2>1. items \subseteq Nat
    BY ApiAssumption DEF Ids
  <2> QED
    BY <1>1, <2>1, LeastNatural, Zenon
<1> DEFINE last == CHOOSE i \in items : \A j \in items : i <= j
<1>3. last \in items /\ \A j \in items : last <= j
  BY <1>2, Zenon
<1>4. NextCursor(items, limit) = last
  BY DEF NextCursor
<1> QED
  BY <1>3, <1>4

\* A page holds live jobs of its user that come after the cursor.
LEMMA PageIsAfterCursor ==
  ASSUME NEW u, NEW cursor \in 0..MaxJobs, NEW limit \in Limits,
         NEW i \in ListScoped(u, cursor, limit)
  PROVE  i \in Live(u) /\ (cursor # 0 => i < cursor)
<1> DEFINE after == {j \in Live(u) : cursor = 0 \/ j <= cursor}
<1>1. i \in after /\ Before(after, i) \in Skip(cursor)..(Skip(cursor) + limit - 1)
  BY DEF ListScoped
<1>2. i \in Live(u) /\ i \in Nat /\ (cursor # 0 => i <= cursor)
  BY <1>1, ApiAssumption DEF Live, Ids
<1>3. ASSUME cursor # 0, i = cursor PROVE FALSE
  <2>1. {j \in after : j > i} = {}
    BY <1>3, ApiAssumption DEF Live, Ids
  <2>2. Before(after, i) = 0
    BY <2>1, FS_EmptySet DEF Before
  <2> QED
    BY <1>1, <1>3, <2>2, ApiAssumption DEF Skip
<1> QED
  BY <1>2, <1>3, ApiAssumption

-----------------------------------------------------------------------------
(* Ranks in the list.                                                       *)

\* A non-empty set of jobs has a last id.
LEMMA GreatestId ==
  ASSUME NEW S, S \subseteq Ids, S # {}
  PROVE  \E i \in S : \A j \in S : j <= i
<1> DEFINE T == {MaxJobs - i : i \in S}
<1>1. T \subseteq Nat /\ T # {}
  BY ApiAssumption DEF Ids
<1>2. PICK t \in T : \A v \in T : t <= v
  BY <1>1, LeastNatural, Zenon
<1>3. PICK i \in S : t = MaxJobs - i
  BY <1>2
<1>4. \A j \in S : MaxJobs - i <= MaxJobs - j
  BY <1>2, <1>3
<1> QED
  BY <1>4, ApiAssumption DEF Ids

\* The jobs before a job can be counted.
LEMMA BeforeType ==
  ASSUME NEW S, S \subseteq Ids, NEW i
  PROVE  IsFiniteSet({j \in S : j > i}) /\ Before(S, i) \in Nat
<1>1. IsFiniteSet(Ids)
  BY FS_Interval, ApiAssumption DEF Ids
<1>2. IsFiniteSet({j \in S : j > i})
  BY <1>1, FS_Subset
<1> QED
  BY <1>2, FS_CardinalityType DEF Before

\* More jobs come before an older job than before a newer one.
LEMMA BeforeOrder ==
  ASSUME NEW S, S \subseteq Ids, NEW i \in S, NEW j \in S, i < j
  PROVE  Before(S, j) < Before(S, i)
<1> DEFINE A == {x \in S : x > i}
           B == {x \in S : x > j}
<1>0. \A x \in S : x \in Nat
  BY ApiAssumption DEF Ids
<1>1. B \in SUBSET A /\ j \in A /\ j \notin B
  BY <1>0
<1>2. IsFiniteSet(A) /\ Before(S, i) = Cardinality(A) /\ Before(S, j) = Cardinality(B)
  BY BeforeType DEF Before
<1>3. Before(S, i) \in Nat /\ Before(S, j) \in Nat
  BY BeforeType
<1>4. Cardinality(B) <= Cardinality(A) /\ Cardinality(A) # Cardinality(B)
  BY <1>1, <1>2, FS_Subset
<1> QED
  BY <1>2, <1>3, <1>4

\* The job after a job has one more before it.
LEMMA NextRank ==
  ASSUME NEW S, S \subseteq Ids, NEW j \in S, NEW i \in S, i < j
  PROVE  \E k \in S : k < j /\ Before(S, k) = Before(S, j) + 1
<1>0. \A x \in S : x \in Nat
  BY ApiAssumption DEF Ids
<1> DEFINE L == {x \in S : x < j}
<1>1. L \subseteq Ids /\ L # {}
  OBVIOUS
<1>2. PICK k \in L : \A x \in L : x <= k
  BY <1>1, GreatestId, Zenon
<1> DEFINE B == {x \in S : x > j}
<1>3. {x \in S : x > k} = B \cup {j}
  BY <1>0, <1>2
<1>4. IsFiniteSet(B) /\ j \notin B
  BY <1>0, BeforeType
<1>5. Cardinality(B \cup {j}) = Cardinality(B) + 1
  BY <1>4, FS_AddElement
<1> QED
  BY <1>2, <1>3, <1>5 DEF Before

\* No rank is skipped: below the rank of a job every rank is some job's.
LEMMA EveryRank ==
  ASSUME NEW S, S \subseteq Ids, NEW i \in S, NEW r \in Nat, r <= Before(S, i)
  PROVE  \E j \in S : Before(S, j) = r
<1>0. \A x \in S : x \in Nat
  BY ApiAssumption DEF Ids
<1> DEFINE U == {j \in S : Before(S, j) <= r}
<1>1. U # {}
  <2>1. PICK m \in S : \A j \in S : j <= m
    BY GreatestId, Zenon
  <2>2. {x \in S : x > m} = {}
    BY <1>0, <2>1
  <2>3. Before(S, m) = 0
    BY <2>2, FS_EmptySet DEF Before
  <2> QED
    BY <2>3
<1>2. U \subseteq Nat
  BY <1>0
<1>3. PICK j \in U : \A k \in U : j <= k
  BY <1>1, <1>2, LeastNatural, Zenon
<1>4. Before(S, i) \in Nat /\ Before(S, j) \in Nat
  BY BeforeType
<1>5. ASSUME Before(S, j) # r PROVE FALSE
  <2>1. Before(S, j) < Before(S, i)
    BY <1>3, <1>4, <1>5
  <2>2. i < j
    <3>1. CASE i = j
      BY <2>1, <1>4, <3>1
    <3>2. CASE j < i
      BY <1>3, <1>4, <2>1, <3>2, BeforeOrder
    <3> QED
      BY <1>0, <1>3, <3>1, <3>2
  <2>3. PICK k \in S : k < j /\ Before(S, k) = Before(S, j) + 1
    BY <1>3, <2>2, NextRank
  <2>4. k \in U
    BY <1>3, <1>4, <1>5, <2>3
  <2> QED
    BY <1>2, <1>3, <2>3, <2>4
<1> QED
  BY <1>3, <1>5

\* A page with a job left after it is full.
LEMMA FullPage ==
  ASSUME NEW S, S \subseteq Ids, NEW skip \in Nat, NEW limit \in Nat \ {0},
         NEW i \in S, Before(S, i) >= skip + limit
  PROVE  Cardinality({j \in S : Before(S, j) \in skip..(skip + limit - 1)}) = limit
<1> DEFINE R == skip..(skip + limit - 1)
           items == {j \in S : Before(S, j) \in R}
           f == [j \in items |-> Before(S, j)]
<1>1. f \in [items -> R]
  OBVIOUS
<1>2. \A j, k \in items : f[j] = f[k] => j = k
  <2> SUFFICES ASSUME NEW j \in items, NEW k \in items, Before(S, j) = Before(S, k) PROVE j = k
    OBVIOUS
  <2>1. j \in Nat /\ k \in Nat /\ Before(S, j) \in Nat
    BY BeforeType, ApiAssumption DEF Ids
  <2>2. ASSUME NEW a \in S, NEW b \in S, a < b PROVE Before(S, b) # Before(S, a)
    <3>1. Before(S, b) \in Nat /\ Before(S, a) \in Nat
      BY BeforeType
    <3>2. Before(S, b) < Before(S, a)
      BY <2>2, BeforeOrder
    <3> QED
      BY <3>1, <3>2
  <2>3. ~(j < k) /\ ~(k < j)
    BY <2>2
  <2> QED
    BY <2>1, <2>3
<1>3. \A r \in R : \E j \in items : f[j] = r
  <2> SUFFICES ASSUME NEW r \in R PROVE \E j \in items : f[j] = r
    OBVIOUS
  <2>1. Before(S, i) \in Nat
    BY BeforeType
  <2>2. r \in Nat /\ r <= Before(S, i)
    BY <2>1
  <2>3. PICK j \in S : Before(S, j) = r
    BY <2>2, EveryRank
  <2> QED
    BY <2>3
<1>4. f \in Bijection(items, R)
  BY <1>1, <1>2, <1>3, Fun_IsBij
<1>5. ExistsBijection(items, R)
  BY <1>4 DEF ExistsBijection
<1>6. IsFiniteSet(items)
  <2>1. IsFiniteSet(Ids)
    BY FS_Interval, ApiAssumption DEF Ids
  <2> QED
    BY <2>1, FS_Subset
<1>7. Cardinality(R) = Cardinality(items)
  BY <1>5, <1>6, FS_Bijection
<1>8. Cardinality(R) = limit
  BY FS_Interval
<1> QED
  BY <1>7, <1>8

-----------------------------------------------------------------------------
(* Types.                                                                   *)

\* The status of a refusal is a number.
LEMMA RefusalType ==
  /\ Refuse(Unauthorized) \in [pc: {"refused"}, status: Nat]
  /\ Refuse(UniqueViolation) \in [pc: {"refused"}, status: Nat]
<1>1. Normalize(Unauthorized) = 401
  BY DEF Normalize, Unauthorized
<1>2. Normalize(UniqueViolation) = 409
  BY DEF Normalize, UniqueViolation, MapPrisma
<1> QED
  BY <1>1, <1>2 DEF Refuse

\* Every action keeps the state well-formed.
LEMMA TypeStep == TypeOK /\ [Next]_vars => TypeOK'
<1> SUFFICES ASSUME TypeOK, [Next]_vars PROVE TypeOK'
  OBVIOUS
<1> USE DEF TypeOK
<1>1. ASSUME NEW c \in Creates, NEW credential \in Credential, NEW h \in Headers,
             CreateRequest(c, credential, h)
      PROVE  TypeOK'
  <2>1. CASE Authorized(credential)
    <3>1. Accepted(credential.sub, h) \in [pc: {"find", "insert"}, userId: Users, key: Keys \cup {NoKey}]
      BY ApiAssumption DEF Accepted, Credential
    <3>2. CreateType'
      BY <1>1, <2>1, <3>1 DEF CreateRequest, CreateType
    <3> QED
      BY <1>1, <3>2 DEF CreateRequest, RowType, PagerType
  <2>2. CASE ~Authorized(credential)
    <3>1. CreateType'
      BY <1>1, <2>2, RefusalType DEF CreateRequest, CreateType
    <3> QED
      BY <1>1, <3>1 DEF CreateRequest, RowType, PagerType
  <2> QED
    BY <2>1, <2>2
<1>2. ASSUME NEW c \in Creates, CreateFind(c) PROVE TypeOK'
  <2>1. create[c] \in [pc: {"find", "insert"}, userId: Users, key: Keys \cup {NoKey}]
    BY <1>2 DEF CreateFind, CreateType, NewCreate
  <2>2. CASE create' = [create EXCEPT ![c].pc = "insert"]
    <3>1. [create[c] EXCEPT !.pc = "insert"] \in [pc: {"find", "insert"}, userId: Users, key: Keys \cup {NoKey}]
      BY <2>1
    <3>2. CreateType'
      BY <2>2, <3>1 DEF CreateType
    <3> QED
      BY <1>2, <3>2 DEF CreateFind, RowType, PagerType
  <2>3. ASSUME NEW i \in Ids, create' = [create EXCEPT ![c] = Answer(create[c], i)]
        PROVE  TypeOK'
    <3>1. CreateType'
      BY <2>1, <2>3 DEF CreateType, Answer
    <3> QED
      BY <1>2, <3>1 DEF CreateFind, RowType, PagerType
  <2> QED
    BY <1>2, <2>2, <2>3 DEF CreateFind, FindByKey, Live
<1>3. ASSUME NEW c \in Creates, CreateInsert(c) PROVE TypeOK'
  <2>1. create[c] \in [pc: {"find", "insert"}, userId: Users, key: Keys \cup {NoKey}]
    BY <1>3 DEF CreateInsert, CreateType, NewCreate
  <2>2. CASE UNCHANGED row /\ create' = [create EXCEPT ![c] = Refuse(UniqueViolation)]
    BY <1>3, <2>2, RefusalType DEF CreateInsert, RowType, CreateType, PagerType
  <2>3. ASSUME NEW i \in Ids, create' = [create EXCEPT ![c] = Answer(create[c], i)],
               row' = [row EXCEPT ![i] = [state |-> "live", userId |-> create[c].userId, key |-> create[c].key]]
        PROVE  TypeOK'
    <3>1. CreateType'
      BY <2>1, <2>3 DEF CreateType, Answer
    <3>2. RowType'
      BY <2>1, <2>3 DEF RowType
    <3> QED
      BY <1>3, <3>1, <3>2 DEF CreateInsert, PagerType
  <2> QED
    BY <1>3, <2>2, <2>3 DEF CreateInsert
<1>4. ASSUME NEW u \in Users, NEW i \in Ids, Remove(u, i) PROVE TypeOK'
  <2>1. [row[i] EXCEPT !.state = "deleted"] \in [state: {"live", "deleted"}, userId: Users, key: Keys \cup {NoKey}]
    BY <1>4 DEF Remove, Live, RowType, NoRow
  <2>2. RowType'
    BY <1>4, <2>1 DEF Remove, RowType
  <2> QED
    BY <1>4, <2>2 DEF Remove, CreateType, PagerType
<1>5. ASSUME NEW p \in Pagers, NEW u \in Users, NEW limit \in Limits, StartPaging(p, u, limit)
      PROVE  TypeOK'
  <2>1. Live(u) \subseteq Ids /\ 0 \in 0..MaxJobs
    BY ApiAssumption DEF Live
  <2>2. PagerType'
    BY <1>5, <2>1 DEF StartPaging, PagerType
  <2> QED
    BY <1>5, <2>2 DEF StartPaging, RowType, CreateType
<1>6. ASSUME NEW p \in Pagers, ReadPage(p) PROVE TypeOK'
  <2> DEFINE x == pager[p]
             items == ListScoped(x.userId, x.cursor, x.limit)
             next == NextCursor(items, x.limit)
             counted == IF x.cursor # 0 /\ row[x.cursor].state = "deleted" THEN x.stale + 1 ELSE x.stale
  <2>1. x \in [pc: {"reading", "done"}, userId: Users, limit: Limits, cursor: 0..MaxJobs,
               pages: Seq(SUBSET Ids), start: SUBSET Ids, stale: Nat]
    BY <1>6 DEF ReadPage, PagerType, NewPager
  <2>2. items \subseteq Ids
    BY DEF ListScoped, Live
  <2>3. next \in 0..MaxJobs
    <3>1. next # 0 => next \in items
      BY <2>1, <2>2, NextCursorIsLast
    <3> HIDE DEF next
    <3> QED
      BY <2>2, <3>1, ApiAssumption DEF Ids
  <2>4. counted \in Nat /\ Append(x.pages, items) \in Seq(SUBSET Ids)
    BY <2>1, <2>2
  <2>5. pager' = [pager EXCEPT ![p] = [x EXCEPT !.pages = Append(x.pages, items), !.cursor = next,
                    !.pc = IF next = 0 THEN "done" ELSE "reading", !.stale = counted]]
    BY <1>6 DEF ReadPage
  <2> HIDE DEF items, next, counted
  <2>6. [x EXCEPT !.pages = Append(x.pages, items), !.cursor = next,
                  !.pc = IF next = 0 THEN "done" ELSE "reading", !.stale = counted]
          \in [pc: {"reading", "done"}, userId: Users, limit: Limits, cursor: 0..MaxJobs,
               pages: Seq(SUBSET Ids), start: SUBSET Ids, stale: Nat]
    BY <2>1, <2>3, <2>4
  <2>7. PagerType'
    BY <2>5, <2>6 DEF PagerType
  <2> QED
    BY <1>6, <2>7 DEF ReadPage, RowType, CreateType
<1>7. CASE UNCHANGED vars
  BY <1>7 DEF vars, RowType, CreateType, PagerType
<1> QED
  BY <1>1, <1>2, <1>3, <1>4, <1>5, <1>6, <1>7 DEF Next

-----------------------------------------------------------------------------
(* The invariants.                                                          *)

\* Every action keeps one row per key and the answers in step with the rows.
LEMMA KeyStep == TypeOK /\ KeyInv /\ [Next]_vars => KeyInv'
<1> SUFFICES ASSUME TypeOK, KeyInv, [Next]_vars PROVE KeyInv'
  OBVIOUS
<1> USE DEF TypeOK, RowType, CreateType
<1>1. ASSUME NEW c \in Creates, NEW credential \in Credential, NEW h \in Headers,
             CreateRequest(c, credential, h)
      PROVE  KeyInv'
  <2>1. create'[c].pc # "answered"
    BY <1>1 DEF CreateRequest, Accepted, Refuse
  <2>2. \A d \in Creates : d # c => create'[d] = create[d]
    BY <1>1 DEF CreateRequest
  <2> QED
    BY <1>1, <2>1, <2>2 DEF CreateRequest, KeyInv, Answered, IsRow
<1>2. ASSUME NEW c \in Creates, CreateFind(c) PROVE KeyInv'
  <2>1. \A d \in Creates : d # c => create'[d] = create[d]
    BY <1>2 DEF CreateFind
  <2>2. CASE create' = [create EXCEPT ![c].pc = "insert"]
    BY <1>2, <2>1, <2>2 DEF CreateFind, KeyInv, Answered, IsRow
  <2>3. ASSUME NEW i \in FindByKey(create[c].userId, create[c].key),
               create' = [create EXCEPT ![c] = Answer(create[c], i)]
        PROVE  KeyInv'
    <3>1. i \in Ids /\ IsRow(i) /\ row[i].userId = create[c].userId /\ row[i].key = create[c].key
      BY DEF FindByKey, Live, IsRow
    <3>2. create'[c] = Answer(create[c], i)
      BY <2>3
    <3> QED
      BY <1>2, <2>1, <3>1, <3>2 DEF CreateFind, KeyInv, Answered, Answer, IsRow
  <2> QED
    BY <1>2, <2>2, <2>3 DEF CreateFind
<1>3. ASSUME NEW c \in Creates, CreateInsert(c) PROVE KeyInv'
  <2>1. \A d \in Creates : d # c => create'[d] = create[d]
    BY <1>3 DEF CreateInsert
  <2>2. CASE UNCHANGED row /\ create' = [create EXCEPT ![c] = Refuse(UniqueViolation)]
    BY <2>1, <2>2 DEF KeyInv, Answered, Refuse, IsRow
  <2>3. ASSUME ~Taken(create[c].userId, create[c].key), NEW i \in Ids, ~IsRow(i),
               row' = [row EXCEPT ![i] = [state |-> "live", userId |-> create[c].userId, key |-> create[c].key]],
               create' = [create EXCEPT ![c] = Answer(create[c], i)]
        PROVE  KeyInv'
    <3>1. create'[c] = Answer(create[c], i)
      BY <2>3
    <3>2. /\ row'[i] = [state |-> "live", userId |-> create[c].userId, key |-> create[c].key]
          /\ \A j \in Ids : j # i => row'[j] = row[j]
      BY <2>3
    <3>3. \A j \in Ids : IsRow(j) /\ create[c].key # NoKey /\ row[j].key = create[c].key
                          => row[j].userId # create[c].userId
      BY <2>3 DEF Taken
    <3>4. \A j, k \in Ids :
            IsRow(j)' /\ IsRow(k)' /\ row'[j].key # NoKey /\ row'[j].key = row'[k].key
              /\ row'[j].userId = row'[k].userId => j = k
      BY <3>2, <3>3 DEF KeyInv, IsRow
    <3>5. ASSUME NEW d \in Answered'
          PROVE  /\ IsRow(create[d].job)'
                 /\ row'[create'[d].job].userId = create'[d].userId
                 /\ row'[create'[d].job].key = create'[d].key
      <4>1. CASE d = c
        BY <3>1, <3>2, <4>1 DEF Answer, IsRow
      <4>2. CASE d # c
        <5>1. d \in Answered /\ create'[d] = create[d]
          BY <2>1, <3>5, <4>2 DEF Answered
        <5>2. create[d].job \in Ids /\ IsRow(create[d].job)
          BY <5>1 DEF KeyInv, Answered, NewCreate
        <5> QED
          BY <2>3, <3>2, <5>1, <5>2 DEF KeyInv, IsRow
      <4> QED
        BY <4>1, <4>2
    <3> QED
      BY <3>4, <3>5 DEF KeyInv
  <2> QED
    BY <1>3, <2>2, <2>3 DEF CreateInsert
<1>4. ASSUME NEW u \in Users, NEW i \in Ids, Remove(u, i) PROVE KeyInv'
  <2>1. \A j \in Ids : /\ IsRow(j)' <=> IsRow(j)
                       /\ IsRow(j) => row'[j].userId = row[j].userId /\ row'[j].key = row[j].key
    BY <1>4 DEF Remove, Live, IsRow, NoRow
  <2>2. \A d \in Answered : create[d].job \in Ids
    BY DEF Answered, NewCreate
  <2>3. Answered' = Answered /\ create' = create
    BY <1>4 DEF Remove, Answered
  <2> HIDE DEF TypeOK, RowType, CreateType
  <2>4. \A d \in Answered : /\ IsRow(create[d].job)' /\ row'[create[d].job].userId = create[d].userId
                            /\ row'[create[d].job].key = create[d].key
    <3> SUFFICES ASSUME NEW d \in Answered
                 PROVE  /\ IsRow(create[d].job)' /\ row'[create[d].job].userId = create[d].userId
                        /\ row'[create[d].job].key = create[d].key
      OBVIOUS
    <3>1. /\ IsRow(create[d].job) /\ row[create[d].job].userId = create[d].userId
          /\ row[create[d].job].key = create[d].key
      BY DEF KeyInv
    <3> QED
      BY <2>1, <2>2, <2>3, <3>1 DEF IsRow
  <2>5. \A j, k \in Ids :
          IsRow(j)' /\ IsRow(k)' /\ row'[j].key # NoKey /\ row'[j].key = row'[k].key
            /\ row'[j].userId = row'[k].userId => j = k
    <3> SUFFICES ASSUME NEW j \in Ids, NEW k \in Ids, IsRow(j)', IsRow(k)', row'[j].key # NoKey,
                        row'[j].key = row'[k].key, row'[j].userId = row'[k].userId
                 PROVE  j = k
      OBVIOUS
    <3>1. /\ IsRow(j) /\ IsRow(k) /\ row[j].key # NoKey
          /\ row[j].key = row[k].key /\ row[j].userId = row[k].userId
      BY <2>1
    <3> QED
      BY <3>1 DEF KeyInv
  <2> QED
    BY <2>3, <2>4, <2>5 DEF KeyInv, IsRow
<1>5. CASE UNCHANGED <<row, create>>
  BY <1>5 DEF KeyInv, Answered, IsRow
<1> QED
  BY <1>1, <1>2, <1>3, <1>4, <1>5 DEF Next, StartPaging, ReadPage, vars

\* A row keeps its user once it is there.
LEMMA RowsStay ==
  ASSUME TypeOK, [Next]_vars, NEW i \in Ids, IsRow(i)
  PROVE  IsRow(i)' /\ row'[i].userId = row[i].userId
<1>1. ASSUME NEW c \in Creates, CreateInsert(c)
      PROVE  IsRow(i)' /\ row'[i].userId = row[i].userId
  BY <1>1 DEF CreateInsert, IsRow, TypeOK, RowType
<1>2. ASSUME NEW u \in Users, NEW j \in Ids, Remove(u, j)
      PROVE  IsRow(i)' /\ row'[i].userId = row[i].userId
  BY <1>2 DEF Remove, Live, IsRow, TypeOK, RowType, NoRow
<1>3. CASE UNCHANGED row
  BY <1>3 DEF IsRow
<1> QED
  BY <1>1, <1>2, <1>3 DEF Next, CreateRequest, CreateFind, StartPaging, ReadPage, vars

\* Every action keeps what has been read in order and at or before the cursor.
LEMMA CursorStep ==
  TypeOK /\ CursorInv /\ PagesInOrder /\ [Next]_vars => CursorInv' /\ PagesInOrder'
<1> SUFFICES ASSUME TypeOK, CursorInv, PagesInOrder, [Next]_vars
             PROVE  CursorInv' /\ PagesInOrder'
  OBVIOUS
<1>1. ASSUME NEW p \in Pagers
      PROVE  pager[p].pages \in Seq(SUBSET Ids)
  <2>1. CASE pager[p] = NewPager
    BY <2>1 DEF NewPager
  <2>2. CASE pager[p] # NewPager
    BY <2>2 DEF TypeOK, PagerType
  <2> QED
    BY <2>1, <2>2
<1>2. CASE UNCHANGED pager
  <2>1. \A p \in Pagers : \A m \in DOMAIN pager[p].pages : \A i \in pager[p].pages[m] :
          IsRow(i)' /\ row'[i].userId = row[i].userId
    BY <1>1, RowsStay DEF CursorInv
  <2> QED
    BY <1>2, <2>1 DEF CursorInv, PagesInOrder
<1>3. ASSUME NEW p \in Pagers, NEW u \in Users, NEW limit \in Limits, StartPaging(p, u, limit)
      PROVE  CursorInv' /\ PagesInOrder'
  <2>1. pager'[p].pages = <<>> /\ \A q \in Pagers : q # p => pager'[q] = pager[q]
    BY <1>3 DEF StartPaging, TypeOK, PagerType
  <2> QED
    BY <1>3, <2>1 DEF StartPaging, CursorInv, PagesInOrder, IsRow
<1>4. ASSUME NEW p \in Pagers, ReadPage(p)
      PROVE  CursorInv' /\ PagesInOrder'
  <2> DEFINE x == pager[p]
             items == ListScoped(x.userId, x.cursor, x.limit)
             next == NextCursor(items, x.limit)
             n == Len(x.pages)
  <2>1. /\ x \in [pc: {"reading", "done"}, userId: Users, limit: Limits, cursor: 0..MaxJobs,
                  pages: Seq(SUBSET Ids), start: SUBSET Ids, stale: Nat]
        /\ x.pc = "reading"
    BY <1>4 DEF ReadPage, TypeOK, PagerType, NewPager
  <2>2. items \subseteq Ids
    BY DEF ListScoped, Live
  <2>3. \A i \in items : /\ IsRow(i) /\ row[i].userId = x.userId
                         /\ x.cursor # 0 => i < x.cursor
    BY <2>1, PageIsAfterCursor DEF Live, IsRow
  <2>4. next # 0 => \A i \in items : next <= i
    BY <2>1, <2>2, NextCursorIsLast
  <2>5. next # 0 => next \in items
    BY <2>1, <2>2, NextCursorIsLast
  <2>6. /\ pager'[p].pages = Append(x.pages, items) /\ pager'[p].cursor = next
        /\ pager'[p].pc = (IF next = 0 THEN "done" ELSE "reading") /\ pager'[p].userId = x.userId
        /\ \A q \in Pagers : q # p => pager'[q] = pager[q]
        /\ UNCHANGED row
    BY <1>4, <2>1 DEF ReadPage, TypeOK, PagerType
  <2> HIDE DEF items, next
  <2>7. /\ DOMAIN pager'[p].pages = 1..(n + 1) /\ DOMAIN x.pages = 1..n /\ n \in Nat
        /\ pager'[p].pages[n + 1] = items
        /\ \A m \in 1..n : pager'[p].pages[m] = x.pages[m]
    BY <2>1, <2>2, <2>6
  <2>8. \A m \in 1..n : \A i \in x.pages[m] :
          /\ i \in Nat /\ IsRow(i) /\ row[i].userId = x.userId
          /\ x.cursor # 0 /\ x.cursor <= i
    BY <1>1, <2>1, <2>7, ApiAssumption DEF CursorInv, Ids
  <2>9. \A i \in items : i \in Nat
    BY <2>2, ApiAssumption DEF Ids
  <2>10. \A m \in 1..n : \A i \in x.pages[m] : \A j \in items : i > j
    <3> SUFFICES ASSUME NEW m \in 1..n, NEW i \in x.pages[m], NEW j \in items
                 PROVE  i > j
      OBVIOUS
    <3>1. x.cursor \in Nat
      BY <2>1, ApiAssumption
    <3>2. i \in Nat /\ x.cursor # 0 /\ x.cursor <= i
      BY <2>8
    <3>3. j \in Nat /\ j < x.cursor
      BY <2>3, <2>9, <3>2
    <3> QED
      BY <3>1, <3>2, <3>3
  <2>11. \A m \in 1..n : \A i \in x.pages[m] : next # 0 => next <= i
    BY <2>5, <2>8, <2>9, <2>10
  <2>12. CursorInv'
    <3> SUFFICES ASSUME NEW q \in Pagers, NEW m \in DOMAIN pager'[q].pages, NEW i \in pager'[q].pages[m]
                 PROVE  /\ IsRow(i)' /\ row'[i].userId = pager'[q].userId
                        /\ pager'[q].pc = "reading" => pager'[q].cursor # 0 /\ pager'[q].cursor <= i
      BY DEF CursorInv
    <3>1. CASE q # p
      BY <2>6, <3>1 DEF CursorInv, IsRow
    <3>2. CASE q = p /\ m = n + 1
      <4>1. i \in items
        BY <2>7, <3>2
      <4>2. IsRow(i) /\ row[i].userId = x.userId
        BY <2>3, <4>1
      <4>3. IsRow(i)' /\ row'[i].userId = pager'[q].userId
        BY <2>6, <3>2, <4>2 DEF IsRow
      <4> QED
        BY <2>4, <2>6, <3>2, <4>1, <4>3
    <3>3. CASE q = p /\ m \in 1..n
      BY <2>6, <2>7, <2>8, <2>11, <3>3 DEF IsRow
    <3> QED
      BY <2>7, <3>1, <3>2, <3>3
  <2>13. PagesInOrder'
    <3> SUFFICES ASSUME NEW q \in Pagers, NEW m \in DOMAIN pager'[q].pages, NEW i \in pager'[q].pages[m]
                 PROVE  /\ row'[i].userId = pager'[q].userId
                        /\ \A k \in DOMAIN pager'[q].pages : k > m => \A j \in pager'[q].pages[k] : i > j
      BY DEF PagesInOrder
    <3>1. CASE q # p
      BY <2>6, <3>1 DEF PagesInOrder
    <3>2. CASE q = p /\ m = n + 1
      <4>1. i \in items
        BY <2>7, <3>2
      <4>2. ~\E k \in DOMAIN pager'[p].pages : k > m
        BY <2>7, <3>2
      <4> QED
        <5>1. row'[i].userId = pager'[q].userId
          BY <2>3, <2>6, <3>2, <4>1
        <5> QED
          BY <3>2, <4>2, <5>1
    <3>3. CASE q = p /\ m \in 1..n
      <4>1. ASSUME NEW k \in 1..n, k > m, NEW j \in x.pages[k] PROVE i > j
        BY <2>7, <3>3, <4>1 DEF PagesInOrder
      <4>2. i \in x.pages[m]
        BY <2>7, <3>3
      <4>3. ASSUME NEW k \in 1..(n + 1), k > m, NEW j \in pager'[p].pages[k] PROVE i > j
        <5>1. CASE k = n + 1
          BY <2>7, <2>10, <3>3, <4>2, <4>3, <5>1
        <5>2. CASE k \in 1..n
          BY <2>7, <4>1, <4>3, <5>2
        <5> QED
          BY <2>7, <5>1, <5>2
      <4> QED
        BY <2>6, <2>7, <2>8, <3>3, <4>2, <4>3
    <3> QED
      BY <2>7, <3>1, <3>2, <3>3
  <2> QED
    BY <2>12, <2>13
<1>5. CASE UNCHANGED vars
  BY <1>2, <1>5 DEF vars
<1> QED
  BY <1>2, <1>3, <1>4, <1>5 DEF Next, CreateRequest, CreateFind, CreateInsert, Remove

\* Every exception a create can meet has a status below 500.
LEMMA ErrorStep == TypeOK /\ NoServerError /\ [Next]_vars => NoServerError'
<1> SUFFICES ASSUME TypeOK, NoServerError, [Next]_vars PROVE NoServerError'
  OBVIOUS
<1>1. /\ Refuse(Unauthorized) = [pc |-> "refused", status |-> 401]
      /\ Refuse(UniqueViolation) = [pc |-> "refused", status |-> 409]
  BY DEF Refuse, Normalize, Unauthorized, UniqueViolation, MapPrisma
<1>2. ASSUME NEW c \in Creates, \A d \in Creates : d # c => create'[d] = create[d],
             create'[c].pc = "refused" => create'[c].status < 500
      PROVE  NoServerError'
  BY <1>2 DEF NoServerError
<1>3. ASSUME NEW c \in Creates, NEW credential \in Credential, NEW h \in Headers,
             CreateRequest(c, credential, h)
      PROVE  NoServerError'
  <2>1. \A d \in Creates : d # c => create'[d] = create[d]
    BY <1>3 DEF CreateRequest, TypeOK, CreateType
  <2>2. create'[c] = IF Authorized(credential) THEN Accepted(credential.sub, h) ELSE Refuse(Unauthorized)
    BY <1>3 DEF CreateRequest, TypeOK, CreateType
  <2>3. Accepted(credential.sub, h).pc # "refused"
    BY DEF Accepted
  <2> QED
    BY <1>1, <1>2, <2>1, <2>2, <2>3
<1>4. ASSUME NEW c \in Creates, CreateFind(c) PROVE NoServerError'
  <2>1. \A d \in Creates : d # c => create'[d] = create[d]
    BY <1>4 DEF CreateFind, TypeOK, CreateType
  <2>2. create'[c].pc \in {"answered", "insert"}
    <3>1. create[c] \in [pc: {"find", "insert"}, userId: Users, key: Keys \cup {NoKey}]
      BY <1>4 DEF CreateFind, TypeOK, CreateType, NewCreate
    <3>2. ASSUME create' = [create EXCEPT ![c].pc = "insert"] PROVE create'[c].pc = "insert"
      BY <3>1, <3>2 DEF TypeOK, CreateType
    <3>3. ASSUME NEW i, create' = [create EXCEPT ![c] = Answer(create[c], i)]
          PROVE  create'[c].pc = "answered"
      BY <3>3 DEF Answer, TypeOK, CreateType
    <3> QED
      BY <1>4, <3>2, <3>3 DEF CreateFind
  <2> QED
    BY <1>2, <2>1, <2>2
<1>5. ASSUME NEW c \in Creates, CreateInsert(c) PROVE NoServerError'
  <2>1. \A d \in Creates : d # c => create'[d] = create[d]
    BY <1>5 DEF CreateInsert, TypeOK, CreateType
  <2>2. create'[c].pc = "answered" \/ create'[c] = Refuse(UniqueViolation)
    <3>1. ASSUME NEW i \in Ids, create' = [create EXCEPT ![c] = Answer(create[c], i)]
          PROVE  create'[c].pc = "answered"
      BY <3>1 DEF Answer, TypeOK, CreateType
    <3>2. ASSUME create' = [create EXCEPT ![c] = Refuse(UniqueViolation)]
          PROVE  create'[c] = Refuse(UniqueViolation)
      BY <3>2 DEF TypeOK, CreateType
    <3> QED
      BY <1>5, <3>1, <3>2 DEF CreateInsert
  <2> QED
    BY <1>1, <1>2, <2>1, <2>2
<1>6. CASE UNCHANGED create
  BY <1>6 DEF NoServerError
<1> QED
  BY <1>3, <1>4, <1>5, <1>6 DEF Next, Remove, StartPaging, ReadPage, vars

\* A row that is live after a step, and was a row before it, was live.
LEMMA NoneRevived ==
  ASSUME TypeOK, [Next]_vars, NEW i \in Ids, IsRow(i), row'[i].state = "live"
  PROVE  row[i].state = "live"
<1>1. ASSUME NEW c \in Creates, CreateInsert(c) PROVE row[i].state = "live"
  BY <1>1 DEF CreateInsert, IsRow, TypeOK, RowType
<1>2. ASSUME NEW u \in Users, NEW j \in Ids, Remove(u, j) PROVE row[i].state = "live"
  BY <1>2 DEF Remove, Live, IsRow, TypeOK, RowType, NoRow
<1>3. CASE UNCHANGED row
  BY <1>3
<1> QED
  BY <1>1, <1>2, <1>3 DEF Next, CreateRequest, CreateFind, StartPaging, ReadPage, vars

\* A client that has begun is a full record.
LEMMA BegunPager ==
  ASSUME TypeOK, NEW p \in Pagers, pager[p].pc # "new"
  PROVE  pager[p] \in [pc: {"reading", "done"}, userId: Users, limit: Limits, cursor: 0..MaxJobs,
                       pages: Seq(SUBSET Ids), start: SUBSET Ids, stale: Nat]
  BY DEF TypeOK, PagerType, NewPager

\* The missed jobs are finitely many.
LEMMA PassedFinite ==
  ASSUME NEW S, S \subseteq Ids
  PROVE  IsFiniteSet(S) /\ Cardinality(S) \in Nat
<1>1. IsFiniteSet(Ids)
  BY FS_Interval, ApiAssumption DEF Ids
<1> QED
  BY <1>1, FS_Subset, FS_CardinalityType

\* A full page has a next cursor.
LEMMA FullPageGoesOn ==
  ASSUME NEW items, items \subseteq Ids, NEW limit \in Limits, Cardinality(items) = limit
  PROVE  NextCursor(items, limit) # 0
<1>1. items # {} /\ items \subseteq Nat /\ 0 \notin items
  BY FS_EmptySet, ApiAssumption DEF Ids
<1>2. \E i \in items : \A j \in items : i <= j
  BY <1>1, LeastNatural, Zenon
<1> DEFINE last == CHOOSE i \in items : \A j \in items : i <= j
<1>3. last \in items
  BY <1>2, Zenon
<1>4. NextCursor(items, limit) = last
  BY DEF NextCursor
<1> QED
  BY <1>1, <1>3, <1>4

\* What ReadPage does to the record of its client.
LEMMA ReadPageMoves ==
  ASSUME TypeOK, NEW p \in Pagers, ReadPage(p)
  PROVE  LET x == pager[p]
             items == ListScoped(x.userId, x.cursor, x.limit)
             next == NextCursor(items, x.limit)
         IN  /\ x.pc = "reading" /\ items \subseteq Ids
             /\ pager'[p].userId = x.userId /\ pager'[p].start = x.start
             /\ pager'[p].cursor = next /\ pager'[p].pc = IF next = 0 THEN "done" ELSE "reading"
             /\ pager'[p].stale = IF x.cursor # 0 /\ row[x.cursor].state = "deleted" THEN x.stale + 1 ELSE x.stale
             /\ Shown(p)' = Shown(p) \cup items
             /\ \A q \in Pagers : q # p => pager'[q] = pager[q]
             /\ UNCHANGED row
<1> DEFINE x == pager[p]
           items == ListScoped(x.userId, x.cursor, x.limit)
           next == NextCursor(items, x.limit)
           n == Len(x.pages)
<1>1. x.pc = "reading"
  BY DEF ReadPage
<1>2. x \in [pc: {"reading", "done"}, userId: Users, limit: Limits, cursor: 0..MaxJobs,
             pages: Seq(SUBSET Ids), start: SUBSET Ids, stale: Nat]
  BY <1>1, BegunPager
<1>3. items \subseteq Ids
  BY DEF ListScoped, Live
<1>4. /\ pager'[p].pages = Append(x.pages, items)
      /\ pager'[p].userId = x.userId /\ pager'[p].start = x.start
      /\ pager'[p].cursor = next /\ pager'[p].pc = (IF next = 0 THEN "done" ELSE "reading")
      /\ \A q \in Pagers : q # p => pager'[q] = pager[q]
      /\ UNCHANGED row
  BY <1>2 DEF ReadPage, TypeOK, PagerType
<1>5. pager'[p].stale = IF x.cursor # 0 /\ row[x.cursor].state = "deleted" THEN x.stale + 1 ELSE x.stale
  BY <1>2 DEF ReadPage, TypeOK, PagerType
<1> HIDE DEF items, next
<1>6. /\ DOMAIN pager'[p].pages = 1..(n + 1) /\ DOMAIN x.pages = 1..n /\ n \in Nat
      /\ pager'[p].pages[n + 1] = items
      /\ \A m \in 1..n : pager'[p].pages[m] = x.pages[m]
  BY <1>2, <1>3, <1>4
<1>7. Shown(p)' = Shown(p) \cup items
  <2>1. \A i : i \in Shown(p)' <=> \E m \in 1..(n + 1) : i \in pager'[p].pages[m]
    BY <1>6 DEF Shown
  <2>2. \A i : i \in Shown(p) <=> \E m \in 1..n : i \in x.pages[m]
    BY <1>6 DEF Shown
  <2>3. 1..(n + 1) = (1..n) \cup {n + 1}
    BY <1>6
  <2> QED
    BY <1>6, <2>1, <2>2, <2>3
<1> QED
  BY <1>1, <1>3, <1>4, <1>5, <1>7 DEF items, next

\* A page with a live cursor passes no job, and one with a stale cursor at most one:
\* the first after it, which skip: 1 drops.
LEMMA PagePasses ==
  ASSUME TypeOK, CursorInv, PassedInv, NEW p \in Pagers, ReadPage(p)
  PROVE  Cardinality(Passed(p)') <= pager'[p].stale
<1> DEFINE x == pager[p]
           items == ListScoped(x.userId, x.cursor, x.limit)
           next == NextCursor(items, x.limit)
           after == {i \in Live(x.userId) : x.cursor = 0 \/ i <= x.cursor}
           first == {i \in after : Before(after, i) = 0 /\ i # x.cursor}
           old == Passed(p)
           new == Passed(p)'
<1>1. /\ x.pc = "reading" /\ items \subseteq Ids
      /\ pager'[p].start = x.start /\ pager'[p].cursor = next
      /\ pager'[p].pc = (IF next = 0 THEN "done" ELSE "reading")
      /\ Shown(p)' = Shown(p) \cup items /\ UNCHANGED row
  BY ReadPageMoves
<1>2. pager'[p].stale = IF x.cursor # 0 /\ row[x.cursor].state = "deleted" THEN x.stale + 1 ELSE x.stale
  BY ReadPageMoves
<1>3. x \in [pc: {"reading", "done"}, userId: Users, limit: Limits, cursor: 0..MaxJobs,
             pages: Seq(SUBSET Ids), start: SUBSET Ids, stale: Nat]
  BY <1>1, BegunPager
<1>4. /\ \A i \in x.start : IsRow(i) /\ row[i].userId = x.userId
      /\ x.cursor # 0 => x.cursor \in Shown(p)
      /\ Cardinality(old) <= x.stale
  BY <1>1 DEF PassedInv
<1>5. after \subseteq Ids /\ \A i \in after : i \in Nat
  <2>1. after \subseteq Ids
    BY DEF Live
  <2>2. Ids \subseteq Nat
    BY ApiAssumption DEF Ids
  <2> QED
    BY <2>1, <2>2
<1>6. x.limit \in Nat \ {0} /\ x.cursor \in Nat /\ Skip(x.cursor) \in Nat
  <2>1. x.limit \in Limits /\ x.cursor \in 0..MaxJobs
    BY <1>3
  <2>2. \A c : Skip(c) \in Nat
    BY DEF Skip
  <2>3. x.limit \in Nat \ {0}
    BY <2>1, ApiAssumption
  <2>4. x.cursor \in Nat
    BY <2>1, ApiAssumption
  <2> QED
    BY <2>2, <2>3, <2>4
<1>7. items = {i \in after : Before(after, i) \in Skip(x.cursor)..(Skip(x.cursor) + x.limit - 1)}
  BY DEF ListScoped
<1> HIDE DEF items, next, after
<1>8. ASSUME NEW i \in new PROVE i \in old \/ (x.cursor # 0 /\ i \in first)
  <2>1. /\ i \in x.start /\ row[i].state = "live" /\ i \notin Shown(p) /\ i \notin items
        /\ next # 0 => i > next
    BY <1>1, <1>8 DEF Passed, Missed
  <2>2. i \in Ids /\ i \in Nat /\ i \in Live(x.userId)
    BY <1>3, <1>4, <2>1, ApiAssumption DEF Live, Ids
  <2>3. CASE x.cursor # 0 /\ i > x.cursor
    BY <1>1, <2>1, <2>3 DEF Passed, Missed
  <2>4. CASE x.cursor = 0 \/ i <= x.cursor
    <3>1. i \in after /\ Before(after, i) \in Nat
      BY <1>5, <2>2, <2>4, BeforeType DEF after
    <3>2. ASSUME Before(after, i) >= Skip(x.cursor) + x.limit PROVE FALSE
      <4>1. Cardinality(items) = x.limit
        BY <1>5, <1>6, <1>7, <3>1, <3>2, FullPage
      <4>2. next # 0
        BY <1>1, <1>3, <4>1, FullPageGoesOn DEF next
      <4>3. next \in items
        BY <1>1, <1>3, <4>2, NextCursorIsLast DEF next
      <4>4. next \in after /\ next < i /\ Before(after, next) < Skip(x.cursor) + x.limit
        BY <1>5, <1>6, <1>7, <2>1, <2>2, <4>2, <4>3
      <4>5. Before(after, i) < Before(after, next)
        BY <1>5, <3>1, <4>4, BeforeOrder
      <4>6. Before(after, next) \in Nat
        BY <1>5, BeforeType
      <4> QED
        BY <1>6, <3>1, <3>2, <4>4, <4>5, <4>6
    <3>3. Before(after, i) < Skip(x.cursor)
      BY <1>6, <1>7, <2>1, <3>1, <3>2
    <3>4. x.cursor # 0 /\ Before(after, i) = 0
      BY <3>1, <3>3 DEF Skip
    <3>5. i # x.cursor
      BY <1>4, <2>1, <3>4
    <3> QED
      BY <3>1, <3>4, <3>5
  <2> QED
    BY <1>6, <2>2, <2>3, <2>4
<1>9. old \subseteq Ids /\ new \subseteq Ids
  BY <1>1, <1>3 DEF Passed, Missed
<1>10. IsFiniteSet(old) /\ Cardinality(old) \in Nat /\ IsFiniteSet(new) /\ Cardinality(new) \in Nat
  BY <1>9, PassedFinite
<1>11. x.stale \in Nat /\ pager'[p].stale \in Nat /\ x.stale <= pager'[p].stale
  BY <1>2, <1>3
<1>12. CASE new \subseteq old
  BY <1>4, <1>10, <1>11, <1>12, FS_Subset
<1>13. CASE ~(new \subseteq old)
  <2>1. PICK k \in first : x.cursor # 0
    BY <1>8, <1>13
  <2>2. ASSUME NEW i \in first PROVE i = k
    <3>1. ~(i < k)
      BY <1>5, <2>1, BeforeOrder, BeforeType
    <3>2. ~(k < i)
      BY <1>5, <2>1, BeforeOrder, BeforeType
    <3> QED
      BY <1>5, <3>1, <3>2
  <2>3. x.cursor \in Ids /\ IsRow(x.cursor) /\ row[x.cursor].userId = x.userId
    <3>1. PICK m \in DOMAIN x.pages : x.cursor \in x.pages[m]
      BY <1>4, <2>1 DEF Shown
    <3> QED
      BY <1>3, <3>1 DEF CursorInv
  <2>4. row[x.cursor].state # "live"
    <3> SUFFICES ASSUME row[x.cursor].state = "live" PROVE FALSE
      OBVIOUS
    <3>1. x.cursor \in after
      BY <1>6, <2>3 DEF after, Live
    <3>2. k \in after /\ k < x.cursor
      BY <1>5, <1>6, <2>1, <3>1 DEF after
    <3>3. Before(after, x.cursor) < Before(after, k) /\ Before(after, x.cursor) \in Nat
      BY <1>5, <3>1, <3>2, BeforeOrder, BeforeType
    <3> QED
      BY <2>1, <3>3
  <2>5. pager'[p].stale = x.stale + 1
    <3>1. row[x.cursor].state = "deleted"
      BY <2>3, <2>4 DEF TypeOK, RowType, IsRow, NoRow
    <3> QED
      BY <1>2, <2>1, <3>1
  <2>6. new \subseteq old \cup {k}
    BY <1>8, <2>2
  <2>7. /\ IsFiniteSet(old \cup {k}) /\ Cardinality(old \cup {k}) \in Nat
        /\ Cardinality(old \cup {k}) <= Cardinality(old) + 1
    <3> HIDE DEF old
    <3>1. /\ IsFiniteSet(old \cup {k})
          /\ Cardinality(old \cup {k}) = IF k \in old THEN Cardinality(old) ELSE Cardinality(old) + 1
      BY <1>10, FS_AddElement
    <3> QED
      BY <1>10, <3>1
  <2>8. Cardinality(new) <= Cardinality(old \cup {k})
    BY <2>6, <2>7, FS_Subset
  <2> QED
    BY <1>4, <1>10, <1>11, <2>5, <2>7, <2>8
<1> QED
  BY <1>12, <1>13

\* Every action keeps the count of passed jobs below the count of stale pages.
LEMMA PassedStep == TypeOK /\ CursorInv /\ PassedInv /\ [Next]_vars => PassedInv'
<1> SUFFICES ASSUME TypeOK, CursorInv, PassedInv, [Next]_vars, NEW p \in Pagers, pager'[p].pc # "new"
             PROVE  /\ \A i \in pager'[p].start : IsRow(i)' /\ row'[i].userId = pager'[p].userId
                    /\ pager'[p].pc = "reading" /\ pager'[p].cursor # 0 => pager'[p].cursor \in Shown(p)'
                    /\ Cardinality(Passed(p)') <= pager'[p].stale
  BY DEF PassedInv
<1> DEFINE Kept == /\ \A i \in pager'[p].start : IsRow(i)' /\ row'[i].userId = pager'[p].userId
                   /\ pager'[p].pc = "reading" /\ pager'[p].cursor # 0 => pager'[p].cursor \in Shown(p)'
                   /\ Cardinality(Passed(p)') <= pager'[p].stale
<1>1. CASE pager'[p] = pager[p]
  <2>1. pager[p].start \subseteq Ids /\ pager[p].stale \in Nat
    BY <1>1, BegunPager
  <2>2. \A i \in pager[p].start : IsRow(i) /\ row[i].userId = pager[p].userId
    BY <1>1 DEF PassedInv
  <2>3. \A i \in pager[p].start : IsRow(i)' /\ row'[i].userId = pager[p].userId
    BY <2>1, <2>2, RowsStay
  <2>4. Shown(p)' = Shown(p)
    BY <1>1 DEF Shown
  <2>5. \A i \in pager[p].start : row'[i].state = "live" => row[i].state = "live"
    BY <2>1, <2>2, NoneRevived
  <2>6. Passed(p)' \subseteq Passed(p) /\ Passed(p) \subseteq Ids
    BY <1>1, <2>1, <2>4, <2>5 DEF Passed, Missed
  <2>7. Cardinality(Passed(p)') <= Cardinality(Passed(p))
    BY <2>6, PassedFinite, FS_Subset
  <2>8. Cardinality(Passed(p)') \in Nat /\ Cardinality(Passed(p)) \in Nat
    <3>1. Passed(p)' \subseteq Ids
      BY <2>6
    <3> QED
      BY <2>6, <3>1, PassedFinite
  <2>9. Cardinality(Passed(p)) <= pager[p].stale
    BY <1>1 DEF PassedInv
  <2>10. pager[p].pc = "reading" /\ pager[p].cursor # 0 => pager[p].cursor \in Shown(p)
    BY DEF PassedInv
  <2> QED
    BY <1>1, <2>1, <2>3, <2>4, <2>7, <2>8, <2>9, <2>10
<1>2. ASSUME NEW u \in Users, NEW limit \in Limits, StartPaging(p, u, limit) PROVE Kept
  <2>1. /\ pager'[p] = [pc |-> "reading", userId |-> u, limit |-> limit, cursor |-> 0,
                        pages |-> <<>>, start |-> Live(u), stale |-> 0]
        /\ UNCHANGED row
    BY <1>2 DEF StartPaging, TypeOK, PagerType
  <2>2. \A i \in Live(u) : IsRow(i)' /\ row'[i].userId = u
    BY <2>1 DEF Live, IsRow
  <2>3. Passed(p)' = {}
    BY <2>1 DEF Passed
  <2> QED
    BY <2>1, <2>2, <2>3, FS_EmptySet
<1>3. ASSUME ReadPage(p) PROVE Kept
  <2> DEFINE x == pager[p]
             items == ListScoped(x.userId, x.cursor, x.limit)
             next == NextCursor(items, x.limit)
  <2>1. /\ x.pc = "reading" /\ items \subseteq Ids
        /\ pager'[p].userId = x.userId /\ pager'[p].start = x.start /\ pager'[p].cursor = next
        /\ Shown(p)' = Shown(p) \cup items /\ UNCHANGED row
    BY <1>3, ReadPageMoves
  <2>2. x.limit \in Limits
    BY <2>1, BegunPager
  <2>3. next # 0 => next \in items
    BY <2>1, <2>2, NextCursorIsLast
  <2>4. \A i \in x.start : IsRow(i) /\ row[i].userId = x.userId
    BY <2>1 DEF PassedInv
  <2>5. Cardinality(Passed(p)') <= pager'[p].stale
    BY <1>3, PagePasses
  <2> HIDE DEF items, next
  <2> QED
    BY <2>1, <2>3, <2>4, <2>5 DEF IsRow
<1>4. ASSUME NEW q \in Pagers, NEW u \in Users, NEW limit \in Limits, StartPaging(q, u, limit), q # p
      PROVE  pager'[p] = pager[p]
  BY <1>4 DEF StartPaging, TypeOK, PagerType
<1>5. ASSUME NEW q \in Pagers, ReadPage(q), q # p
      PROVE  pager'[p] = pager[p]
  BY <1>5, ReadPageMoves
<1> QED
  BY <1>1, <1>2, <1>3, <1>4, <1>5 DEF Next, CreateRequest, CreateFind, CreateInsert, Remove, vars

-----------------------------------------------------------------------------
(* The theorems.                                                            *)

\* The invariants hold throughout.
LEMMA Invariant ==
  Spec => [](TypeOK /\ KeyInv /\ CursorInv /\ PagesInOrder /\ PassedInv /\ NoServerError)
<1>1. Init => TypeOK
  BY DEF Init, TypeOK, RowType, CreateType, PagerType
<1>2. Init => KeyInv
  BY DEF Init, KeyInv, Answered, NewCreate, IsRow, NoRow
<1>3. Init => CursorInv /\ PagesInOrder
  BY DEF Init, CursorInv, PagesInOrder, NewPager
<1>4. Init => PassedInv /\ NoServerError
  BY DEF Init, PassedInv, NoServerError, NewPager, NewCreate
<1> QED
  BY <1>1, <1>2, <1>3, <1>4, TypeStep, KeyStep, CursorStep, PassedStep, ErrorStep, PTL DEF Spec

\* For any number of overlapping and repeated creates: all answers with one key of
\* one user name the same job, which is that user's.
THEOREM CreatesAreIdempotent == Spec => []AnswersAgree
<1>1. TypeOK /\ KeyInv => AnswersAgree
  <2> SUFFICES ASSUME TypeOK, KeyInv, NEW c \in Answered, NEW d \in Answered
               PROVE  /\ row[create[c].job].userId = create[c].userId
                      /\ create[c].key # NoKey /\ create[c].key = create[d].key /\ create[c].userId = create[d].userId
                           => create[c].job = create[d].job
    BY DEF AnswersAgree
  <2>1. create[c].job \in Ids /\ create[d].job \in Ids
    BY DEF TypeOK, CreateType, Answered, NewCreate
  <2> QED
    BY <2>1 DEF KeyInv
<1> QED
  BY <1>1, Invariant, PTL

\* For any number of jobs and any page size, whatever is created and deleted
\* meanwhile: the pages a client reads hold its user's jobs, each once, in order.
THEOREM PagesAreOrdered == Spec => []PagesInOrder
<1> QED
  BY Invariant, PTL

\* For any number of jobs, readers and page sizes: a client that has read every page
\* missed none of the jobs that were there all along, except one for each page it
\* asked for with the cursor of a deleted job.  The argument counts: ranks have no
\* gaps, so a page that is not full is the last, and skip: 1 drops one row at most.
THEOREM PagesAreComplete == Spec => []PagesComplete
<1>1. TypeOK /\ PassedInv => PagesComplete
  <2> SUFFICES ASSUME PassedInv, NEW p \in Pagers, pager[p].pc = "done"
               PROVE  Cardinality(Missed(p)) <= pager[p].stale
    BY DEF PagesComplete
  <2>1. Passed(p) = Missed(p)
    BY DEF Passed
  <2> QED
    BY <2>1 DEF PassedInv
<1> QED
  BY <1>1, Invariant, PTL

\* However many creates, repeats and deletions overlap, none is answered with a 500:
\* the unique violation of two creates that both found nothing is a 409.
THEOREM CreatesNeverFail == Spec => []NoServerError
<1> QED
  BY Invariant, PTL

=============================================================================
