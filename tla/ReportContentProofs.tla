------------------------- MODULE ReportContentProofs -------------------------
(***************************************************************************)
(* What is stored of a report is what was said: the conversions between    *)
(* the compiler's answer or the client's tree, the rows, the API's JSON    *)
(* and the printed document, for reports of any size, and the replacing    *)
(* transactions between them.  Sorting, filtering and reading rows by      *)
(* their numbers all pick an entry by its rank in a finite order.          *)
(***************************************************************************)
EXTENDS ReportFlowProofs, FiniteSetTheorems, SequenceTheorems

-----------------------------------------------------------------------------
(* Ranks in a finite order.                                                 *)

\* R orders S strictly and totally.
Orders(R, S) ==
  /\ \A x \in S : <<x, x>> \notin R
  /\ \A x, y, z \in S : <<x, y>> \in R /\ <<y, z>> \in R => <<x, z>> \in R
  /\ \A x, y \in S : x # y => <<x, y>> \in R \/ <<y, x>> \in R

\* How many members of S come before x.
Rank(R, S, x) == Cardinality({y \in S : <<y, x>> \in R})

\* Ranks are natural numbers below the size of the set.
LEMMA RankType ==
  ASSUME NEW S, IsFiniteSet(S), NEW R, Orders(R, S), NEW x \in S
  PROVE  Rank(R, S, x) \in 0..(Cardinality(S) - 1)
<1> DEFINE P == {y \in S : <<y, x>> \in R}
<1>1. P \in SUBSET (S \ {x})
  BY DEF Orders
<1>2. IsFiniteSet(S \ {x}) /\ Cardinality(S \ {x}) = Cardinality(S) - 1
  BY FS_RemoveElement
<1>3. IsFiniteSet(P) /\ Cardinality(P) <= Cardinality(S \ {x})
  BY <1>1, <1>2, FS_Subset
<1>4. Cardinality(P) \in Nat /\ Cardinality(S) \in Nat
  BY <1>3, FS_CardinalityType
<1> QED
  BY <1>2, <1>3, <1>4 DEF Rank

\* What comes earlier has the smaller rank.
LEMMA RankMonotone ==
  ASSUME NEW S, IsFiniteSet(S), NEW R, Orders(R, S), NEW x \in S, NEW y \in S, <<x, y>> \in R
  PROVE  Rank(R, S, x) < Rank(R, S, y)
<1> DEFINE P == {z \in S : <<z, x>> \in R}
           Q == {z \in S : <<z, y>> \in R}
<1>1. P \in SUBSET S /\ Q \in SUBSET S
  OBVIOUS
<1>2. IsFiniteSet(P) /\ IsFiniteSet(Q)
  BY <1>1, FS_Subset
<1>3. P \in SUBSET Q /\ P # Q
  BY DEF Orders
<1>4. Cardinality(P) <= Cardinality(Q) /\ Cardinality(P) # Cardinality(Q)
  BY <1>2, <1>3, FS_Subset
<1>5. Cardinality(P) \in Nat /\ Cardinality(Q) \in Nat
  BY <1>2, FS_CardinalityType
<1> QED
  BY <1>4, <1>5 DEF Rank

\* Every place below the size of the set is the rank of one member.
LEMMA RankBijective ==
  ASSUME NEW S, IsFiniteSet(S), NEW R, Orders(R, S)
  PROVE  /\ \A x, y \in S : Rank(R, S, x) = Rank(R, S, y) => x = y
         /\ \A k \in 0..(Cardinality(S) - 1) : \E x \in S : Rank(R, S, x) = k
<1> DEFINE n == Cardinality(S)
           T == 0..(n - 1)
           f == [x \in S |-> Rank(R, S, x)]
<1>0. n \in Nat
  BY FS_CardinalityType
<1>1. \A x \in S : Rank(R, S, x) \in T
  BY RankType
<1>2. \A x, y \in S : Rank(R, S, x) = Rank(R, S, y) => x = y
  <2> SUFFICES ASSUME NEW x \in S, NEW y \in S, Rank(R, S, x) = Rank(R, S, y), x # y PROVE FALSE
    OBVIOUS
  <2>1. <<x, y>> \in R \/ <<y, x>> \in R
    BY DEF Orders
  <2>2. Rank(R, S, x) < Rank(R, S, y) \/ Rank(R, S, y) < Rank(R, S, x)
    BY <2>1, RankMonotone
  <2>3. Rank(R, S, x) \in Int /\ Rank(R, S, y) \in Int
    BY <1>0, <1>1
  <2> QED
    BY <2>2, <2>3
<1>3. f \in Injection(S, T)
  BY <1>1, <1>2 DEF Injection, IsInjective
<1>4. IsFiniteSet(T) /\ Cardinality(T) = n
  BY <1>0, FS_Interval
<1>5. f \in Surjection(S, T)
  BY <1>3, <1>4, FS_Injection
<1>6. \A k \in T : \E x \in S : f[x] = k
  BY <1>5 DEF Surjection
<1> QED
  BY <1>2, <1>6

\* The member in the k-th place.
LEMMA RankOnto ==
  ASSUME NEW S, IsFiniteSet(S), NEW R, Orders(R, S), NEW k \in 1..Cardinality(S)
  PROVE  \E x \in S : Rank(R, S, x) = k - 1
<1>1. \A j \in 0..(Cardinality(S) - 1) : \E x \in S : Rank(R, S, x) = j
  BY RankBijective
<1>2. k - 1 \in 0..(Cardinality(S) - 1)
  BY FS_CardinalityType
<1> QED
  BY <1>1, <1>2

-----------------------------------------------------------------------------
(* Sorting.                                                                 *)

\* Entry i comes before entry j when sorted by the keys K.
Earlier(K, i, j) == K[i] < K[j] \/ (K[i] = K[j] /\ i < j)

\* The place that entry i takes among n.
PlaceOf(n, K, i) == Cardinality({j \in 1..n : Earlier(K, j, i)}) + 1

\* Sorting gives every place to one entry, the earlier place to the earlier one.
LEMMA SortPlaces ==
  ASSUME NEW n \in Nat, NEW K, \A i \in 1..n : K[i] \in Int
  PROVE  /\ \A k \in 1..n : \E i \in 1..n : PlaceOf(n, K, i) = k
         /\ \A i, j \in 1..n : PlaceOf(n, K, i) < PlaceOf(n, K, j) => Earlier(K, i, j)
<1> DEFINE S == 1..n
           R == {e \in S \X S : Earlier(K, e[1], e[2])}
<1>1. \A i, j \in S : <<j, i>> \in R <=> Earlier(K, j, i)
  OBVIOUS
<1>2. \A i \in S : {j \in S : <<j, i>> \in R} = {j \in S : Earlier(K, j, i)}
  BY <1>1
<1>3. \A i \in S : PlaceOf(n, K, i) = Rank(R, S, i) + 1
  BY <1>2 DEF Rank, PlaceOf
<1> HIDE DEF R
<1>4. Orders(R, S)
  <2>1. \A i \in S : ~Earlier(K, i, i)
    BY DEF Earlier
  <2>2. \A i, j \in S : i # j => Earlier(K, i, j) \/ Earlier(K, j, i)
    BY DEF Earlier
  <2>3. \A i, j, k \in S : Earlier(K, i, j) /\ Earlier(K, j, k) => Earlier(K, i, k)
    BY DEF Earlier
  <2> QED
    BY <1>1, <2>1, <2>2, <2>3 DEF Orders
<1>5. IsFiniteSet(S) /\ Cardinality(S) = n
  BY FS_Interval
<1>6. \A i \in S : Rank(R, S, i) \in Int
  BY <1>4, <1>5, RankType
<1>7. \A k \in S : \E i \in S : Rank(R, S, i) = k - 1
  BY <1>4, <1>5, RankBijective
<1>8. \A k \in S : \E i \in S : PlaceOf(n, K, i) = k
  <2> TAKE k \in S
  <2>1. PICK i \in S : Rank(R, S, i) = k - 1
    BY <1>7
  <2>2. PlaceOf(n, K, i) = (k - 1) + 1
    BY <1>3, <2>1
  <2> QED
    BY <2>2
<1>9. ASSUME NEW i \in S, NEW j \in S, PlaceOf(n, K, i) < PlaceOf(n, K, j) PROVE Earlier(K, i, j)
  <2>1. Rank(R, S, i) < Rank(R, S, j)
    BY <1>3, <1>6, <1>9
  <2>2. i # j
    BY <1>6, <2>1
  <2>3. ASSUME <<j, i>> \in R PROVE FALSE
    <3>1. Rank(R, S, j) < Rank(R, S, i)
      BY <1>4, <1>5, <2>3, RankMonotone
    <3> QED
      BY <1>6, <2>1, <3>1
  <2>4. <<i, j>> \in R
    BY <1>4, <2>2, <2>3 DEF Orders
  <2> QED
    BY <1>1, <2>4
<1> QED
  BY <1>8, <1>9

\* p lists the n entries in the order of their keys, equal ones as they came.
Sorts(p, n, K) ==
  /\ p \in [1..n -> 1..n]
  /\ \A j, k \in 1..n : j < k => Earlier(K, p[j], p[k])

\* What holds of every list of places.
LEMMA SortedPlaces ==
  ASSUME NEW n \in Nat, NEW K, \A i \in 1..n : K[i] \in Int,
         NEW p, DOMAIN p = 1..n, p = [k \in 1..n |-> p[k]],
         \A k \in 1..n : p[k] \in 1..n /\ PlaceOf(n, K, p[k]) = k
  PROVE  Sorts(p, n, K)
  BY SortPlaces DEF Sorts

\* sort((a, b) => a.sortOrder - b.sortOrder)
LEMMA ByOrderSorts ==
  ASSUME NEW s, NEW n \in Nat, DOMAIN s = 1..n, \A i \in 1..n : s[i].sortOrder \in Int
  PROVE  \E p : /\ Sorts(p, n, [i \in 1..n |-> s[i].sortOrder])
                /\ ByOrder(s) = [k \in 1..n |-> s[p[k]]]
<1> DEFINE K == [i \in 1..n |-> s[i].sortOrder]
           Place(i) == Cardinality({j \in 1..n : s[j].sortOrder < s[i].sortOrder \/ (s[j].sortOrder = s[i].sortOrder /\ j < i)}) + 1
           p == [k \in 1..n |-> CHOOSE i \in 1..n : Place(i) = k]
<1>1. ByOrder(s) = [k \in 1..n |-> s[p[k]]]
  BY DEF ByOrder, StableSort
<1>2. \A i \in 1..n : Place(i) = PlaceOf(n, K, i)
  <2> TAKE i \in 1..n
  <2>1. {j \in 1..n : s[j].sortOrder < s[i].sortOrder \/ (s[j].sortOrder = s[i].sortOrder /\ j < i)}
          = {j \in 1..n : Earlier(K, j, i)}
    BY DEF Earlier
  <2> QED
    BY <2>1 DEF PlaceOf
<1> HIDE DEF Place
<1>3. \A i \in 1..n : K[i] \in Int
  OBVIOUS
<1> HIDE DEF K
<1>4. \A k \in 1..n : \E i \in 1..n : Place(i) = k
  <2>1. \A k \in 1..n : \E i \in 1..n : PlaceOf(n, K, i) = k
    BY <1>3, SortPlaces
  <2> QED
    BY <1>2, <2>1
<1>5. \A k \in 1..n : p[k] \in 1..n /\ Place(p[k]) = k
  BY <1>4
<1>6. DOMAIN p = 1..n /\ p = [k \in 1..n |-> p[k]]
  OBVIOUS
<1> HIDE DEF p
<1>7. Sorts(p, n, K)
  BY <1>2, <1>3, <1>5, <1>6, SortedPlaces
<1> QED
  BY <1>1, <1>7 DEF K

\* Every severity has a rank.
LEMMA SeverityRanked == \A f : f.severity \in DOMAIN SEVERITY_RANK => SEVERITY_RANK[f.severity] \in Int
  BY DEF SEVERITY_RANK

\* The same for the ranks of the severities.
LEMMA BySeveritySorts ==
  ASSUME NEW s, NEW n \in Nat, DOMAIN s = 1..n, \A i \in 1..n : s[i].severity \in DOMAIN SEVERITY_RANK
  PROVE  \E p : /\ Sorts(p, n, [i \in 1..n |-> SEVERITY_RANK[s[i].severity]])
                /\ BySeverity(s) = [k \in 1..n |-> s[p[k]]]
<1> DEFINE key(i) == SEVERITY_RANK[s[i].severity]
           K == [i \in 1..n |-> key(i)]
           Place(i) == Cardinality({j \in 1..n : key(j) < key(i) \/ (key(j) = key(i) /\ j < i)}) + 1
           p == [k \in 1..n |-> CHOOSE i \in 1..n : Place(i) = k]
<1>1. BySeverity(s) = [k \in 1..n |-> s[p[k]]]
  BY DEF BySeverity, StableSort
<1>3. \A i \in 1..n : K[i] \in Int
  BY SeverityRanked
<1> HIDE DEF key
<1>2. \A i \in 1..n : Place(i) = PlaceOf(n, K, i)
  <2> TAKE i \in 1..n
  <2>1. {j \in 1..n : key(j) < key(i) \/ (key(j) = key(i) /\ j < i)}
          = {j \in 1..n : Earlier(K, j, i)}
    BY DEF Earlier
  <2> QED
    BY <2>1 DEF PlaceOf
<1> HIDE DEF Place, K
<1>4. \A k \in 1..n : \E i \in 1..n : Place(i) = k
  <2>1. \A k \in 1..n : \E i \in 1..n : PlaceOf(n, K, i) = k
    BY <1>3, SortPlaces
  <2> QED
    BY <1>2, <2>1
<1>5. \A k \in 1..n : p[k] \in 1..n /\ Place(p[k]) = k
  BY <1>4
<1>6. DOMAIN p = 1..n /\ p = [k \in 1..n |-> p[k]]
  OBVIOUS
<1> HIDE DEF p
<1>7. Sorts(p, n, K)
  BY <1>2, <1>3, <1>5, <1>6, SortedPlaces
<1> QED
  BY <1>1, <1>7 DEF K, key

-----------------------------------------------------------------------------
(* Arrays, and filtering them.                                              *)

\* A function on 1..n is an array of length n.
LEMMA ArrayLength ==
  ASSUME NEW n \in Nat, NEW f, f = [k \in 1..n |-> f[k]]
  PROVE  Len(f) = n /\ DOMAIN f = 1..n /\ (f = <<>> <=> n = 0)
<1> DEFINE S == {f[k] : k \in 1..n}
<1>1. f \in [1..n -> S]
  OBVIOUS
<1>2. f \in Seq(S)
  BY <1>1, SeqDef
<1>3. Len(f) \in Nat /\ DOMAIN f = 1..Len(f) /\ DOMAIN f = 1..n
  BY <1>1, <1>2, LenProperties
<1>4. Len(f) = n
  BY <1>3
<1>5. f # <<>> => n # 0
  BY <1>2, <1>4, EmptySeq
<1>6. f = <<>> => n = 0
  BY <1>4, EmptySeq
<1> QED
  BY <1>3, <1>4, <1>5, <1>6

\* The same of what JSON.parse returns.
LEMMA ParsedArray ==
  ASSUME NEW s, IsArray(s)
  PROVE  Len(s) \in Nat /\ DOMAIN s = 1..Len(s) /\ (s = <<>> <=> Len(s) = 0)
  BY ArrayLength DEF IsArray

\* The k-th of the kept positions.
Nth(kept, k) == CHOOSE i \in kept : Cardinality({j \in kept : j < i}) = k - 1

\* Filtering lists every kept position once, in order.
LEMMA NthKept ==
  ASSUME NEW n \in Nat, NEW kept \in SUBSET (1..n)
  PROVE  /\ IsFiniteSet(kept) /\ Cardinality(kept) \in Nat
         /\ \A k \in 1..Cardinality(kept) : Nth(kept, k) \in kept
         /\ \A k \in 1..Cardinality(kept) : Cardinality({j \in kept : j < Nth(kept, k)}) = k - 1
         /\ \A i \in kept : \E k \in 1..Cardinality(kept) : Nth(kept, k) = i
         /\ \A i, j \in kept : Cardinality({l \in kept : l < i}) = Cardinality({l \in kept : l < j}) => i = j
<1> DEFINE R == {e \in kept \X kept : e[1] < e[2]}
           below(i) == Cardinality({j \in kept : j < i})
<1>1. IsFiniteSet(kept) /\ Cardinality(kept) \in Nat
  <2>1. IsFiniteSet(1..n)
    BY FS_Interval
  <2>2. IsFiniteSet(kept)
    BY <2>1, FS_Subset
  <2> QED
    BY <2>2, FS_CardinalityType
<1>2. \A i, j \in kept : <<j, i>> \in R <=> j < i
  OBVIOUS
<1>3. \A i \in kept : {j \in kept : <<j, i>> \in R} = {j \in kept : j < i}
  BY <1>2
<1>4. \A i \in kept : Rank(R, kept, i) = below(i)
  BY <1>3 DEF Rank
<1>5. Orders(R, kept)
  <2>1. \A i \in kept : i \in Int
    OBVIOUS
  <2> HIDE DEF R
  <2> QED
    BY <1>2, <2>1 DEF Orders
<1> HIDE DEF R, below
<1>6. \A i, j \in kept : below(i) = below(j) => i = j
  BY <1>1, <1>4, <1>5, RankBijective
<1>7. \A k \in 1..Cardinality(kept) : \E i \in kept : below(i) = k - 1
  <2> TAKE k \in 1..Cardinality(kept)
  <2>2. \E i \in kept : Rank(R, kept, i) = k - 1
    BY <1>1, <1>5, RankOnto
  <2> QED
    BY <1>4, <2>2
<1>8. \A k \in 1..Cardinality(kept) : Nth(kept, k) \in kept /\ below(Nth(kept, k)) = k - 1
  BY <1>7 DEF Nth, below
<1>9. \A i \in kept : \E k \in 1..Cardinality(kept) : Nth(kept, k) = i
  <2> TAKE i \in kept
  <2>1. Rank(R, kept, i) \in 0..(Cardinality(kept) - 1)
    BY <1>1, <1>5, RankType
  <2>2. below(i) + 1 \in 1..Cardinality(kept) /\ (below(i) + 1) - 1 = below(i)
    BY <1>1, <1>4, <2>1
  <2>3. Nth(kept, below(i) + 1) = i
    BY <1>6, <1>8, <2>2
  <2> QED
    BY <2>2, <2>3
<1> QED
  BY <1>1, <1>6, <1>8, <1>9 DEF below

\* Keeping every position keeps them where they are.
LEMMA NthOfAll ==
  ASSUME NEW n \in Nat
  PROVE  Cardinality(1..n) = n /\ \A k \in 1..n : Nth(1..n, k) = k
<1>1. Cardinality(1..n) = n
  BY FS_Interval
<1>2. ASSUME NEW k \in 1..n PROVE Nth(1..n, k) = k
  <2>1. {j \in 1..n : j < k} = 1..(k - 1)
    OBVIOUS
  <2>2. Cardinality(1..(k - 1)) = k - 1
    BY FS_Interval
  <2>3. 1..n \in SUBSET (1..n) /\ k \in 1..Cardinality(1..n)
    BY <1>1
  <2>4. Nth(1..n, k) \in 1..n /\ Cardinality({j \in 1..n : j < Nth(1..n, k)}) = k - 1
    BY <2>3, NthKept
  <2>5. \A i, j \in 1..n : Cardinality({l \in 1..n : l < i}) = Cardinality({l \in 1..n : l < j}) => i = j
    BY <2>3, NthKept
  <2> QED
    BY <2>1, <2>2, <2>4, <2>5
<1> QED
  BY <1>1, <1>2

-----------------------------------------------------------------------------
(* Rows, and reading them in order.                                         *)

\* As many rows as were numbered.
LEMMA NumberedRows ==
  ASSUME NEW n \in Nat, NEW g, \A k \in 1..n : g[k].sortOrder = k - 1
  PROVE  IsFiniteSet({g[k] : k \in 1..n}) /\ Cardinality({g[k] : k \in 1..n}) = n
<1> DEFINE T == {g[k] : k \in 1..n}
           f == [k \in 1..n |-> g[k]]
<1>1. f \in [1..n -> T] /\ (\A x, y \in 1..n : f[x] = f[y] => x = y) /\ (\A t \in T : \E k \in 1..n : f[k] = t)
  OBVIOUS
<1>2. f \in Bijection(1..n, T)
  BY <1>1 DEF Bijection, Injection, Surjection, IsInjective
<1>3. IsFiniteSet(1..n) /\ Cardinality(1..n) = n
  BY FS_Interval
<1> QED
  BY <1>2, <1>3, FS_Bijection DEF ExistsBijection

\* Rows that are numbered from zero are read as they were numbered.
LEMMA ReadInOrder ==
  ASSUME NEW n \in Nat, NEW g, g = [k \in 1..n |-> g[k]], \A k \in 1..n : g[k].sortOrder = k - 1
  PROVE  InOrder({g[k] : k \in 1..n}) = g
<1> DEFINE T == {g[k] : k \in 1..n}
           below(r) == Cardinality({q \in T : q.sortOrder < r.sortOrder})
           place(k) == CHOOSE r \in T : below(r) = k - 1
<1>1. Cardinality(T) = n
  BY NumberedRows
<1>2. InOrder(T) = [k \in 1..n |-> place(k)]
  BY <1>1 DEF InOrder
<1>3. ASSUME NEW k \in 1..n PROVE below(g[k]) = k - 1
  <2>1. k - 1 \in Nat /\ \A j \in 1..(k - 1) : g[j].sortOrder = j - 1
    OBVIOUS
  <2>2. {q \in T : q.sortOrder < g[k].sortOrder} = {g[j] : j \in 1..(k - 1)}
    OBVIOUS
  <2>3. Cardinality({g[j] : j \in 1..(k - 1)}) = k - 1
    BY <2>1, NumberedRows
  <2> QED
    BY <2>2, <2>3
<1>4. \A k \in 1..n : g[k] \in T
  OBVIOUS
<1>5. \A r \in T : \E k \in 1..n : r = g[k]
  OBVIOUS
<1> HIDE DEF below, T
<1>6. ASSUME NEW k \in 1..n PROVE place(k) = g[k]
  <2>1. place(k) \in T /\ below(place(k)) = k - 1
    BY <1>3, <1>4
  <2>2. PICK j \in 1..n : place(k) = g[j]
    BY <1>5, <2>1
  <2>3. j - 1 = k - 1
    BY <1>3, <2>1, <2>2
  <2>4. j = k
    BY <2>3
  <2> QED
    BY <2>2, <2>4
<1> HIDE DEF place
<1>7. [k \in 1..n |-> place(k)] = [k \in 1..n |-> g[k]]
  BY <1>6
<1> QED
  BY <1>2, <1>7 DEF T

\* What the API answers from a stored tree.
DtoOf(t) ==
  [s \in 1..Len(t) |->
     [title |-> t[s].title, sortOrder |-> s - 1,
      findings |-> [i \in 1..Len(t[s].findings) |->
                      [text |-> t[s].findings[i].text, severity |-> TO_API[t[s].findings[i].severity],
                       sortOrder |-> i - 1]]]]

\* What is printed from it.
ViewOf(t) ==
  [s \in 1..Len(t) |->
     [title |-> t[s].title,
      findings |-> [i \in 1..Len(t[s].findings) |->
                      [text |-> t[s].findings[i].text, severity |-> TO_API[t[s].findings[i].severity]]]]]

\* The rows of a tree are read back in the tree's order.
LEMMA StoredRead ==
  ASSUME NEW t, IsTree(t), NEW v, NEW b
  PROVE  /\ JobToDto(InsertSections(v, b, t)) = DtoOf(t)
         /\ ToReportView(ExistingReport(InsertSections(v, b, t))) = ViewOf(t)
         /\ InsertSections(v, b, t) = {} <=> Len(t) = 0
<1> DEFINE n == Len(t)
           m(s) == Len(t[s].findings)
           h(s) == [i \in 1..m(s) |-> [text      |-> t[s].findings[i].text,
                                       severity  |-> t[s].findings[i].severity,
                                       sortOrder |-> i - 1]]
           F(s) == {h(s)[i] : i \in 1..m(s)}
           g == [s \in 1..n |-> [write |-> v, bare |-> b, title |-> t[s].title,
                                 sortOrder |-> s - 1, findings |-> F(s)]]
           T == InsertSections(v, b, t)
<1>1. n \in Nat /\ DOMAIN t = 1..n
  BY ParsedArray DEF IsTree
<1>2. \A s \in 1..n : m(s) \in Nat /\ DOMAIN t[s].findings = 1..m(s)
  BY <1>1, ParsedArray DEF IsTree
<1>3. \A s \in 1..n : InOrder(F(s)) = h(s)
  <2> TAKE s \in 1..n
  <2>1. m(s) \in Nat /\ h(s) = [i \in 1..m(s) |-> h(s)[i]] /\ \A i \in 1..m(s) : h(s)[i].sortOrder = i - 1
    BY <1>2
  <2> HIDE DEF h, m
  <2> QED
    BY <2>1, ReadInOrder
<1>4. \A s \in 1..n : F(s) = {[text      |-> t[s].findings[i].text,
                               severity  |-> t[s].findings[i].severity,
                               sortOrder |-> i - 1] : i \in DOMAIN t[s].findings}
  BY <1>2
<1>5. \A s \in 1..n : h(s) = [i \in 1..m(s) |-> h(s)[i]] /\ \A i \in 1..m(s) :
        /\ h(s)[i].text = t[s].findings[i].text /\ h(s)[i].severity = t[s].findings[i].severity
        /\ h(s)[i].sortOrder = i - 1
  OBVIOUS
<1>6. \A s \in 1..n : DOMAIN h(s) = 1..m(s)
  OBVIOUS
<1> HIDE DEF F, h, m
<1>7. T = {g[s] : s \in 1..n}
  <2> DEFINE f(s) == {[text      |-> t[s].findings[i].text,
                       severity  |-> t[s].findings[i].severity,
                       sortOrder |-> i - 1] : i \in DOMAIN t[s].findings}
             row(s) == [write |-> v, bare |-> b, title |-> t[s].title, sortOrder |-> s - 1, findings |-> f(s)]
  <2>1. T = {row(s) : s \in 1..n}
    BY <1>1 DEF InsertSections
  <2>2. \A s \in 1..n : F(s) = f(s)
    BY <1>4
  <2> HIDE DEF f
  <2>3. \A s \in 1..n : row(s) = g[s]
    BY <2>2
  <2> HIDE DEF row, g, T
  <2> QED
    BY <2>1, <2>3
<1>8. /\ g = [s \in 1..n |-> g[s]]
      /\ \A s \in 1..n : g[s].sortOrder = s - 1 /\ g[s].title = t[s].title /\ g[s].findings = F(s)
  OBVIOUS
<1> HIDE DEF g, T, n
<1>9. InOrder(T) = g
  BY <1>1, <1>7, <1>8, ReadInOrder
<1>10. JobToDto(T) = DtoOf(t)
  <2>1. JobToDto(T) = [s \in 1..n |->
          [title |-> g[s].title, sortOrder |-> g[s].sortOrder,
           findings |-> [i \in DOMAIN InOrder(g[s].findings) |->
              [text |-> InOrder(g[s].findings)[i].text, severity |-> TO_API[InOrder(g[s].findings)[i].severity],
               sortOrder |-> InOrder(g[s].findings)[i].sortOrder]]]]
    BY <1>8, <1>9 DEF JobToDto, Mapped
  <2>2. \A s \in 1..n : [i \in DOMAIN InOrder(g[s].findings) |->
              [text |-> InOrder(g[s].findings)[i].text, severity |-> TO_API[InOrder(g[s].findings)[i].severity],
               sortOrder |-> InOrder(g[s].findings)[i].sortOrder]] =
           [i \in 1..m(s) |->
              [text |-> t[s].findings[i].text, severity |-> TO_API[t[s].findings[i].severity],
               sortOrder |-> i - 1]]
    <3> TAKE s \in 1..n
    <3>1. InOrder(g[s].findings) = h(s)
      BY <1>3, <1>8
    <3>2. DOMAIN h(s) = 1..m(s)
      BY <1>6
    <3> QED
      BY <1>5, <3>1, <3>2
  <2> QED
    BY <1>8, <2>1, <2>2 DEF DtoOf, n, m
<1>11. ToReportView(ExistingReport(T)) = ViewOf(t)
  <2> DEFINE e == [s \in 1..n |->
          [title |-> t[s].title,
           findings |-> [i \in 1..m(s) |->
              [text |-> t[s].findings[i].text, severity |-> t[s].findings[i].severity]]]]
  <2>1. ExistingReport(T) = [s \in 1..n |->
          [title |-> g[s].title,
           findings |-> [i \in DOMAIN InOrder(g[s].findings) |->
              [text |-> InOrder(g[s].findings)[i].text, severity |-> InOrder(g[s].findings)[i].severity]]]]
    BY <1>8, <1>9 DEF ExistingReport, Mapped
  <2>2. \A s \in 1..n : [i \in DOMAIN InOrder(g[s].findings) |->
              [text |-> InOrder(g[s].findings)[i].text, severity |-> InOrder(g[s].findings)[i].severity]] =
           [i \in 1..m(s) |->
              [text |-> t[s].findings[i].text, severity |-> t[s].findings[i].severity]]
    <3> TAKE s \in 1..n
    <3>1. InOrder(g[s].findings) = h(s)
      BY <1>3, <1>8
    <3>2. DOMAIN h(s) = 1..m(s)
      BY <1>6
    <3> QED
      BY <1>5, <3>1, <3>2
  <2>3. ExistingReport(T) = e
    BY <1>8, <2>1, <2>2
  <2>4. ToReportView(e) = [s \in 1..n |->
          [title |-> e[s].title,
           findings |-> [i \in DOMAIN e[s].findings |->
              [text |-> e[s].findings[i].text, severity |-> TO_API[e[s].findings[i].severity]]]]]
    BY DEF ToReportView, Mapped
  <2>5. \A s \in 1..n : [i \in DOMAIN e[s].findings |->
              [text |-> e[s].findings[i].text, severity |-> TO_API[e[s].findings[i].severity]]] =
            [i \in 1..m(s) |->
              [text |-> t[s].findings[i].text, severity |-> TO_API[t[s].findings[i].severity]]]
    OBVIOUS
  <2>6. \A s \in 1..n : e[s].title = t[s].title
    OBVIOUS
  <2> HIDE DEF e
  <2> QED
    BY <2>3, <2>4, <2>5, <2>6 DEF ViewOf, n, m
<1>12. T = {} <=> n = 0
  <2>1. n # 0 => 1 \in 1..n
    BY <1>1
  <2>2. n = 0 => 1..n = {}
    BY <1>1
  <2> QED
    BY <1>7, <2>1, <2>2
<1> QED
  BY <1>10, <1>11, <1>12 DEF n, T

-----------------------------------------------------------------------------
(* An edited report.                                                        *)

\* The severities of the API and of the rows correspond.
LEMMA Severities ==
  /\ \A x \in API_SEVERITIES : FROM_API[x] \in DOMAIN TO_API /\ TO_API[FROM_API[x]] = x
  /\ \A x \in DOMAIN TO_API : TO_API[x] \in API_SEVERITIES
  BY DEF API_SEVERITIES, FROM_API, TO_API

\* What is stored of a section's findings, and what the API answers from that.
EditFindings(f) ==
  [j \in DOMAIN ByOrder(f) |->
     [text |-> ByOrder(f)[j].text, severity |-> FROM_API[ByOrder(f)[j].severity]]]

FindingsDto(d) ==
  [i \in 1..Len(d) |-> [text |-> d[i].text, severity |-> TO_API[d[i].severity], sortOrder |-> i - 1]]

\* The findings of one section read back in the client's order.
EditedFindings(out, in) ==
  LET Order(r) == r.sortOrder
      SameFinding(d, f) == d.text = f.text /\ d.severity = f.severity
  IN  Rearranges(out, in, SameFinding, Order)

LEMMA EditFindingsRead ==
  ASSUME NEW f, IsArray(f), \A j \in DOMAIN f : f[j].sortOrder \in Nat /\ f[j].severity \in API_SEVERITIES
  PROVE  /\ IsArray(EditFindings(f)) /\ DOMAIN EditFindings(f) = 1..Len(EditFindings(f))
         /\ \A j \in DOMAIN EditFindings(f) : EditFindings(f)[j].severity \in DOMAIN TO_API
         /\ EditedFindings(FindingsDto(EditFindings(f)), f)
<1> DEFINE m == Len(f)
           K == [i \in 1..m |-> f[i].sortOrder]
           e == EditFindings(f)
           d == FindingsDto(e)
<1>1. m \in Nat /\ DOMAIN f = 1..m
  BY ParsedArray
<1>2. PICK q : Sorts(q, m, K) /\ ByOrder(f) = [k \in 1..m |-> f[q[k]]]
  <2>1. \A i \in 1..m : f[i].sortOrder \in Int
    BY <1>1
  <2> QED
    BY <1>1, <2>1, ByOrderSorts
<1>3. \A k \in 1..m : q[k] \in 1..m
  BY <1>2 DEF Sorts
<1>4. e = [j \in 1..m |-> [text |-> f[q[j]].text, severity |-> FROM_API[f[q[j]].severity]]]
  BY <1>2 DEF EditFindings
<1> HIDE DEF e, m
<1>5. Len(e) = m /\ DOMAIN e = 1..m
  <2>1. e = [j \in 1..m |-> e[j]]
    BY <1>4
  <2> QED
    BY <1>1, <2>1, ArrayLength
<1>6. \A j \in 1..m : e[j].text = f[q[j]].text /\ e[j].severity = FROM_API[f[q[j]].severity]
  BY <1>4
<1>7. IsArray(e)
  BY <1>1, <1>4, <1>5 DEF IsArray
<1>8. \A j \in 1..m : e[j].severity \in DOMAIN TO_API /\ TO_API[e[j].severity] = f[q[j]].severity
  BY <1>1, <1>3, <1>6, Severities
<1>9. d = [j \in 1..m |-> [text |-> f[q[j]].text, severity |-> f[q[j]].severity, sortOrder |-> j - 1]]
  BY <1>5, <1>6, <1>8 DEF FindingsDto
<1> HIDE DEF d
<1>10. Len(d) = m /\ DOMAIN d = 1..m
  <2>1. d = [j \in 1..m |-> d[j]]
    BY <1>9
  <2> QED
    BY <1>1, <2>1, ArrayLength
<1>11. EditedFindings(d, f)
  <2>1. q \in [DOMAIN d -> DOMAIN f]
    BY <1>1, <1>2, <1>10 DEF Sorts
  <2>2. \A j \in DOMAIN d : d[j].text = f[q[j]].text /\ d[j].severity = f[q[j]].severity
    BY <1>9, <1>10
  <2>3. \A j, k \in DOMAIN d : j < k =>
          \/ f[q[j]].sortOrder < f[q[k]].sortOrder
          \/ f[q[j]].sortOrder = f[q[k]].sortOrder /\ q[j] < q[k]
    <3>1. \A j, k \in DOMAIN d : j < k => Earlier(K, q[j], q[k])
      BY <1>2, <1>10 DEF Sorts
    <3>2. \A i \in 1..m : K[i] = f[i].sortOrder
      OBVIOUS
    <3> HIDE DEF K
    <3> TAKE j, k \in DOMAIN d
    <3> HAVE j < k
    <3>3. K[q[j]] = f[q[j]].sortOrder /\ K[q[k]] = f[q[k]].sortOrder
      BY <1>3, <1>10, <3>2
    <3>4. Earlier(K, q[j], q[k])
      BY <3>1
    <3> QED
      BY <3>3, <3>4 DEF Earlier
  <2> QED
    BY <1>10, <2>1, <2>2, <2>3 DEF EditedFindings, Rearranges, m
<1> QED
  BY <1>5, <1>7, <1>8, <1>11 DEF e, d

\* A tree as the rows hold it.
RowTree(t) ==
  IsTree(t) /\ \A i \in DOMAIN t : \A j \in DOMAIN t[i].findings : t[i].findings[j].severity \in DOMAIN TO_API

\* The report reads back as the client numbered it.
EditedAs(dto, sections) ==
  LET Order(r) == r.sortOrder
      SameFinding(d, f) == d.text = f.text /\ d.severity = f.severity
      Same(d, s) == d.title = s.title /\ Rearranges(d.findings, s.findings, SameFinding, Order)
  IN  Rearranges(dto, sections, Same, Order)

LEMMA EditRead ==
  ASSUME NEW sections, IsTree(sections), UpdateJobDto(sections)
  PROVE  RowTree(ToReportInput(sections)) /\ EditedAs(DtoOf(ToReportInput(sections)), sections)
<1> DEFINE n == Len(sections)
           K == [i \in 1..n |-> sections[i].sortOrder]
           t == ToReportInput(sections)
           d == DtoOf(t)
<1>1. n \in Nat /\ DOMAIN sections = 1..n
  BY ParsedArray DEF IsTree
<1>2. PICK p : Sorts(p, n, K) /\ ByOrder(sections) = [k \in 1..n |-> sections[p[k]]]
  <2>1. \A i \in 1..n : sections[i].sortOrder \in Int
    BY <1>1 DEF UpdateJobDto
  <2> QED
    BY <1>1, <2>1, ByOrderSorts
<1>3. \A k \in 1..n : p[k] \in 1..n
  BY <1>2 DEF Sorts
<1>4. t = [k \in 1..n |-> [title |-> sections[p[k]].title, findings |-> EditFindings(sections[p[k]].findings)]]
  BY <1>2 DEF ToReportInput, Mapped, EditFindings
<1>5. ASSUME NEW k \in 1..n
      PROVE  LET f == sections[k].findings IN
             /\ IsArray(EditFindings(f)) /\ DOMAIN EditFindings(f) = 1..Len(EditFindings(f))
             /\ \A j \in DOMAIN EditFindings(f) : EditFindings(f)[j].severity \in DOMAIN TO_API
             /\ EditedFindings(FindingsDto(EditFindings(f)), f)
  <2>1. IsArray(sections[k].findings)
    BY <1>1 DEF IsTree
  <2>2. \A j \in DOMAIN sections[k].findings :
          sections[k].findings[j].sortOrder \in Nat /\ sections[k].findings[j].severity \in API_SEVERITIES
    BY <1>1 DEF UpdateJobDto
  <2> QED
    BY <2>1, <2>2, EditFindingsRead
<1> HIDE DEF t, n
<1>6. Len(t) = n /\ DOMAIN t = 1..n
  <2>1. t = [j \in 1..n |-> t[j]]
    BY <1>4
  <2> QED
    BY <1>1, <2>1, ArrayLength
<1>7. \A k \in 1..n : t[k].title = sections[p[k]].title /\ t[k].findings = EditFindings(sections[p[k]].findings)
  BY <1>4
<1>8. RowTree(t)
  <2>1. IsArray(t)
    BY <1>1, <1>4, <1>6 DEF IsArray
  <2> QED
    BY <1>3, <1>5, <1>6, <1>7, <2>1 DEF RowTree, IsTree
<1>9. d = [k \in 1..n |-> [title |-> t[k].title, sortOrder |-> k - 1, findings |-> FindingsDto(t[k].findings)]]
  BY <1>6 DEF DtoOf, FindingsDto
<1>10. \A k \in 1..n : d[k].title = sections[p[k]].title /\ d[k].findings = FindingsDto(EditFindings(sections[p[k]].findings))
  BY <1>7, <1>9
<1> HIDE DEF d
<1>11. Len(d) = n /\ DOMAIN d = 1..n
  <2>1. d = [j \in 1..n |-> d[j]]
    BY <1>9
  <2> QED
    BY <1>1, <2>1, ArrayLength
<1>12. EditedAs(d, sections)
  <2>1. p \in [DOMAIN d -> DOMAIN sections]
    BY <1>1, <1>2, <1>11 DEF Sorts
  <2>2. \A j \in DOMAIN d : d[j].title = sections[p[j]].title /\ EditedFindings(d[j].findings, sections[p[j]].findings)
    BY <1>3, <1>5, <1>10, <1>11
  <2>3. \A j, k \in DOMAIN d : j < k =>
          \/ sections[p[j]].sortOrder < sections[p[k]].sortOrder
          \/ sections[p[j]].sortOrder = sections[p[k]].sortOrder /\ p[j] < p[k]
    <3>1. \A j, k \in DOMAIN d : j < k => Earlier(K, p[j], p[k])
      BY <1>2, <1>11 DEF Sorts
    <3>2. \A i \in 1..n : K[i] = sections[i].sortOrder
      OBVIOUS
    <3> HIDE DEF K
    <3> QED
      BY <1>3, <1>11, <3>1, <3>2 DEF Earlier
  <2>4. Len(d) = Len(sections)
    BY <1>11 DEF n
  <2> QED
    BY <2>1, <2>2, <2>3, <2>4 DEF EditedAs, EditedFindings, Rearranges
<1> QED
  BY <1>8, <1>12 DEF t, d

-----------------------------------------------------------------------------
(* A compiled report.                                                       *)

\* What is stored of a compiled section's findings.
NormFindings(f) ==
  LET Finding(x) == [text |-> Trim(x.text), severity |-> FROM_API[x.severity]]
  IN  BySeverity(Filter(Mapped(f, Finding), LAMBDA x : x.text.size > 0))

\* The findings of one section read back trimmed, the most severe first.
CompiledFindings(out, in) ==
  LET Same(d, f) == d.text = Trim(f.text) /\ d.severity = f.severity
      Severity(f) == CASE f.severity = "safety" -> 0 [] f.severity = "repair" -> 1
                       [] f.severity = "maintenance" -> 2 [] f.severity = "info" -> 3
  IN  Rearranges(out, in, Same, Severity)

\* The rank of the stored severity.
Severity(sev) ==
  CASE sev = "safety" -> 0 [] sev = "repair" -> 1 [] sev = "maintenance" -> 2 [] sev = "info" -> 3

LEMMA SeverityOfRow == \A x \in API_SEVERITIES :
    SEVERITY_RANK[FROM_API[x]] = Severity(x) /\ FROM_API[x] \in DOMAIN SEVERITY_RANK /\ Severity(x) \in Int
  BY DEF API_SEVERITIES, FROM_API, SEVERITY_RANK, Severity

LEMMA NormFindingsRead ==
  ASSUME NEW f, IsArray(f), \A j \in DOMAIN f : Fits(f[j].text, MaxText) /\ f[j].severity \in API_SEVERITIES
  PROVE  /\ IsArray(NormFindings(f)) /\ Len(NormFindings(f)) = Len(f)
         /\ DOMAIN NormFindings(f) = 1..Len(NormFindings(f))
         /\ \A j \in DOMAIN NormFindings(f) : NormFindings(f)[j].severity \in DOMAIN TO_API
         /\ CompiledFindings(FindingsDto(NormFindings(f)), f)
<1> DEFINE m == Len(f)
           a == [i \in DOMAIN f |-> [text |-> Trim(f[i].text), severity |-> FROM_API[f[i].severity]]]
           K == [i \in 1..m |-> SEVERITY_RANK[a[i].severity]]
           e == NormFindings(f)
           d == FindingsDto(e)
<1>1. m \in Nat /\ DOMAIN f = 1..m
  BY ParsedArray
<1>2. e = BySeverity(a)
  <2> DEFINE kept == {i \in DOMAIN a : a[i].text.size > 0}
             kth(k) == CHOOSE i \in kept : Cardinality({j \in kept : j < i}) = k - 1
  <2>1. e = BySeverity([k \in 1..Cardinality(kept) |-> a[kth(k)]])
    BY DEF NormFindings, Filter, Mapped
  <2>2. kept = 1..m
    BY <1>1 DEF Fits
  <2>3. \A k : kth(k) = Nth(kept, k)
    BY DEF Nth
  <2> HIDE DEF kept, kth, a
  <2>4. Cardinality(kept) = m /\ \A k \in 1..m : kth(k) = k
    BY <1>1, <2>2, <2>3, NthOfAll
  <2>5. [k \in 1..Cardinality(kept) |-> a[kth(k)]] = [k \in 1..m |-> a[k]]
    BY <2>4
  <2>6. [k \in 1..m |-> a[k]] = a
    BY <1>1 DEF a
  <2> QED
    BY <2>1, <2>5, <2>6
<1>3. \A i \in 1..m : /\ a[i].severity \in DOMAIN SEVERITY_RANK /\ a[i].severity \in DOMAIN TO_API
                      /\ K[i] = Severity(f[i].severity) /\ a[i].text = Trim(f[i].text)
                      /\ TO_API[a[i].severity] = f[i].severity
  BY <1>1, SeverityOfRow, Severities
<1>4. DOMAIN a = 1..m
  BY <1>1
<1> HIDE DEF a, e, m
<1>5. PICK q : Sorts(q, m, K) /\ e = [k \in 1..m |-> a[q[k]]]
  <2>1. \A i \in 1..m : a[i].severity \in DOMAIN SEVERITY_RANK
    BY <1>3
  <2>2. \E q : Sorts(q, m, K) /\ BySeverity(a) = [k \in 1..m |-> a[q[k]]]
    BY <1>1, <1>4, <2>1, BySeveritySorts
  <2> QED
    BY <1>2, <2>2
<1>6. \A k \in 1..m : q[k] \in 1..m
  BY <1>5 DEF Sorts
<1> HIDE DEF K
<1>7. Len(e) = m /\ DOMAIN e = 1..m
  <2>1. e = [j \in 1..m |-> e[j]]
    BY <1>5
  <2> QED
    BY <1>1, <2>1, ArrayLength
<1>8. \A j \in 1..m : /\ e[j].text = Trim(f[q[j]].text) /\ e[j].severity \in DOMAIN TO_API
                      /\ TO_API[e[j].severity] = f[q[j]].severity
  BY <1>3, <1>5, <1>6
<1>9. IsArray(e)
  BY <1>1, <1>5, <1>7 DEF IsArray
<1>10. d = [j \in 1..m |-> [text |-> Trim(f[q[j]].text), severity |-> f[q[j]].severity, sortOrder |-> j - 1]]
  BY <1>7, <1>8 DEF FindingsDto
<1> HIDE DEF d
<1>11. Len(d) = m /\ DOMAIN d = 1..m
  <2>1. d = [j \in 1..m |-> d[j]]
    BY <1>10
  <2> QED
    BY <1>1, <2>1, ArrayLength
<1>12. CompiledFindings(d, f)
  <2>1. q \in [DOMAIN d -> DOMAIN f]
    BY <1>1, <1>5, <1>11 DEF Sorts
  <2>2. \A j \in DOMAIN d : d[j].text = Trim(f[q[j]].text) /\ d[j].severity = f[q[j]].severity
    BY <1>10, <1>11
  <2>3. \A j, k \in DOMAIN d : j < k =>
          \/ Severity(f[q[j]].severity) < Severity(f[q[k]].severity)
          \/ Severity(f[q[j]].severity) = Severity(f[q[k]].severity) /\ q[j] < q[k]
    <3>1. \A j, k \in DOMAIN d : j < k => Earlier(K, q[j], q[k])
      BY <1>5, <1>11 DEF Sorts
    <3> QED
      BY <1>3, <1>6, <1>11, <3>1 DEF Earlier
  <2>4. Len(d) = Len(f)
    BY <1>11 DEF m
  <2> QED
    BY <2>1, <2>2, <2>3, <2>4 DEF CompiledFindings, Rearranges, Severity
<1> QED
  BY <1>7, <1>8, <1>9, <1>12 DEF e, d, m

\* The sections that hold findings.
SaidSections(sections) == Filter(sections, LAMBDA s : s.findings # <<>>)

\* The report reads back as the provider gave it.
CompiledAs(dto, said) ==
  /\ Len(dto) = Len(said)
  /\ \A k \in DOMAIN dto :
       dto[k].title = Trim(said[k].title) /\ CompiledFindings(dto[k].findings, said[k].findings)

LEMMA CompiledRead ==
  ASSUME NEW sections, IsTree(sections), CompiledReport(sections)
  PROVE  RowTree(Normalize(sections)) /\ CompiledAs(DtoOf(Normalize(sections)), SaidSections(sections))
<1> DEFINE n == Len(sections)
           a == [i \in DOMAIN sections |-> [title    |-> Trim(sections[i].title),
                                            findings |-> NormFindings(sections[i].findings)]]
           kept == {i \in DOMAIN sections : sections[i].findings # <<>>}
           c == Cardinality(kept)
           t == Normalize(sections)
           d == DtoOf(t)
           said == SaidSections(sections)
<1>1. n \in Nat /\ DOMAIN sections = 1..n
  BY ParsedArray DEF IsTree
<1>2. ASSUME NEW k \in 1..n
      PROVE  LET f == sections[k].findings IN
             /\ IsArray(NormFindings(f)) /\ Len(NormFindings(f)) = Len(f)
             /\ DOMAIN NormFindings(f) = 1..Len(NormFindings(f))
             /\ \A j \in DOMAIN NormFindings(f) : NormFindings(f)[j].severity \in DOMAIN TO_API
             /\ CompiledFindings(FindingsDto(NormFindings(f)), f)
             /\ NormFindings(f) = <<>> <=> f = <<>>
  <2>1. IsArray(sections[k].findings)
    BY <1>1 DEF IsTree
  <2>2. \A j \in DOMAIN sections[k].findings :
          Fits(sections[k].findings[j].text, MaxText) /\ sections[k].findings[j].severity \in API_SEVERITIES
    BY <1>1 DEF CompiledReport
  <2> HIDE DEF n
  <2> DEFINE f == sections[k].findings
  <2> HIDE DEF f
  <2>3. /\ IsArray(NormFindings(f)) /\ Len(NormFindings(f)) = Len(f)
        /\ DOMAIN NormFindings(f) = 1..Len(NormFindings(f))
        /\ \A j \in DOMAIN NormFindings(f) : NormFindings(f)[j].severity \in DOMAIN TO_API
        /\ CompiledFindings(FindingsDto(NormFindings(f)), f)
    BY <2>1, <2>2, NormFindingsRead DEF f
  <2>4. NormFindings(f) = <<>> <=> f = <<>>
    BY <2>1, <2>3, ParsedArray DEF f
  <2> QED
    BY <2>3, <2>4 DEF f
<1>3. said = [k \in 1..c |-> sections[Nth(kept, k)]]
  BY DEF SaidSections, Filter, Nth
<1>4. kept \in SUBSET (1..n)
  BY <1>1
<1>5. t = [k \in 1..c |-> a[Nth(kept, k)]]
  <2> DEFINE full == {i \in DOMAIN a : a[i].title.size > 0 /\ a[i].findings # <<>>}
  <2>1. t = [k \in 1..Cardinality(full) |-> a[Nth(full, k)]]
    BY DEF Normalize, NormFindings, Filter, Mapped, Nth
  <2>2. \A i \in DOMAIN sections : Trim(sections[i].title).size > 0
    BY DEF CompiledReport, Fits
  <2>3. \A i \in DOMAIN sections : NormFindings(sections[i].findings) = <<>> <=> sections[i].findings = <<>>
    BY <1>1, <1>2
  <2>4. full = kept
    BY <2>2, <2>3
  <2> HIDE DEF full, kept, a
  <2> QED
    BY <2>1, <2>4
<1>6. c \in Nat /\ \A k \in 1..c : Nth(kept, k) \in kept
  BY <1>1, <1>4, NthKept
<1>7. \A k \in 1..c : Nth(kept, k) \in 1..n
  BY <1>4, <1>6
<1> HIDE DEF t, kept, c, n, said
<1>8. \A k \in 1..c : /\ t[k].title = Trim(sections[Nth(kept, k)].title)
                      /\ t[k].findings = NormFindings(sections[Nth(kept, k)].findings)
  BY <1>1, <1>5, <1>7
<1>9. Len(t) = c /\ DOMAIN t = 1..c /\ IsArray(t)
  <2>1. t = [j \in 1..c |-> t[j]]
    BY <1>5
  <2>2. Len(t) = c /\ DOMAIN t = 1..c
    BY <1>6, <2>1, ArrayLength
  <2> QED
    BY <1>6, <2>1, <2>2 DEF IsArray
<1>10. RowTree(t)
  BY <1>2, <1>7, <1>8, <1>9 DEF RowTree, IsTree
<1>11. d = [k \in 1..c |-> [title |-> t[k].title, sortOrder |-> k - 1, findings |-> FindingsDto(t[k].findings)]]
  BY <1>9 DEF DtoOf, FindingsDto
<1> HIDE DEF d
<1>12. Len(d) = c /\ DOMAIN d = 1..c /\ Len(said) = c
  <2>1. d = [j \in 1..c |-> d[j]]
    BY <1>11
  <2>2. said = [j \in 1..c |-> said[j]]
    BY <1>3
  <2> QED
    BY <1>6, <2>1, <2>2, ArrayLength
<1>13. CompiledAs(d, said)
  <2>1. \A k \in 1..c : d[k].title = t[k].title /\ d[k].findings = FindingsDto(t[k].findings)
    BY <1>11
  <2>2. \A k \in 1..c : said[k] = sections[Nth(kept, k)]
    BY <1>3
  <2>3. \A k \in 1..c : d[k].title = Trim(said[k].title) /\ CompiledFindings(d[k].findings, said[k].findings)
    BY <1>2, <1>7, <1>8, <2>1, <2>2
  <2> QED
    BY <1>12, <2>3 DEF CompiledAs
<1> QED
  BY <1>10, <1>13 DEF t, d, said

-----------------------------------------------------------------------------
(* The printed report.                                                      *)

\* The places of the findings of a severity, in the API's answer and in print.
CountedIn(dto, sev) ==
  UNION {{<<i, j>> : j \in {k \in DOMAIN dto[i].findings : dto[i].findings[k].severity = sev}} : i \in DOMAIN dto}

\* The document tells what the API tells.
PrintedAs(dto, pdf) ==
  LET Chips == {pdf.chips[c] : c \in DOMAIN pdf.chips}
  IN  /\ Len(pdf.body) = Len(dto)
      /\ \A i \in DOMAIN dto :
           /\ pdf.body[i].title = dto[i].title
           /\ pdf.body[i].findings =
                [j \in DOMAIN dto[i].findings |->
                   [text |-> dto[i].findings[j].text, severity |-> dto[i].findings[j].severity]]
      /\ Chips = {[severity |-> sev, count |-> Cardinality(CountedIn(dto, sev))] :
                    sev \in {s \in API_SEVERITIES : CountedIn(dto, s) # {}}}

\* A report has finitely many findings of each severity, and both count the same.
LEMMA FindingsCounted ==
  ASSUME NEW t, RowTree(t), NEW sev
  PROVE  /\ IsFiniteSet(CountedIn(DtoOf(t), sev))
         /\ {p \in Places(ViewOf(t)) : ViewOf(t)[p[1]].findings[p[2]].severity = sev} = CountedIn(DtoOf(t), sev)
<1> DEFINE n == Len(t)
           m(i) == Len(t[i].findings)
           of(i, j) == TO_API[t[i].findings[j].severity]
           C(i) == {<<i, j>> : j \in {k \in 1..m(i) : of(i, k) = sev}}
           U == {C(i) : i \in 1..n}
<1>1. n \in Nat /\ DOMAIN t = 1..n
  BY ParsedArray DEF RowTree, IsTree
<1>2. \A i \in 1..n : m(i) \in Nat
  BY <1>1, ParsedArray DEF RowTree, IsTree
<1>3. /\ DOMAIN DtoOf(t) = 1..n /\ DOMAIN ViewOf(t) = 1..n
      /\ \A i \in 1..n : DOMAIN DtoOf(t)[i].findings = 1..m(i) /\ DOMAIN ViewOf(t)[i].findings = 1..m(i)
      /\ \A i \in 1..n : \A j \in 1..m(i) :
           DtoOf(t)[i].findings[j].severity = of(i, j) /\ ViewOf(t)[i].findings[j].severity = of(i, j)
  BY DEF DtoOf, ViewOf
<1> HIDE DEF n, m, of
<1> DEFINE In(x) == \E i \in 1..n : \E j \in 1..m(i) : x = <<i, j>> /\ of(i, j) = sev
<1>u. \A x : x \in UNION U <=> In(x)
  OBVIOUS
<1>4. CountedIn(DtoOf(t), sev) = UNION U
  <2> DEFINE d == DtoOf(t)
  <2> HIDE DEF d
  <2>1. \A x : x \in CountedIn(d, sev) <=>
          \E i \in DOMAIN d : \E j \in DOMAIN d[i].findings : x = <<i, j>> /\ d[i].findings[j].severity = sev
    BY DEF CountedIn
  <2>2. \A x : x \in CountedIn(d, sev) <=> In(x)
    <3>1. DOMAIN d = 1..n /\ \A i \in 1..n : DOMAIN d[i].findings = 1..m(i)
      BY <1>3 DEF d
    <3>2. \A i \in 1..n : \A j \in 1..m(i) : d[i].findings[j].severity = of(i, j)
      BY <1>3 DEF d
    <3>3. ASSUME NEW x, x \in CountedIn(d, sev) PROVE In(x)
      <4>1. PICK i \in DOMAIN d : \E j \in DOMAIN d[i].findings : x = <<i, j>> /\ d[i].findings[j].severity = sev
        BY <2>1, <3>3
      <4> QED
        BY <3>1, <3>2, <4>1
    <3>4. ASSUME NEW x, In(x) PROVE x \in CountedIn(d, sev)
      <4>1. PICK i \in 1..n : \E j \in 1..m(i) : x = <<i, j>> /\ of(i, j) = sev
        BY <3>4
      <4>2. PICK j \in 1..m(i) : x = <<i, j>> /\ of(i, j) = sev
        BY <4>1
      <4>3. i \in DOMAIN d /\ j \in DOMAIN d[i].findings /\ d[i].findings[j].severity = sev
        BY <3>1, <3>2, <4>2
      <4> QED
        BY <2>1, <4>2, <4>3
    <3> HIDE DEF In
    <3> QED
      BY <3>3, <3>4
  <2> QED
    BY <1>u, <2>2 DEF d
<1>5. {p \in Places(ViewOf(t)) : ViewOf(t)[p[1]].findings[p[2]].severity = sev} = UNION U
  <2> DEFINE d == ViewOf(t)
             S == {p \in Places(d) : d[p[1]].findings[p[2]].severity = sev}
  <2> HIDE DEF d
  <2>1. \A x : x \in Places(d) <=> \E i \in DOMAIN d : \E j \in DOMAIN d[i].findings : x = <<i, j>>
    BY DEF Places
  <2>2. \A x : x \in S <=>
          \E i \in DOMAIN d : \E j \in DOMAIN d[i].findings : x = <<i, j>> /\ d[i].findings[j].severity = sev
    BY <2>1
  <2> HIDE DEF S
  <2>3. \A x : x \in S <=> In(x)
    <3>1. DOMAIN d = 1..n /\ \A i \in 1..n : DOMAIN d[i].findings = 1..m(i)
      BY <1>3 DEF d
    <3>2. \A i \in 1..n : \A j \in 1..m(i) : d[i].findings[j].severity = of(i, j)
      BY <1>3 DEF d
    <3>3. ASSUME NEW x, x \in S PROVE In(x)
      <4>1. PICK i \in DOMAIN d : \E j \in DOMAIN d[i].findings : x = <<i, j>> /\ d[i].findings[j].severity = sev
        BY <2>2, <3>3
      <4> QED
        BY <3>1, <3>2, <4>1
    <3>4. ASSUME NEW x, In(x) PROVE x \in S
      <4>1. PICK i \in 1..n : \E j \in 1..m(i) : x = <<i, j>> /\ of(i, j) = sev
        BY <3>4
      <4>2. PICK j \in 1..m(i) : x = <<i, j>> /\ of(i, j) = sev
        BY <4>1
      <4>3. i \in DOMAIN d /\ j \in DOMAIN d[i].findings /\ d[i].findings[j].severity = sev
        BY <3>1, <3>2, <4>2
      <4> QED
        BY <2>2, <4>2, <4>3
    <3> HIDE DEF In
    <3> QED
      BY <3>3, <3>4
  <2>4. S = UNION U
    BY <1>u, <2>3
  <2> QED
    BY <2>4 DEF S, d
<1>6. IsFiniteSet(U)
  <2> DEFINE f == [i \in 1..n |-> C(i)]
  <2>1. f \in [1..n -> U] /\ \A x \in U : \E i \in 1..n : f[i] = x
    OBVIOUS
  <2>2. f \in Surjection(1..n, U)
    BY <2>1 DEF Surjection
  <2>3. IsFiniteSet(1..n)
    BY <1>1, FS_Interval
  <2> QED
    BY <2>2, <2>3, FS_Surjection
<1>7. ASSUME NEW i \in 1..n PROVE IsFiniteSet(C(i))
  <2> DEFINE P == {i} \X (1..m(i))
  <2>0. m(i) \in Nat
    BY <1>2
  <2>1. IsFiniteSet(1..m(i))
    BY <2>0, FS_Interval
  <2>4. IsFiniteSet({i})
    BY FS_Singleton
  <2>2. IsFiniteSet(P)
    BY <2>1, <2>4, FS_Product
  <2>3. C(i) \in SUBSET P
    OBVIOUS
  <2> QED
    BY <2>2, <2>3, FS_Subset
<1>8. IsFiniteSet(UNION U)
  <2>1. \A x \in U : IsFiniteSet(x)
    BY <1>7
  <2> HIDE DEF U
  <2> QED
    BY <1>6, <2>1, FS_UNION
<1> QED
  BY <1>4, <1>5, <1>8

LEMMA PrintedRead ==
  ASSUME NEW t, RowTree(t)
  PROVE  PrintedAs(DtoOf(t), BuildReportHtml(ViewOf(t)))
<1> DEFINE n == Len(t)
           dto == DtoOf(t)
           view == ViewOf(t)
           counts == CountBySeverity(view)
           kept == {i \in DOMAIN SEVERITY_ORDER : counts[SEVERITY_ORDER[i]] > 0}
           c == Cardinality(kept)
           chip(sev) == [severity |-> sev, count |-> counts[sev]]
           chips == [k \in 1..c |-> chip(SEVERITY_ORDER[Nth(kept, k)])]
           pdf == BuildReportHtml(view)
<1>1. n \in Nat /\ DOMAIN t = 1..n
  BY ParsedArray DEF RowTree, IsTree
<1>2. pdf.body = view /\ pdf.chips = chips
  <2> DEFINE s == [k \in 1..c |-> SEVERITY_ORDER[Nth(kept, k)]]
  <2>1. pdf.body = view /\ pdf.chips = [k \in DOMAIN s |-> chip(s[k])]
    BY DEF BuildReportHtml, Filter, Mapped, Nth
  <2> HIDE DEF kept, c, counts
  <2> QED
    BY <2>1
<1>3. Len(view) = n /\ Len(dto) = n /\ DOMAIN dto = 1..n
  <2>1. view = [i \in 1..n |-> view[i]] /\ dto = [i \in 1..n |-> dto[i]]
    BY DEF ViewOf, DtoOf
  <2> HIDE DEF view, dto
  <2> QED
    BY <1>1, <2>1, ArrayLength
<1>4. \A i \in 1..n :
        /\ view[i].title = dto[i].title
        /\ view[i].findings = [j \in DOMAIN dto[i].findings |->
                                 [text |-> dto[i].findings[j].text, severity |-> dto[i].findings[j].severity]]
  BY DEF ViewOf, DtoOf
<1>5. \A sev \in API_SEVERITIES :
        /\ counts[sev] = Cardinality(CountedIn(dto, sev))
        /\ counts[sev] > 0 <=> CountedIn(dto, sev) # {}
  <2> TAKE sev \in API_SEVERITIES
  <2>1. counts[sev] = Cardinality({p \in Places(view) : view[p[1]].findings[p[2]].severity = sev})
    BY DEF CountBySeverity
  <2>2. IsFiniteSet(CountedIn(dto, sev)) /\ counts[sev] = Cardinality(CountedIn(dto, sev))
    BY <2>1, FindingsCounted
  <2> HIDE DEF counts, dto
  <2>3. Cardinality(CountedIn(dto, sev)) \in Nat
    BY <2>2, FS_CardinalityType
  <2>4. Cardinality(CountedIn(dto, sev)) = 0 <=> CountedIn(dto, sev) = {}
    BY <2>2, FS_EmptySet
  <2> QED
    BY <2>2, <2>3, <2>4
<1>6. DOMAIN SEVERITY_ORDER = 1..4 /\ API_SEVERITIES = {SEVERITY_ORDER[i] : i \in 1..4}
  BY DEF SEVERITY_ORDER, API_SEVERITIES
<1> HIDE DEF counts, view, dto, pdf
<1>7. kept \in SUBSET (1..4) /\ \A i \in 1..4 : i \in kept <=> counts[SEVERITY_ORDER[i]] > 0
  BY <1>6
<1> HIDE DEF kept
<1>8. /\ \A k \in 1..c : Nth(kept, k) \in kept
      /\ \A i \in kept : \E k \in 1..c : Nth(kept, k) = i
  BY <1>7, NthKept
<1> HIDE DEF c
<1>9. {pdf.chips[k] : k \in DOMAIN pdf.chips} = {chip(SEVERITY_ORDER[i]) : i \in kept}
  <2>1. DOMAIN pdf.chips = 1..c /\ \A k \in 1..c : pdf.chips[k] = chip(SEVERITY_ORDER[Nth(kept, k)])
    BY <1>2
  <2> HIDE DEF chip
  <2> QED
    BY <1>8, <2>1
<1>10. {chip(SEVERITY_ORDER[i]) : i \in kept} = {chip(sev) : sev \in {s \in API_SEVERITIES : CountedIn(dto, s) # {}}}
  <2>1. \A i \in kept : SEVERITY_ORDER[i] \in {s \in API_SEVERITIES : CountedIn(dto, s) # {}}
    BY <1>5, <1>6, <1>7
  <2>2. \A s \in {s \in API_SEVERITIES : CountedIn(dto, s) # {}} : \E i \in kept : s = SEVERITY_ORDER[i]
    BY <1>5, <1>6, <1>7
  <2> HIDE DEF chip
  <2> QED
    BY <2>1, <2>2
<1>11. {chip(sev) : sev \in {s \in API_SEVERITIES : CountedIn(dto, s) # {}}} =
        {[severity |-> sev, count |-> Cardinality(CountedIn(dto, sev))] :
           sev \in {s \in API_SEVERITIES : CountedIn(dto, s) # {}}}
  BY <1>5
<1>12. PrintedAs(dto, pdf)
  BY <1>2, <1>3, <1>4, <1>9, <1>10, <1>11 DEF PrintedAs
<1> QED
  BY <1>12 DEF dto, pdf, view

-----------------------------------------------------------------------------
(* What is stored.                                                          *)

\* The tree that a replacement is to store.
TreeOf(e) == IF e.source = "edit" THEN ToReportInput(e.sections) ELSE Normalize(e.sections)

\* It was admitted: by the pipe, or by the compiler's schema.
Sound(e) ==
  /\ IsTree(e.sections)
  /\ e.source = "edit" => UpdateJobDto(e.sections)
  /\ e.source # "edit" => CompiledReport(e.sections)

\* Replacements and those under way store what was admitted.
AdmittedInv ==
  /\ \A v \in 1..Len(wrote) : Sound(wrote[v])
  /\ \A w \in Writers : writer[w].pc \in Tx \cup {"begin"} => Sound(writer[w]) /\ writer[w].tree = TreeOf(writer[w])

\* Of each replacement all the rows are there, or none.
WholeInv ==
  \A v \in 1..Len(wrote) :
    Written(v) = {} \/ \E b : Written(v) = InsertSections(v, b, TreeOf(wrote[v]))

\* A transaction that deletes sections deletes all those of a replacement, or none.
TakesWhole ==
  \A w \in Writers, v \in 1..Len(wrote) :
    /\ writer[w].pc = "sections" =>
         Written(v) \subseteq writer[w].seen \/ Written(v) \cap (writer[w].seen \cup writer[w].gone) = {}
    /\ writer[w].pc = "emptied" =>
         Written(v) \subseteq writer[w].gone \/ Written(v) \cap writer[w].gone = {}

StoredInv == BareInv /\ BootInv /\ AdmittedInv /\ WholeInv /\ TakesWhole

\* The mock compiler's report is a tree.
LEMMA CannedIsTree == IsTree(Canned)
<1> DEFINE Text(body) == [body |-> body, size |-> 80, padded |-> FALSE]
           F(title, severities) == [i \in DOMAIN severities |-> [text |-> Text(title), severity |-> severities[i]]]
<1>1. Len(Canned) = 9 /\ DOMAIN Canned = 1..9 /\ Canned = [i \in 1..9 |-> Canned[i]]
  BY DEF Canned
<1>2. ASSUME NEW title, NEW s, NEW n \in Nat, DOMAIN s = 1..n PROVE IsArray(F(title, s))
  <2>1. F(title, s) = [j \in 1..n |-> F(title, s)[j]]
    BY <1>2
  <2> HIDE DEF F
  <2>2. Len(F(title, s)) = n
    BY <2>1, ArrayLength
  <2> QED
    BY <2>1, <2>2 DEF IsArray
<1>3. /\ Canned[1].findings = F("Roof", <<"repair", "maintenance">>)
      /\ Canned[2].findings = F("Gutters & Drainage", <<"repair", "maintenance">>)
      /\ Canned[3].findings = F("Exterior", <<"info">>)
      /\ Canned[4].findings = F("Electrical", <<"safety", "info">>)
      /\ Canned[5].findings = F("Plumbing", <<"safety", "repair", "info">>)
      /\ Canned[6].findings = F("Kitchen", <<"info">>)
      /\ Canned[7].findings = F("Bathrooms", <<"repair">>)
      /\ Canned[8].findings = F("Attic", <<"maintenance", "info">>)
      /\ Canned[9].findings = F("Basement & HVAC", <<"info", "info">>)
  BY DEF Canned
<1> HIDE DEF F
<1>4. /\ DOMAIN <<"repair", "maintenance">> = 1..2
      /\ DOMAIN <<"info">> = 1..1
      /\ DOMAIN <<"safety", "info">> = 1..2
      /\ DOMAIN <<"safety", "repair", "info">> = 1..3
      /\ DOMAIN <<"repair">> = 1..1
      /\ DOMAIN <<"maintenance", "info">> = 1..2
      /\ DOMAIN <<"info", "info">> = 1..2
  OBVIOUS
<1>5. IsArray(Canned[1].findings)
  BY <1>2, <1>3, <1>4
<1>6. IsArray(Canned[2].findings)
  BY <1>2, <1>3, <1>4
<1>7. IsArray(Canned[3].findings)
  BY <1>2, <1>3, <1>4
<1>8. IsArray(Canned[4].findings)
  BY <1>2, <1>3, <1>4
<1>9. IsArray(Canned[5].findings)
  BY <1>2, <1>3, <1>4
<1>10. IsArray(Canned[6].findings)
  BY <1>2, <1>3, <1>4
<1>11. IsArray(Canned[7].findings)
  BY <1>2, <1>3, <1>4
<1>12. IsArray(Canned[8].findings)
  BY <1>2, <1>3, <1>4
<1>13. IsArray(Canned[9].findings)
  BY <1>2, <1>3, <1>4
<1> QED
  BY <1>1, <1>5, <1>6, <1>7, <1>8, <1>9, <1>10, <1>11, <1>12, <1>13 DEF IsTree, IsArray

\* A step of a writer that commits nothing.
LEMMA StoredKept ==
  ASSUME AdmittedInv, WholeInv, TakesWhole, writer = [u \in Writers |-> writer[u]],
         rows' = rows, wrote' = wrote, NEW w \in Writers, NEW x, writer' = [writer EXCEPT ![w] = x],
         x.pc \in Tx \cup {"begin"} => Sound(x) /\ x.tree = TreeOf(x),
         x.pc = "sections" => \A v \in 1..Len(wrote) :
           Written(v) \subseteq x.seen \/ Written(v) \cap (x.seen \cup x.gone) = {},
         x.pc = "emptied" => \A v \in 1..Len(wrote) :
           Written(v) \subseteq x.gone \/ Written(v) \cap x.gone = {}
  PROVE  AdmittedInv' /\ WholeInv' /\ TakesWhole'
<1>1. writer'[w] = x /\ \A u \in Writers \ {w} : writer'[u] = writer[u]
  OBVIOUS
<1>2. \A v : Written(v)' = Written(v)
  BY DEF Written
<1>3. AdmittedInv'
  BY <1>1 DEF AdmittedInv
<1>4. WholeInv'
  BY <1>2 DEF WholeInv
<1>5. TakesWhole'
  <2> SUFFICES ASSUME NEW u \in Writers, NEW v \in 1..Len(wrote)
               PROVE  /\ writer'[u].pc = "sections" =>
                           Written(v) \subseteq writer'[u].seen \/ Written(v) \cap (writer'[u].seen \cup writer'[u].gone) = {}
                      /\ writer'[u].pc = "emptied" =>
                           Written(v) \subseteq writer'[u].gone \/ Written(v) \cap writer'[u].gone = {}
    BY <1>2 DEF TakesWhole
  <2>1. CASE u = w
    BY <1>1, <2>1
  <2>2. CASE u # w
    BY <1>1, <2>2 DEF TakesWhole
  <2> QED
    BY <2>1, <2>2
<1> QED
  BY <1>3, <1>4, <1>5

LEMMA CommitStored ==
  ASSUME StoredInv, NEW w \in Writers, Commit(w)
  PROVE  AdmittedInv' /\ WholeInv' /\ TakesWhole'
<1> DEFINE e == [source |-> writer[w].source, sections |-> writer[w].sections]
           n == Len(wrote)
           new == InsertSections(n + 1, writer[w].bare, writer[w].tree)
           gone == writer[w].gone
<1>1. /\ writer[w].pc = "emptied" /\ rows' = (rows \ gone) \cup new
      /\ wrote' = Append(wrote, e)
      /\ writer'[w] = Idle /\ \A u \in Writers \ {w} : writer'[u] = writer[u]
  BY DEF Commit, Finished, StoredInv, BareInv, RowsOfReplacements
<1>2. /\ n \in Nat /\ Len(wrote') = n + 1 /\ wrote'[n + 1] = e
      /\ \A v \in 1..n : wrote'[v] = wrote[v]
  <2>1. PICK S : wrote \in Seq(S)
    BY DEF StoredInv, BareInv, IsSequence
  <2>2. wrote \in Seq(S \cup {e})
    BY <2>1
  <2> QED
    BY <1>1, <2>2
<1>3. Sound(e) /\ writer[w].tree = TreeOf(e)
  <2>1. Sound(writer[w]) /\ writer[w].tree = TreeOf(writer[w])
    BY <1>1 DEF StoredInv, AdmittedInv, Tx, Past
  <2>2. e.source = writer[w].source /\ e.sections = writer[w].sections
    OBVIOUS
  <2> QED
    BY <2>1, <2>2 DEF Sound, TreeOf
<1>4. \A r \in new : r.write = n + 1
  BY DEF InsertSections
<1>5. \A r \in rows : r.write \in Nat /\ r.write <= n
  BY DEF StoredInv, BareInv, RowsOfReplacements
<1>6. \A v \in 1..(n + 1) : v \in 1..n \/ v = n + 1
  BY <1>2
<1> HIDE DEF e, n, new, gone
<1>7. ASSUME NEW v \in 1..n PROVE Written(v)' = Written(v) \/ Written(v)' = {}
  <2>1. Written(v)' = Written(v) \ gone
    <3>1. \A r \in new : r.write # v
      BY <1>2, <1>4
    <3> QED
      BY <1>1, <3>1 DEF Written
  <2>2. Written(v) \subseteq gone \/ Written(v) \cap gone = {}
    BY <1>1 DEF StoredInv, TakesWhole, n, gone
  <2> QED
    BY <2>1, <2>2
<1>8. ASSUME NEW v, v = n + 1 PROVE Written(v)' = new
  <2>1. \A r \in rows : r.write # v
    BY <1>2, <1>5, <1>8
  <2>2. \A r \in new : r.write = v
    BY <1>4, <1>8
  <2> QED
    BY <1>1, <2>1, <2>2 DEF Written
<1>9. \A u \in Writers : writer'[u].pc # "idle" => u # w /\ writer'[u] = writer[u]
  BY <1>1 DEF Idle
<1>10. AdmittedInv'
  <2>1. ASSUME NEW v \in 1..(n + 1) PROVE Sound(wrote'[v])
    BY <1>2, <1>3, <1>6, <2>1 DEF StoredInv, AdmittedInv, n
  <2>2. \A u \in Writers : writer'[u].pc \in Tx \cup {"begin"} => Sound(writer'[u]) /\ writer'[u].tree = TreeOf(writer'[u])
    BY <1>9 DEF StoredInv, AdmittedInv, Tx, Past
  <2> QED
    BY <1>2, <2>1, <2>2 DEF AdmittedInv
<1>11. WholeInv'
  <2> SUFFICES ASSUME NEW v \in 1..(n + 1)
               PROVE  Written(v)' = {} \/ \E b : Written(v)' = InsertSections(v, b, TreeOf(wrote'[v]))
    BY <1>2 DEF WholeInv
  <2>1. CASE v \in 1..n
    BY <1>2, <1>7, <2>1 DEF StoredInv, WholeInv, n
  <2>2. CASE v = n + 1
    <3>1. Written(v)' = new /\ TreeOf(wrote'[v]) = writer[w].tree
      BY <1>2, <1>3, <1>8, <2>2
    <3>2. new = InsertSections(v, writer[w].bare, writer[w].tree)
      BY <2>2 DEF new
    <3> QED
      BY <3>1, <3>2
  <2> QED
    BY <1>6, <2>1, <2>2
<1>12. TakesWhole'
  <2> SUFFICES ASSUME NEW u \in Writers, NEW v \in 1..(n + 1), writer'[u].pc \in {"sections", "emptied"}
               PROVE  /\ writer'[u].pc = "sections" =>
                           Written(v)' \subseteq writer'[u].seen \/ Written(v)' \cap (writer'[u].seen \cup writer'[u].gone) = {}
                      /\ writer'[u].pc = "emptied" =>
                           Written(v)' \subseteq writer'[u].gone \/ Written(v)' \cap writer'[u].gone = {}
    BY <1>2 DEF TakesWhole
  <2>1. writer'[u] = writer[u] /\ writer[u].pc \in Past
    BY <1>9 DEF Past
  <2>2. CASE v \in 1..n
    BY <1>7, <2>1, <2>2 DEF StoredInv, TakesWhole, n
  <2>3. CASE v = n + 1
    <3>1. \A r \in writer[u].seen : r.write \in Nat /\ r.write <= n
      BY <2>1 DEF StoredInv, BareInv, RowsOfReplacements, Tx, n
    <3>2. writer[u].gone \subseteq rows
      BY <2>1 DEF StoredInv, BareInv, DeletedIsHeld
    <3>3. new \cap (writer[u].seen \cup writer[u].gone) = {}
      BY <1>2, <1>4, <1>5, <3>1, <3>2
    <3> QED
      BY <1>8, <2>1, <2>3, <3>3
  <2> QED
    BY <1>6, <2>2, <2>3
<1> QED
  BY <1>10, <1>11, <1>12

\* A provider's name is not the edits'.
LEMMA CompilerNamed ==
  ASSUME BootInv, Up PROVE app.config.compiler # "edit"
<1>1. PICK e \in Envs : app.config = LoadConfig(e)
  BY DEF BootInv, Booted
<1> QED
  BY <1>1 DEF LoadConfig, ReportCompiler

\* What a compilation leads to.
LEMMA CompiledSound ==
  ASSUME BootInv, Up, NEW w \in Writers, NEW o \in Answers, Compiled(w, o).pc \in Tx \cup {"begin"}
  PROVE  Sound(Compiled(w, o)) /\ Compiled(w, o).tree = TreeOf(Compiled(w, o)) /\ Compiled(w, o).pc = "begin"
<1>1. Valid(o)
  BY DEF Compiled, Idle, Tx, Past
<1>2. Compiled(w, o) = Transaction(app.config.compiler, o.sections, Normalize(o.sections), NoLabel)
  BY <1>1 DEF Compiled
<1>3. IsTree(o.sections)
  <2>1. CASE app.config.compiler = "mock"
    BY <2>1, CannedIsTree DEF Answers
  <2>2. CASE app.config.compiler # "mock"
    BY <1>1, <2>2, FlowAssumption DEF Answers, Valid
  <2> QED
    BY <2>1, <2>2
<1>4. app.config.compiler # "edit"
  BY CompilerNamed
<1> QED
  BY <1>1, <1>2, <1>3, <1>4 DEF Transaction, Sound, TreeOf, Valid

\* A transaction goes on with the tree it was given.
LEMMA AtStored ==
  ASSUME StoredInv, rows' = rows, wrote' = wrote, NEW w \in Writers, writer[w].pc \in Tx \cup {"begin"},
         NEW pc, NEW seen, NEW gone, NEW bare, At(w, pc, seen, gone, bare),
         pc = "sections" => \A v \in 1..Len(wrote) :
           Written(v) \subseteq seen \/ Written(v) \cap (seen \cup gone) = {},
         pc = "emptied" => \A v \in 1..Len(wrote) :
           Written(v) \subseteq gone \/ Written(v) \cap gone = {}
  PROVE  AdmittedInv' /\ WholeInv' /\ TakesWhole'
<1> DEFINE x == [pc |-> pc, source |-> writer[w].source, sections |-> writer[w].sections,
                 tree |-> writer[w].tree, label |-> writer[w].label,
                 seen |-> seen, gone |-> gone, bare |-> bare]
<1>1. writer' = [writer EXCEPT ![w] = x] /\ writer = [u \in Writers |-> writer[u]]
  BY DEF At, StoredInv, BareInv, RowsOfReplacements
<1>2. /\ x.pc = pc /\ x.seen = seen /\ x.gone = gone /\ x.tree = writer[w].tree
      /\ x.source = writer[w].source /\ x.sections = writer[w].sections
  OBVIOUS
<1> HIDE DEF x
<1>3. Sound(x) /\ x.tree = TreeOf(x)
  <2>1. Sound(writer[w]) /\ writer[w].tree = TreeOf(writer[w])
    BY DEF StoredInv, AdmittedInv
  <2> QED
    BY <1>2, <2>1 DEF Sound, TreeOf
<1> QED
  BY <1>1, <1>2, <1>3, StoredKept DEF StoredInv

LEMMA WriteStored ==
  ASSUME StoredInv, NEW w \in Writers, Write(w)
  PROVE  AdmittedInv' /\ WholeInv' /\ TakesWhole'
<1> DEFINE Goal == AdmittedInv' /\ WholeInv' /\ TakesWhole'
<1>0. writer = [u \in Writers |-> writer[u]]
  BY DEF StoredInv, BareInv, RowsOfReplacements
<1>1. ASSUME NEW x, writer' = [writer EXCEPT ![w] = x], rows' = rows, wrote' = wrote,
             x.pc \in Tx \cup {"begin"} => Sound(x) /\ x.tree = TreeOf(x) /\ x.pc = "begin"
      PROVE  Goal
  <2>1. x.pc # "sections" /\ x.pc # "emptied"
    BY <1>1 DEF Tx, Past
  <2> QED
    BY <1>0, <1>1, <2>1, StoredKept DEF StoredInv
<1> HIDE DEF Goal
<1>2. ASSUME Finished(w), rows' = rows, wrote' = wrote PROVE Goal
  BY <1>1, <1>2 DEF Finished, Idle, Tx, Past
<1>3. ASSUME StartCompile(w) PROVE Goal
  BY <1>1, <1>3 DEF StartCompile, Tx, Past
<1>4. ASSUME CompileAnswer(w) PROVE Goal
  <2>1. PICK o \in Answers : writer' = [writer EXCEPT ![w] = Compiled(w, o)]
    BY <1>4 DEF CompileAnswer
  <2>2. Up /\ BootInv
    BY <1>4 DEF CompileAnswer, StoredInv, BootInv, SourcesKnown
  <2>3. Compiled(w, o).pc \in Tx \cup {"begin"} =>
          Sound(Compiled(w, o)) /\ Compiled(w, o).tree = TreeOf(Compiled(w, o)) /\ Compiled(w, o).pc = "begin"
    BY <2>2, CompiledSound
  <2> QED
    BY <1>1, <1>4, <2>1, <2>3 DEF CompileAnswer
<1>5. ASSUME PatchReport(w) PROVE Goal
  <2>1. PICK sections \in Edits, label \in Labels \cup {NoLabel} :
          /\ UpdateJobDto(sections)
          /\ writer' = [writer EXCEPT ![w] = Transaction("edit", sections, ToReportInput(sections), label)]
    BY <1>5 DEF PatchReport
  <2> DEFINE x == Transaction("edit", sections, ToReportInput(sections), label)
  <2>2. Sound(x) /\ x.tree = TreeOf(x) /\ x.pc = "begin"
    BY <2>1, FlowAssumption DEF Transaction, Sound, TreeOf
  <2> HIDE DEF x
  <2> QED
    BY <1>1, <1>5, <2>1, <2>2 DEF PatchReport, x
<1>6. ASSUME BeginReplace(w) PROVE Goal
  <2>1. CASE Finished(w)
    BY <1>2, <1>6, <2>1 DEF BeginReplace
  <2>2. CASE At(w, "findings", {r \in rows : r.findings # {}}, {}, TRUE)
    BY <1>6, <2>2, AtStored DEF BeginReplace, Goal
  <2> QED
    BY <1>6, <2>1, <2>2 DEF BeginReplace
<1>7. ASSUME DeleteFindings(w) PROVE Goal
  BY <1>7, AtStored DEF DeleteFindings, Goal, Tx
<1>8. ASSUME ReadSections(w) PROVE Goal
  <2>1. \A v \in 1..Len(wrote) : Written(v) \subseteq rows
    BY DEF Written
  <2> QED
    BY <1>8, <2>1, AtStored DEF ReadSections, Goal, Tx, Past
<1>9. ASSUME DeleteSections(w) PROVE Goal
  <2> DEFINE gone == writer[w].gone \cup (writer[w].seen \cap rows)
  <2>1. ASSUME NEW v \in 1..Len(wrote) PROVE Written(v) \subseteq gone \/ Written(v) \cap gone = {}
    <3>1. Written(v) \subseteq writer[w].seen \/ Written(v) \cap (writer[w].seen \cup writer[w].gone) = {}
      BY <1>9 DEF DeleteSections, StoredInv, TakesWhole
    <3>2. Written(v) \subseteq rows
      BY DEF Written
    <3> QED
      BY <3>1, <3>2
  <2> HIDE DEF gone
  <2>2. /\ At(w, "emptied", writer[w].seen, gone, writer[w].bare)
        /\ rows' = rows /\ wrote' = wrote /\ writer[w].pc \in Tx
    BY <1>9 DEF DeleteSections, gone, Tx, Past
  <2> QED
    BY <2>1, <2>2, AtStored DEF Goal
<1>10. ASSUME Commit(w) PROVE Goal
  BY <1>10, CommitStored DEF Goal
<1>11. ASSUME Rollback(w) PROVE Goal
  BY <1>2, <1>11 DEF Rollback
<1> QED
  BY <1>3, <1>4, <1>5, <1>6, <1>7, <1>8, <1>9, <1>10, <1>11 DEF Write, Goal

LEMMA InitStored == Init => StoredInv
<1> SUFFICES ASSUME Init PROVE StoredInv
  OBVIOUS
<1>1. BareInv /\ BootInv
  BY InitBare, InitBoot
<1>2. Len(wrote) = 0 /\ 1..Len(wrote) = {}
  BY DEF Init
<1>3. \A w \in Writers : writer[w].pc = "idle"
  BY DEF Init, Idle
<1> QED
  BY <1>1, <1>2, <1>3 DEF StoredInv, AdmittedInv, WholeInv, TakesWhole, Tx, Past

LEMMA NextStored == StoredInv /\ [Next]_vars => StoredInv'
<1> SUFFICES ASSUME StoredInv, [Next]_vars PROVE StoredInv'
  OBVIOUS
<1>1. BareInv' /\ BootInv'
  BY NextBare, NextBoot DEF StoredInv
<1>2. CASE UNCHANGED <<rows, wrote, writer>>
  BY <1>1, <1>2 DEF StoredInv, AdmittedInv, WholeInv, TakesWhole, Written
<1>3. ASSUME NEW w \in Writers, Write(w) PROVE StoredInv'
  BY <1>1, <1>3, WriteStored DEF StoredInv
<1> QED
  BY <1>2, <1>3 DEF Next, vars, Boot, PatchLabel, Remove

\* The rows of each replacement are those of its tree, or none are left.
LEMMA WhatIsStored ==
  ASSUME StoredInv, NEW v \in DOMAIN wrote
  PROVE  /\ Sound(wrote[v])
         /\ \/ Written(v) = {}
            \/ \E b : Written(v) = InsertSections(v, b, TreeOf(wrote[v]))
<1>1. DOMAIN wrote = 1..Len(wrote)
  BY DEF StoredInv, BareInv, IsSequence
<1> QED
  BY <1>1 DEF StoredInv, AdmittedInv, WholeInv

\* No rows are the rows of an empty tree.
LEMMA EmptyTree == RowTree(<<>>) /\ \A v, b : InsertSections(v, b, <<>>) = {}
<1>1. Len(<<>>) = 0 /\ DOMAIN <<>> = {} /\ <<>> = [i \in 1..0 |-> <<>>[i]]
  OBVIOUS
<1>2. IsArray(<<>>)
  BY <1>1 DEF IsArray
<1>3. \A v, b : InsertSections(v, b, <<>>) = {}
  BY <1>1 DEF InsertSections
<1> QED
  BY <1>1, <1>2, <1>3 DEF RowTree, IsTree

\* The tree of an admitted report can be stored.
LEMMA SoundTree ==
  ASSUME NEW e, Sound(e) PROVE RowTree(TreeOf(e))
  BY EditRead, CompiledRead DEF Sound, TreeOf

-----------------------------------------------------------------------------
(* The theorems.                                                            *)

\* For trees of any size, any numbering and any overlap of attempts, requests
\* and rollbacks: what is stored of a PATCH reads back as the client numbered
\* it, with no section or finding lost, added or changed.
THEOREM StoredEditsAreFaithful == Spec => []EditedFaithfully
<1>1. StoredInv => EditedFaithfully
  <2> SUFFICES ASSUME StoredInv, NEW v \in DOMAIN wrote, wrote[v].source = "edit", Written(v) # {}
               PROVE  EditedAs(JobToDto(Written(v)), wrote[v].sections)
    BY DEF EditedFaithfully, EditedAs
  <2> DEFINE t == ToReportInput(wrote[v].sections)
  <2>1. PICK b : Written(v) = InsertSections(v, b, t)
    BY WhatIsStored DEF TreeOf
  <2>2. IsTree(wrote[v].sections) /\ UpdateJobDto(wrote[v].sections)
    BY WhatIsStored DEF Sound
  <2>3. RowTree(t) /\ EditedAs(DtoOf(t), wrote[v].sections)
    BY <2>2, EditRead
  <2> HIDE DEF t
  <2>4. JobToDto(Written(v)) = DtoOf(t)
    BY <2>1, <2>3, StoredRead DEF RowTree
  <2> QED
    BY <2>3, <2>4
<1> QED
  BY <1>1, InitStored, NextStored, PTL DEF Spec

\* For any answer of the provider that the schema admits: what is stored of it
\* holds every finding once, trimmed, in its section, the most severe first and
\* otherwise as given; only sections without findings are left out.
THEOREM StoredCompilationIsFaithful == Spec => []CompiledFaithfully
<1>1. StoredInv => CompiledFaithfully
  <2> SUFFICES ASSUME StoredInv, NEW v \in DOMAIN wrote, wrote[v].source # "edit", Written(v) # {}
               PROVE  CompiledAs(JobToDto(Written(v)), SaidSections(wrote[v].sections))
    BY DEF CompiledFaithfully, CompiledAs, CompiledFindings, SaidSections
  <2> DEFINE t == Normalize(wrote[v].sections)
  <2>1. PICK b : Written(v) = InsertSections(v, b, t)
    BY WhatIsStored DEF TreeOf
  <2>2. IsTree(wrote[v].sections) /\ CompiledReport(wrote[v].sections)
    BY WhatIsStored DEF Sound
  <2>3. RowTree(t) /\ CompiledAs(DtoOf(t), SaidSections(wrote[v].sections))
    BY <2>2, CompiledRead
  <2> HIDE DEF t
  <2>4. JobToDto(Written(v)) = DtoOf(t)
    BY <2>1, <2>3, StoredRead DEF RowTree
  <2> QED
    BY <2>3, <2>4
<1> QED
  BY <1>1, InitStored, NextStored, PTL DEF Spec

\* For reports of any size: the document printed from a stored report holds the
\* sections and findings that the API answers with, in the same order, and its
\* chips count every finding of every severity once.
THEOREM PrintedReportTellsAll == Spec => []PdfTellsAll
<1>1. StoredInv => PdfTellsAll
  <2> SUFFICES ASSUME StoredInv, NEW v \in DOMAIN wrote
               PROVE  PrintedAs(JobToDto(Written(v)), BuildReportHtml(ToReportView(ExistingReport(Written(v)))))
    BY DEF PdfTellsAll, PrintedAs, CountedIn
  <2>1. \E t, b : RowTree(t) /\ Written(v) = InsertSections(v, b, t)
    <3>1. CASE Written(v) = {}
      BY <3>1, EmptyTree
    <3>2. CASE Written(v) # {}
      BY <3>2, WhatIsStored, SoundTree
    <3> QED
      BY <3>1, <3>2
  <2>2. PICK t, b : RowTree(t) /\ Written(v) = InsertSections(v, b, t)
    BY <2>1
  <2>3. JobToDto(Written(v)) = DtoOf(t) /\ ToReportView(ExistingReport(Written(v))) = ViewOf(t)
    BY <2>2, StoredRead DEF RowTree
  <2> QED
    BY <2>2, <2>3, PrintedRead
<1> QED
  BY <1>1, InitStored, NextStored, PTL DEF Spec

=============================================================================
