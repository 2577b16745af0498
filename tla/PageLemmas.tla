------------------------------- MODULE PageLemmas -------------------------------
(***************************************************************************)
(* What the proofs about several steps share: how the writes to a row of   *)
(* chat_migration_step leave its columns, and facts about the pages that   *)
(* the steps read: the first n of a finite set of keys above a cursor, and *)
(* the n from an offset of a set of rows, of which a key may have two.  A  *)
(* key is a number; its rank is the number of keys before it.              *)
(***************************************************************************)
EXTENDS StepTable, FiniteSets, FiniteSetTheorems, WellFoundedInduction, TLAPS

(* Rows whose cursors are numbers. *)

SavedIn(r) == GetCursorProgress(r, 0)

LEMMA RowFacts ==
    ASSUME NEW Cursors, NEW r \in StepRow(Cursors)
    PROVE  /\ SavedIn(r) \in Cursors \cup {0}
           /\ r.completedAt \in Nat
           /\ r.cursor = NoCursor => SavedIn(r) = 0
BY DEF StepRow, SavedIn, GetCursorProgress

LEMMA FailedRow ==
    ASSUME NEW Cursors, NEW r \in StepRow(Cursors)
    PROVE  LET f == MarkStepFailed(r, 0)
           IN  /\ f \in StepRow(Cursors) /\ f.status = "failed"
               /\ f.completedAt = r.completedAt
               /\ (~IsCompleted(r) \/ r.cursor = NoCursor) => SavedIn(f) = SavedIn(r)
BY DEF StepRow, MarkStepFailed, IsCompleted, Statuses, SavedIn, GetCursorProgress

LEMMA CursorRow ==
    ASSUME NEW Cursors, NoCursor \notin Cursors, NEW r \in StepRow(Cursors), NEW k \in Cursors
    PROVE  LET s == SaveCursorProgress(r, k)
           IN  /\ s \in StepRow(Cursors) /\ s.status = "in_progress"
               /\ s.completedAt = r.completedAt /\ SavedIn(s) = k
BY DEF StepRow, SaveCursorProgress, IsCompleted, Statuses, SavedIn, GetCursorProgress

LEMMA CompletedRow ==
    ASSUME NEW Cursors, NEW r \in StepRow(Cursors), NEW t \in Nat
    PROVE  LET d == MarkStepCompleted(r, t)
           IN  /\ d \in StepRow(Cursors) /\ d.status = "completed" /\ d.cursor = NoCursor
               /\ d.completedAt = t
BY DEF StepRow, MarkStepCompleted, Statuses

(* Rows with an offset. *)

LEMMA OffsetRowFacts ==
    ASSUME NEW r \in StepRow({}), NEW n \in Nat
    PROVE  /\ SaveStepProgress(r, n) \in StepRow({}) /\ ~IsCompleted(SaveStepProgress(r, n))
           /\ MarkStepFailed(r, n) \in StepRow({}) /\ ~IsCompleted(MarkStepFailed(r, n))
           /\ MarkStepCompleted(r, n) \in StepRow({}) /\ IsCompleted(MarkStepCompleted(r, n))
           /\ r.offset \in Nat /\ r.completedAt \in Nat /\ GetStepProgress(r) \in Nat
BY DEF StepRow, Statuses, SaveStepProgress, MarkStepFailed, MarkStepCompleted, IsCompleted,
       GetStepProgress

LEMMA OffsetRowValues ==
    ASSUME NEW r \in StepRow({}), NEW n \in Nat
    PROVE  /\ SaveStepProgress(r, n).status = "in_progress" /\ MarkStepFailed(r, n).status = "failed"
           /\ GetStepProgress(SaveStepProgress(r, n)) = n /\ GetStepProgress(MarkStepFailed(r, n)) = n
           /\ SaveStepProgress(r, n).completedAt = r.completedAt
           /\ MarkStepFailed(r, n).completedAt = r.completedAt
           /\ MarkStepCompleted(r, n).status = "completed" /\ MarkStepCompleted(r, n).offset = 0
           /\ MarkStepCompleted(r, n).completedAt = n
BY DEF StepRow, Statuses, SaveStepProgress, MarkStepFailed, MarkStepCompleted, IsCompleted,
       GetStepProgress

--------------------------------------------------------------------------------
(* Pages. *)

Rank(x, S) == Cardinality({y \in S : y < x})

FirstOf(n, S) == {x \in S : Rank(x, S) < n}

--------------------------------------------------------------------------------

LEMMA NatMin ==
    ASSUME NEW S \in SUBSET Nat, S # {}
    PROVE  \E m \in S : \A n \in S : m <= n
<1> DEFINE R == {ss \in Nat \X Nat : ss[1] < ss[2]}
<1>1. IsWellFoundedOn(R, Nat)
  BY NatLessThanWellFounded DEF OpToRel
<1>2. \A m, n \in Nat : n < m => <<n, m>> \in R
  <2> SUFFICES ASSUME NEW m \in Nat, NEW n \in Nat, n < m
               PROVE  <<n, m>> \in R
    OBVIOUS
  <2>1. <<n, m>> \in Nat \X Nat /\ <<n, m>>[1] = n /\ <<n, m>>[2] = m
    OBVIOUS
  <2> QED
    BY <2>1
<1> HIDE DEF R
<1>3. PICK m \in S : \A n \in S : ~(<<n, m>> \in R)
  BY <1>1, WFMin
<1>4. ASSUME NEW n \in S
      PROVE  m <= n
  <2>1. m \in Nat /\ n \in Nat
    OBVIOUS
  <2>2. ~(n < m)
    BY <1>2, <1>3, <2>1
  <2> QED
    BY <2>1, <2>2
<1> QED
  BY <1>4

\* By taking the smallest number of elements for which it fails.
LEMMA NatMax ==
    ASSUME NEW S \in SUBSET Nat, IsFiniteSet(S), S # {}
    PROVE  \E m \in S : \A n \in S : n <= m
<1> DEFINE HasMax(T) == \E m \in T : \A n \in T : n <= m
           Sizes == {k \in Nat : \E T \in SUBSET S : T # {} /\ Cardinality(T) = k /\ ~HasMax(T)}
<1>1. SUFFICES ASSUME ~HasMax(S)
               PROVE  FALSE
  OBVIOUS
<1>2. Cardinality(S) \in Sizes
  BY <1>1, FS_CardinalityType
<1>3. PICK k \in Sizes : \A j \in Sizes : k <= j
  <2> HIDE DEF Sizes
  <2>1. Sizes \in SUBSET Nat
    BY DEF Sizes
  <2> QED
    BY <1>2, <2>1, NatMin
<1>4. PICK T \in SUBSET S : T # {} /\ Cardinality(T) = k /\ ~HasMax(T)
  OBVIOUS
<1>5. PICK x \in T : TRUE
  BY <1>4
<1>6. /\ IsFiniteSet(T) /\ IsFiniteSet(T \ {x})
      /\ Cardinality(T) \in Nat /\ Cardinality(T \ {x}) = Cardinality(T) - 1
      /\ Cardinality(T \ {x}) \in Nat
  BY FS_Subset, FS_RemoveElement, FS_CardinalityType
<1>7. CASE T \ {x} = {}
  <2>1. T = {x}
    BY <1>7
  <2> QED
    BY <1>4, <2>1
<1>8. CASE T \ {x} # {}
  <2>1. Cardinality(T \ {x}) \notin Sizes
    <3> HIDE DEF Sizes
    <3>1. k \in Nat /\ Cardinality(T \ {x}) = k - 1
      BY <1>4, <1>6
    <3>2. ~(k <= k - 1)
      BY <3>1
    <3> QED
      BY <1>3, <3>1, <3>2
  <2>2. PICK m \in T \ {x} : \A n \in T \ {x} : n <= m
    <3>1. T \ {x} \in SUBSET S
      OBVIOUS
    <3> QED
      BY <1>6, <1>8, <2>1, <3>1
  <2>3. \A n \in T : n <= IF x <= m THEN m ELSE x
    <3> SUFFICES ASSUME NEW n \in T
                 PROVE  n <= IF x <= m THEN m ELSE x
      OBVIOUS
    <3>1. n \in Nat /\ m \in Nat /\ x \in Nat
      OBVIOUS
    <3> QED
      BY <2>2, <3>1
  <2> QED
    BY <1>4, <2>3
<1> QED
  BY <1>7, <1>8

LEMMA RankFacts ==
    ASSUME NEW S \in SUBSET Nat, IsFiniteSet(S)
    PROVE  /\ \A x \in Nat : Rank(x, S) \in Nat
           /\ \A x, y \in Nat : x <= y => Rank(x, S) <= Rank(y, S)
           /\ \A x \in S, y \in Nat : x < y => Rank(x, S) < Rank(y, S)
<1> DEFINE below(x) == {y \in S : y < x}
<1>1. \A x : IsFiniteSet(below(x)) /\ Cardinality(below(x)) \in Nat
  <2> TAKE x
  <2>1. below(x) \in SUBSET S
    OBVIOUS
  <2> QED
    BY <2>1, FS_Subset, FS_CardinalityType
<1>2. \A x, y \in Nat : x <= y => Cardinality(below(x)) <= Cardinality(below(y))
  <2> SUFFICES ASSUME NEW x \in Nat, NEW y \in Nat, x <= y
               PROVE  Cardinality(below(x)) <= Cardinality(below(y))
    OBVIOUS
  <2>1. below(x) \in SUBSET below(y)
    <3> SUFFICES ASSUME NEW z \in S, z < x
                 PROVE  z < y
      OBVIOUS
    <3>1. z \in Nat
      OBVIOUS
    <3> QED
      BY <3>1
  <2> HIDE DEF below
  <2> QED
    BY <1>1, <2>1, FS_Subset
<1>3. \A x \in S, y \in Nat : x < y => Cardinality(below(x)) < Cardinality(below(y))
  <2> SUFFICES ASSUME NEW x \in S, NEW y \in Nat, x < y
               PROVE  Cardinality(below(x)) < Cardinality(below(y))
    OBVIOUS
  <2>0. x \in Nat
    OBVIOUS
  <2>1. below(x) \in SUBSET below(y) /\ x \in below(y) /\ x \notin below(x)
    <3>1. below(x) \in SUBSET below(y)
      <4> SUFFICES ASSUME NEW z \in S, z < x
                   PROVE  z < y
        OBVIOUS
      <4>1. z \in Nat
        OBVIOUS
      <4> QED
        BY <2>0, <4>1
    <3> QED
      BY <2>0, <3>1
  <2> HIDE DEF below
  <2>2. /\ Cardinality(below(x)) <= Cardinality(below(y))
        /\ Cardinality(below(x)) # Cardinality(below(y))
    BY <1>1, <2>1, FS_Subset
  <2> QED
    BY <1>1, <2>2
<1> QED
  BY <1>1, <1>2, <1>3 DEF Rank

\* A key that is not on the first page comes after a page that is full.
LEMMA FirstPage ==
    ASSUME NEW S \in SUBSET Nat, IsFiniteSet(S), NEW n \in Nat \ {0}
    PROVE  /\ FirstOf(n, S) \in SUBSET S /\ IsFiniteSet(FirstOf(n, S))
           /\ Cardinality(FirstOf(n, S)) \in Nat
           /\ \A x \in S \ FirstOf(n, S) :
                 /\ \A b \in FirstOf(n, S) : b < x
                 /\ Cardinality(FirstOf(n, S)) >= n
           /\ S # {} => FirstOf(n, S) # {}
<1> DEFINE page == FirstOf(n, S)
<1>1. page \in SUBSET S /\ IsFiniteSet(page) /\ Cardinality(page) \in Nat
  <2>1. page \in SUBSET S
    BY DEF FirstOf
  <2> QED
    BY <2>1, FS_Subset, FS_CardinalityType
<1>2. \A x \in S \ page, b \in page : b < x
  <2> SUFFICES ASSUME NEW x \in S \ page, NEW b \in page, ~(b < x)
               PROVE  FALSE
    OBVIOUS
  <2>0. x \in Nat /\ b \in Nat
    <3>1. b \in S
      BY <1>1
    <3> QED
      BY <3>1
  <2>1. x <= b
    BY <2>0
  <2>2. Rank(x, S) <= Rank(b, S) /\ Rank(x, S) \in Nat /\ Rank(b, S) \in Nat
    BY <2>0, <2>1, RankFacts
  <2>3. Rank(b, S) < n /\ ~(Rank(x, S) < n)
    BY DEF FirstOf
  <2> QED
    BY <2>2, <2>3
<1>3. ASSUME S \ page # {}
      PROVE  Cardinality(page) >= n
  <2>1. S \ page \in SUBSET Nat
    OBVIOUS
  <2>2. PICK m \in S \ page : \A x \in S \ page : m <= x
    BY <1>3, <2>1, NatMin
  <2>3. {y \in S : y < m} \in SUBSET page
    <3> SUFFICES ASSUME NEW y \in S, y < m, y \notin page
                 PROVE  FALSE
      OBVIOUS
    <3>1. m \in Nat /\ y \in Nat /\ m <= y
      BY <2>2
    <3> QED
      BY <3>1
  <2>4. Rank(m, S) <= Cardinality(page)
    BY <1>1, <2>3, FS_Subset DEF Rank
  <2>5. ~(Rank(m, S) < n) /\ Rank(m, S) \in Nat
    BY RankFacts DEF FirstOf
  <2> QED
    BY <1>1, <2>4, <2>5
<1>4. S # {} => page # {}
  <2>1. ASSUME S # {}, page = {}
        PROVE  FALSE
    BY <1>3, <2>1, FS_EmptySet
  <2> QED
    BY <2>1
<1> QED
  BY <1>1, <1>2, <1>3, <1>4

LEMMA FirstPageIsBounded ==
    ASSUME NEW S \in SUBSET Nat, IsFiniteSet(S), NEW n \in Nat
    PROVE  /\ FirstOf(n, S) \in SUBSET S /\ IsFiniteSet(FirstOf(n, S))
           /\ Cardinality(FirstOf(n, S)) \in Nat /\ Cardinality(FirstOf(n, S)) <= n
<1> DEFINE page == FirstOf(n, S)
<1>1. page \in SUBSET S /\ IsFiniteSet(page) /\ Cardinality(page) \in Nat
  <2>1. page \in SUBSET S
    BY DEF FirstOf
  <2> QED
    BY <2>1, FS_Subset, FS_CardinalityType
<1>2. CASE page = {}
  BY <1>1, <1>2, FS_EmptySet
<1>3. CASE page # {}
  <2>1. PICK m \in page : \A x \in page : x <= m
    BY <1>1, <1>3, NatMax
  <2> DEFINE below == {y \in S : y < m}
  <2>2. page \ {m} \in SUBSET below
    <3> SUFFICES ASSUME NEW x \in page, x # m
                 PROVE  x \in S /\ x < m
      OBVIOUS
    <3>1. x \in S /\ x \in Nat /\ m \in Nat /\ x <= m
      BY <1>1, <2>1
    <3> QED
      BY <3>1
  <2>3. Cardinality(below) \in Nat /\ Cardinality(below) < n /\ IsFiniteSet(below)
    <3>1. m \in Nat /\ Rank(m, S) < n
      BY <1>1, <2>1 DEF FirstOf
    <3>2. below \in SUBSET S
      OBVIOUS
    <3> QED
      BY <3>1, <3>2, FS_Subset, FS_CardinalityType DEF Rank
  <2> HIDE DEF below, page
  <2>4. Cardinality(page \ {m}) = Cardinality(page) - 1 /\ IsFiniteSet(page \ {m})
    BY <1>1, <2>1, FS_RemoveElement
  <2>5. Cardinality(page \ {m}) <= Cardinality(below)
    BY <2>2, <2>3, FS_Subset
  <2> QED
    BY <1>1, <2>3, <2>4, <2>5 DEF page
<1> QED
  BY <1>2, <1>3

\* OFFSET m LIMIT n: what comes after the page comes after a full one.
LEMMA OffsetPage ==
    ASSUME NEW S \in SUBSET Nat, IsFiniteSet(S), NEW m \in Nat, NEW n \in Nat \ {0},
           NEW page, page = {x \in S : m <= Rank(x, S) /\ Rank(x, S) < m + n}
    PROVE  /\ IsFiniteSet(page) /\ Cardinality(page) \in Nat
           /\ \A x \in S : m + n <= Rank(x, S) => Cardinality(page) >= n
<1> DEFINE upTo == FirstOf(m + n, S)
           past == FirstOf(m, S)
<1>1. /\ IsFiniteSet(upTo) /\ Cardinality(upTo) \in Nat /\ m + n \in Nat \ {0}
      /\ \A x \in S \ upTo : Cardinality(upTo) >= m + n
      /\ IsFiniteSet(past) /\ Cardinality(past) \in Nat /\ Cardinality(past) <= m
  <2>1. m + n \in Nat \ {0}
    OBVIOUS
  <2> QED
    BY <2>1, FirstPage, FirstPageIsBounded
<1>2. \A x \in S : Rank(x, S) \in Nat
  BY RankFacts
<1>3. page = upTo \ past /\ upTo \cap past = past
  <2>1. \A x \in S : /\ x \in upTo <=> Rank(x, S) < m + n
                     /\ x \in past <=> Rank(x, S) < m
                     /\ x \in page <=> m <= Rank(x, S) /\ Rank(x, S) < m + n
    BY DEF FirstOf
  <2>2. upTo \in SUBSET S /\ past \in SUBSET S /\ page \in SUBSET S
    BY DEF FirstOf
  <2> HIDE DEF upTo, past
  <2>3. \A x \in S : (x \in page <=> x \in upTo /\ x \notin past) /\ (x \in past => x \in upTo)
    <3> TAKE x \in S
    <3>1. Rank(x, S) \in Nat
      BY <1>2
    <3> QED
      BY <2>1, <3>1
  <2> QED
    BY <2>2, <2>3
<1>4. \A x \in S : m + n <= Rank(x, S) => x \in S \ upTo
  BY <1>2 DEF FirstOf
<1> HIDE DEF upTo, past
<1>5. IsFiniteSet(page) /\ Cardinality(page) = Cardinality(upTo) - Cardinality(past)
  BY <1>1, <1>3, FS_Difference
<1>6. Cardinality(page) \in Nat
  BY <1>5, FS_CardinalityType
<1> QED
  BY <1>1, <1>4, <1>5, <1>6

\* In a larger set of keys a key has no smaller rank.
LEMMA RankGrows ==
    ASSUME NEW T \in SUBSET Nat, IsFiniteSet(T), NEW S \in SUBSET T, NEW x
    PROVE  Rank(x, S) <= Rank(x, T) /\ Rank(x, S) \in Nat /\ Rank(x, T) \in Nat
<1>1. {y \in S : y < x} \in SUBSET {y \in T : y < x} /\ {y \in T : y < x} \in SUBSET T
  OBVIOUS
<1> QED
  BY <1>1, FS_Subset, FS_CardinalityType DEF Rank

LEMMA InjectiveImage ==
    ASSUME NEW S, IsFiniteSet(S), NEW f, \A x, y \in S : f[x] = f[y] => x = y
    PROVE  /\ IsFiniteSet({f[x] : x \in S})
           /\ Cardinality({f[x] : x \in S}) = Cardinality(S)
<1> DEFINE T == {f[x] : x \in S}
           g == [x \in S |-> f[x]]
<1>1. g \in Bijection(S, T)
  BY DEF Bijection, Injection, Surjection, IsInjective
<1>2. ExistsBijection(S, T)
  BY <1>1 DEF ExistsBijection
<1> QED
  BY <1>2, FS_Bijection

(* Pages of rows.  A row is a key and 1, or the key and 2 beside that one;  *)
(* of two rows of a key, first says which comes first.                      *)

AreRows(F, first) ==
    /\ F \in SUBSET (Nat \X {1, 2}) /\ IsFiniteSet(F)
    /\ \A t \in F : t[2] = 2 => <<t[1], 1>> \in F /\ first[t[1]] \in {1, 2}

EarlierRows(k, F) == Cardinality({u \in F : u[1] < k})

RowsBefore(t, F, first) ==
    Cardinality({u \in F : u[1] < t[1] \/ (u[1] = t[1] /\ u # t /\ u[2] = first[u[1]])})

CodesOf(code, F) == {code[t] : t \in F}

RowsFrom(m, n, F, first) ==
    {t \in F : m <= RowsBefore(t, F, first) /\ RowsBefore(t, F, first) < m + n}

\* One of the rows of a key comes right after the rows of smaller keys.
LEMMA LeadingRow ==
    ASSUME NEW F, NEW first, AreRows(F, first), NEW k, <<k, 1>> \in F
    PROVE  \E t \in F : /\ t[1] = k /\ (<<k, 2>> \notin F => t = <<k, 1>>)
                        /\ RowsBefore(t, F, first) = EarlierRows(k, F)
<1> DEFINE lead == IF <<k, 2>> \in F THEN <<k, first[k]>> ELSE <<k, 1>>
<1>0. /\ F \in SUBSET (Nat \X {1, 2})
      /\ <<k, 2>> \in F => first[k] \in {1, 2}
  BY DEF AreRows
<1>1. lead \in F /\ lead[1] = k /\ (<<k, 2>> \notin F => lead = <<k, 1>>)
  BY <1>0
<1>2. ASSUME NEW u \in F, u[1] = k, u # lead
      PROVE  u[2] # first[k]
  <2>1. u = <<k, 1>> \/ u = <<k, 2>>
    BY <1>0, <1>2
  <2> QED
    BY <1>2, <2>1
<1> HIDE DEF lead
<1>3. {u \in F : u[1] < lead[1] \/ (u[1] = lead[1] /\ u # lead /\ u[2] = first[u[1]])}
        = {u \in F : u[1] < k}
  BY <1>1, <1>2
<1> QED
  BY <1>1, <1>3 DEF RowsBefore, EarlierRows

\* Rows in their order are numbers in theirs.
LEMMA RowCodes ==
    ASSUME NEW F, NEW first, AreRows(F, first)
    PROVE  \E code \in [F -> Nat] :
              /\ \A t, u \in F : code[t] = code[u] => t = u
              /\ \A t \in F : RowsBefore(t, F, first) = Rank(code[t], CodesOf(code, F))
<1> DEFINE late(t) == <<t[1], 2>> \in F /\ t[2] # first[t[1]]
           code == [t \in F |-> 2 * t[1] + IF late(t) THEN 1 ELSE 0]
           before(u, t) == u[1] < t[1] \/ (u[1] = t[1] /\ u # t /\ u[2] = first[u[1]])
<1>0. /\ F \in SUBSET (Nat \X {1, 2}) /\ IsFiniteSet(F)
      /\ \A t \in F : t[2] = 2 => <<t[1], 1>> \in F /\ first[t[1]] \in {1, 2}
  BY DEF AreRows
<1>1. \A t \in F : t = <<t[1], t[2]>> /\ t[1] \in Nat /\ t[2] \in {1, 2} /\ code[t] \in Nat
  BY <1>0
<1>2. ASSUME NEW t \in F, NEW u \in F, t[1] = u[1], t # u
      PROVE  late(t) <=> ~late(u)
  <2>1. <<t[1], 2>> \in F /\ first[t[1]] \in {1, 2} /\ t[2] # u[2]
    BY <1>0, <1>1, <1>2
  <2> QED
    BY <1>1, <1>2, <2>1
<1>3. ASSUME NEW t \in F, NEW u \in F
      PROVE  /\ code[t] = code[u] => t = u
             /\ code[u] < code[t] <=> before(u, t)
  <2>1. CASE t[1] # u[1]
    BY <1>1, <2>1
  <2>2. CASE t = u
    BY <1>1, <2>2
  <2>3. CASE t[1] = u[1] /\ t # u
    <3>1. late(t) <=> ~late(u)
      BY <1>2, <2>3
    <3>2. before(u, t) <=> ~late(u)
      <4>1. <<u[1], 2>> \in F /\ first[u[1]] \in {1, 2}
        BY <1>0, <1>1, <2>3
      <4> QED
        BY <1>1, <2>3, <4>1
    <3> HIDE DEF late, before
    <3> QED
      BY <1>1, <2>3, <3>1, <3>2
  <2> QED
    BY <2>1, <2>2, <2>3
<1>4. code \in [F -> Nat]
  BY <1>1
<1> HIDE DEF code
<1> DEFINE C == {code[u] : u \in F}
<1>5. ASSUME NEW t \in F
      PROVE  RowsBefore(t, F, first) = Rank(code[t], C)
  <2> DEFINE P == {u \in F : before(u, t)}
  <2>1. {y \in C : y < code[t]} = {code[u] : u \in P}
    BY <1>3
  <2>2. IsFiniteSet(P)
    BY <1>0, FS_Subset
  <2>3. \A x, y \in P : code[x] = code[y] => x = y
    BY <1>3
  <2>4. Cardinality({code[u] : u \in P}) = Cardinality(P)
    <3> HIDE DEF P
    <3> QED
      BY <2>2, <2>3, InjectiveImage
  <2> QED
    BY <2>1, <2>4 DEF RowsBefore, Rank
<1> QED
  BY <1>3, <1>4, <1>5 DEF CodesOf

\* OFFSET m LIMIT n over rows.
LEMMA RowPage ==
    ASSUME NEW F, NEW first, AreRows(F, first), NEW m \in Nat, NEW n \in Nat \ {0}
    PROVE  /\ RowsFrom(m, n, F, first) \in SUBSET F /\ IsFiniteSet(RowsFrom(m, n, F, first))
           /\ Cardinality(RowsFrom(m, n, F, first)) \in Nat
           /\ \A k : <<k, 1>> \in F =>
                 /\ EarlierRows(k, F) \in Nat
                 /\ m <= EarlierRows(k, F) /\ EarlierRows(k, F) < m + n =>
                       \E t \in RowsFrom(m, n, F, first) : t[1] = k
                 /\ m + n <= EarlierRows(k, F) => Cardinality(RowsFrom(m, n, F, first)) >= n
                 /\ <<k, 2>> \notin F /\ <<k, 1>> \in RowsFrom(m, n, F, first) =>
                       m <= EarlierRows(k, F) /\ EarlierRows(k, F) < m + n
<1>1. PICK code \in [F -> Nat] :
         /\ \A t, u \in F : code[t] = code[u] => t = u
         /\ \A t \in F : RowsBefore(t, F, first) = Rank(code[t], CodesOf(code, F))
  BY RowCodes
<1> DEFINE page == RowsFrom(m, n, F, first)
<1>0. F \in SUBSET (Nat \X {1, 2}) /\ IsFiniteSet(F)
  BY DEF AreRows
<1>2. page \in SUBSET F /\ IsFiniteSet(page) /\ Cardinality(page) \in Nat
  <2>1. page \in SUBSET F
    BY DEF RowsFrom
  <2> QED
    BY <1>0, <2>1, FS_Subset, FS_CardinalityType
<1> DEFINE C == CodesOf(code, F)
           codes == {x \in C : m <= Rank(x, C) /\ Rank(x, C) < m + n}
<1>3. C \in SUBSET Nat /\ IsFiniteSet(C)
  BY <1>0, <1>1, InjectiveImage DEF CodesOf
<1>4. Cardinality(codes) = Cardinality(page)
  <2>1. codes = {code[t] : t \in page}
    BY <1>1 DEF RowsFrom, CodesOf
  <2> HIDE DEF codes
  <2> QED
    BY <1>2, <1>1, <2>1, InjectiveImage
<1>5. \A x \in C : m + n <= Rank(x, C) => Cardinality(codes) >= n
  <2> HIDE DEF C
  <2> QED
    BY <1>3, OffsetPage
<1>6. ASSUME NEW k, <<k, 1>> \in F
      PROVE  /\ EarlierRows(k, F) \in Nat
             /\ m <= EarlierRows(k, F) /\ EarlierRows(k, F) < m + n => \E t \in page : t[1] = k
             /\ m + n <= EarlierRows(k, F) => Cardinality(page) >= n
             /\ <<k, 2>> \notin F /\ <<k, 1>> \in page =>
                   m <= EarlierRows(k, F) /\ EarlierRows(k, F) < m + n
  <2>1. PICK lead \in F : /\ lead[1] = k /\ (<<k, 2>> \notin F => lead = <<k, 1>>)
                          /\ RowsBefore(lead, F, first) = EarlierRows(k, F)
    BY <1>6, LeadingRow
  <2>3. EarlierRows(k, F) \in Nat
    BY <1>0, FS_Subset, FS_CardinalityType DEF EarlierRows
  <2>4. code[lead] \in C /\ Rank(code[lead], C) = EarlierRows(k, F)
    BY <1>1, <2>1 DEF CodesOf
  <2> HIDE DEF C, codes
  <2>5. m + n <= EarlierRows(k, F) => Cardinality(page) >= n
    BY <1>4, <1>5, <2>4
  <2> QED
    BY <2>1, <2>3, <2>5 DEF RowsFrom
<1> QED
  BY <1>2, <1>6

================================================================================
