---------------------------- MODULE Audit_proofs ----------------------------
(***************************************************************************)
(* Proofs for Audit, and so for the tally it runs.  In the order below:     *)
(*   - positions of a sequence and the sequence picked from them (RankNth,  *)
(*     PickIs, PickNext), which say what a sort or a filter did;            *)
(*   - the sort is a stable sort by block (Places, Sorting);                *)
(*   - each loop of the code, a fold, keeps an invariant of its own; the    *)
(*     instances of FoldLoop turn that into what the loop returns, which is *)
(*     what Ring states over the set of the list's remarks;                 *)
(*   - the walk: its books are Ring's verdict on the positions behind it;   *)
(*   - the scan: whichever worker pushed what when, the list holds the      *)
(*     remarks of a block together and in order, and the sort of such a     *)
(*     list is the window of the chain (SortGathers);                       *)
(*   - the invariant, and what it says of what is printed.                  *)
(***************************************************************************)
EXTENDS Audit, FiniteSetTheorems, TLAPS

-----------------------------------------------------------------------------
(* Counting.                                                                *)

\* A chain of sets, one for each element of D and with it as its own last
\* element, has one set of each size.
Nested(D, V) ==
  /\ V \in [D -> SUBSET D]
  /\ \A i \in D : i \in V[i]
  /\ \A i, j \in D :
       i # j => \/ V[i] \subseteq V[j] /\ j \notin V[i]
                \/ V[j] \subseteq V[i] /\ i \notin V[j]

Sized(D, V) ==
  /\ Cardinality(D) \in Nat
  /\ \A i \in D : Cardinality(V[i]) \in 1..Cardinality(D)
  /\ \A i, j \in D : V[i] \subseteq V[j] /\ j \notin V[i]
                       => Cardinality(V[i]) < Cardinality(V[j])
  /\ \A i, j \in D : Cardinality(V[i]) = Cardinality(V[j]) => i = j
  /\ \A n \in 1..Cardinality(D) : \E i \in D : Cardinality(V[i]) = n

LEMMA ChainOfSets ==
  ASSUME NEW D, IsFiniteSet(D), NEW V, Nested(D, V) PROVE Sized(D, V)
<1>0. /\ V \in [D -> SUBSET D]
      /\ \A i \in D : i \in V[i]
      /\ \A i, j \in D :
           i # j => \/ V[i] \subseteq V[j] /\ j \notin V[i]
                    \/ V[j] \subseteq V[i] /\ i \notin V[j]
  BY DEF Nested
<1> DEFINE N == Cardinality(D)
           f == [i \in D |-> Cardinality(V[i])]
<1>1. N \in Nat
  BY FS_CardinalityType
<1>2. ASSUME NEW i \in D PROVE IsFiniteSet(V[i]) /\ Cardinality(V[i]) \in 1..N
  <2>1. V[i] \in SUBSET D /\ V[i] # {}
    BY <1>0
  <2>2. IsFiniteSet(V[i]) /\ Cardinality(V[i]) <= N
    BY <2>1, FS_Subset
  <2>3. Cardinality(V[i]) \in Nat /\ Cardinality(V[i]) # 0
    BY <2>1, <2>2, FS_CardinalityType, FS_EmptySet
  <2>4. QED
    BY <1>1, <2>2, <2>3
<1>3. ASSUME NEW i \in D, NEW j \in D, V[i] \subseteq V[j], j \notin V[i]
      PROVE  Cardinality(V[i]) < Cardinality(V[j])
  <2>1. V[i] \in SUBSET V[j] /\ V[i] # V[j]
    BY <1>0, <1>3
  <2>2. Cardinality(V[i]) <= Cardinality(V[j]) /\ Cardinality(V[i]) # Cardinality(V[j])
    BY <1>2, <2>1, FS_Subset
  <2>3. Cardinality(V[i]) \in Nat /\ Cardinality(V[j]) \in Nat
    BY <1>1, <1>2
  <2>4. QED
    BY <2>2, <2>3
<1>4. ASSUME NEW i \in D, NEW j \in D, Cardinality(V[i]) = Cardinality(V[j])
      PROVE  i = j
  <2>1. Cardinality(V[i]) \in Nat /\ Cardinality(V[j]) \in Nat
    BY <1>1, <1>2
  <2>2. QED
    BY <1>0, <1>3, <1>4, <2>1
<1>5. f \in Injection(D, 1..N)
  <2>1. f \in [D -> 1..N]
    BY <1>2
  <2>2. \A i, j \in D : f[i] = f[j] => i = j
    BY <1>4
  <2>3. QED
    BY <2>1, <2>2 DEF Injection, IsInjective
<1>6. IsFiniteSet(1..N) /\ Cardinality(1..N) = N
  BY <1>1, FS_Interval
<1>7. f \in Surjection(D, 1..N)
  <2>1. IsFiniteSet(D) /\ Cardinality(D) = Cardinality(1..N)
    BY <1>6
  <2>2. QED
    BY <1>5, <1>6, <2>1, FS_Injection
<1>8. \A n \in 1..N : \E i \in D : Cardinality(V[i]) = n
  BY <1>7 DEF Surjection
<1>9. QED
  BY <1>1, <1>2, <1>3, <1>4, <1>8 DEF Sized

\* How far the element k of at comes in it.
Rank(at, k) == Cardinality({j \in at : j <= k})

LEMMA RankNth ==
  ASSUME NEW n \in Nat, NEW at \in SUBSET (1..n)
  PROVE  /\ IsFiniteSet(at) /\ Cardinality(at) \in Nat
         /\ \A k \in at : Rank(at, k) \in 1..Cardinality(at) /\ Nth(at, Rank(at, k)) = k
         /\ \A m \in 1..Cardinality(at) : Nth(at, m) \in at /\ Rank(at, Nth(at, m)) = m
         /\ \A j, k \in at : j < k => Rank(at, j) < Rank(at, k)
<1> DEFINE V == [k \in at |-> {j \in at : j <= k}]
<1>1. IsFiniteSet(at)
  <2>1. IsFiniteSet(1..n)
    BY FS_Interval
  <2>2. QED
    BY <2>1, FS_Subset
<1>2. V \in [at -> SUBSET at] /\ \A k \in at : k \in V[k]
  OBVIOUS
<1>3. \A j, k \in at : j < k => V[j] \subseteq V[k] /\ k \notin V[j]
  <2>1. ASSUME NEW j \in at, NEW k \in at, j < k PROVE V[j] \subseteq V[k] /\ k \notin V[j]
    <3>1. j \in Int /\ k \in Int /\ ~(k <= j)
      BY <2>1
    <3>2. \A i \in at : i <= j => i <= k
      BY <2>1
    <3>3. QED
      BY <3>1, <3>2
  <2>2. QED
    BY <2>1
<1>4. \A j, k \in at : j # k => \/ V[j] \subseteq V[k] /\ k \notin V[j]
                                \/ V[k] \subseteq V[j] /\ j \notin V[k]
  <2>1. \A j, k \in at : j # k => j < k \/ k < j
    OBVIOUS
  <2>2. QED
    BY <1>3, <2>1
<1>5. \A k \in at : Rank(at, k) = Cardinality(V[k])
  BY DEF Rank
<1> HIDE DEF V
<1>6. /\ Cardinality(at) \in Nat
      /\ \A k \in at : Rank(at, k) \in 1..Cardinality(at)
      /\ \A j, k \in at : V[j] \subseteq V[k] /\ k \notin V[j] => Rank(at, j) < Rank(at, k)
      /\ \A j, k \in at : Rank(at, j) = Rank(at, k) => j = k
      /\ \A m \in 1..Cardinality(at) : \E k \in at : Rank(at, k) = m
  <2>1. Nested(at, V)
    BY <1>2, <1>4 DEF Nested
  <2>2. Sized(at, V)
    BY <1>1, <2>1, ChainOfSets
  <2>3. QED
    BY <1>5, <2>2 DEF Sized
<1>7. \A m : Nth(at, m) = CHOOSE k \in at : Rank(at, k) = m
  BY DEF Nth, Rank
<1>8. ASSUME NEW m \in 1..Cardinality(at)
      PROVE  Nth(at, m) \in at /\ Rank(at, Nth(at, m)) = m
  BY <1>6, <1>7
<1>9. QED
  BY <1>1, <1>3, <1>6, <1>8

LEMMA PickTypes ==
  ASSUME NEW S, NEW s \in Seq(S), NEW at \in SUBSET DOMAIN s
  PROVE  Pick(s, at) \in Seq(S) /\ Len(Pick(s, at)) = Cardinality(at)
<1>1. Len(s) \in Nat /\ DOMAIN s = 1..Len(s)
  OBVIOUS
<1>2. /\ Cardinality(at) \in Nat
      /\ \A m \in 1..Cardinality(at) : Nth(at, m) \in at
  BY <1>1, RankNth
<1>3. QED
  BY <1>2 DEF Pick

\* Two sequences that hold the same at the same ranks are the same.
LEMMA PickIs ==
  ASSUME NEW n \in Nat, NEW at \in SUBSET (1..n), NEW s, NEW S, NEW t \in Seq(S),
         Len(t) = Cardinality(at), \A k \in at : t[Rank(at, k)] = s[k]
  PROVE  t = Pick(s, at)
<1>1. \A m \in 1..Cardinality(at) : t[m] = s[Nth(at, m)]
  BY RankNth
<1>2. t = [m \in 1..Cardinality(at) |-> t[m]]
  OBVIOUS
<1>3. QED
  BY <1>1, <1>2 DEF Pick

LEMMA PickNone == ASSUME NEW s PROVE Pick(s, {}) = <<>>
<1>1. Cardinality({}) = 0
  BY FS_EmptySet
<1>2. QED
  BY <1>1 DEF Pick

LEMMA RankAll ==
  ASSUME NEW n \in Nat, NEW k \in 1..n PROVE Rank(1..n, k) = k
<1>1. {j \in 1..n : j <= k} = 1..k
  OBVIOUS
<1>2. Cardinality(1..k) = k
  BY FS_Interval
<1>3. QED
  BY <1>1, <1>2 DEF Rank

LEMMA PickAll ==
  ASSUME NEW S, NEW s \in Seq(S) PROVE Pick(s, DOMAIN s) = s
<1>1. Len(s) \in Nat /\ DOMAIN s = 1..Len(s)
  OBVIOUS
<1>2. Cardinality(1..Len(s)) = Len(s)
  BY <1>1, FS_Interval
<1>3. QED
  BY <1>1, <1>2, RankAll, PickIs

\* The next element of s is picked after those behind it.
LEMMA PickNext ==
  ASSUME NEW S, NEW s \in Seq(S), NEW n \in Nat, n + 1 \in DOMAIN s,
         NEW at \in SUBSET (1..n)
  PROVE  /\ Pick(s, at \cup {n + 1}) = Append(Pick(s, at), s[n + 1])
         /\ Cardinality(at \cup {n + 1}) = Cardinality(at) + 1
<1> DEFINE more == at \cup {n + 1}
           t == Append(Pick(s, at), s[n + 1])
<1>1. more \in SUBSET (1..(n + 1)) /\ at \in SUBSET DOMAIN s
  OBVIOUS
<1>2. IsFiniteSet(at) /\ Cardinality(at) \in Nat /\ n + 1 \notin at
  <2>1. n + 1 \notin at
    OBVIOUS
  <2>2. QED
    BY <2>1, RankNth
<1>3. Cardinality(more) = Cardinality(at) + 1
  BY <1>2, FS_AddElement
<1>4. Pick(s, at) \in Seq(S) /\ Len(Pick(s, at)) = Cardinality(at)
  BY <1>1, PickTypes
<1>5. t \in Seq(S) /\ Len(t) = Cardinality(more)
  BY <1>3, <1>4
<1>6. ASSUME NEW k \in at PROVE t[Rank(more, k)] = s[k]
  <2>1. {j \in more : j <= k} = {j \in at : j <= k}
    OBVIOUS
  <2>2. Rank(more, k) = Rank(at, k)
    BY <2>1 DEF Rank
  <2>3. Rank(at, k) \in 1..Cardinality(at) /\ Nth(at, Rank(at, k)) = k
    BY RankNth
  <2>4. Pick(s, at)[Rank(at, k)] = s[k]
    BY <2>3 DEF Pick
  <2>5. QED
    BY <1>2, <1>4, <2>2, <2>3, <2>4
<1>7. t[Rank(more, n + 1)] = s[n + 1]
  <2>0. \A j \in more : j <= n + 1
    BY <1>1
  <2>1. {j \in more : j <= n + 1} = more
    BY <2>0, Zenon
  <2>2. Rank(more, n + 1) = Cardinality(at) + 1
    BY <1>3, <2>1 DEF Rank
  <2>3. QED
    BY <1>4, <2>2
<1>8. t = Pick(s, more)
  <2>1. \A k \in more : t[Rank(more, k)] = s[k]
    BY <1>6, <1>7
  <2>2. n + 1 \in Nat
    OBVIOUS
  <2> HIDE DEF more, t
  <2>3. QED
    BY <1>1, <1>5, <2>1, <2>2, PickIs
<1>9. QED
  BY <1>3, <1>8

\* What is picked from the front of a sequence, and from its back.
LEMMA PickFront ==
  ASSUME NEW S, NEW s \in Seq(S), NEW t \in Seq(S), NEW at \in SUBSET DOMAIN s
  PROVE  Pick(s \o t, at) = Pick(s, at)
<1>1. Len(s) \in Nat /\ DOMAIN s = 1..Len(s)
  OBVIOUS
<1>2. \A n \in 1..Cardinality(at) : Nth(at, n) \in DOMAIN s
  BY <1>1, RankNth
<1>3. \A i \in DOMAIN s : (s \o t)[i] = s[i]
  OBVIOUS
<1>4. QED
  BY <1>2, <1>3 DEF Pick

LEMMA PickBack ==
  ASSUME NEW S, NEW s \in Seq(S), NEW t \in Seq(S)
  PROVE  Pick(s \o t, (Len(s) + 1)..(Len(s) + Len(t))) = t
<1> DEFINE m == Len(s)
           n == Len(t)
           at == (m + 1)..(m + n)
<1>1. m \in Nat /\ n \in Nat /\ m + n \in Nat
  OBVIOUS
<1>2. at \in SUBSET (1..(m + n))
  BY <1>1
<1>3. Cardinality(at) = n
  <2>1. m + 1 \in Int /\ m + n \in Int
    BY <1>1
  <2>2. Cardinality(at) = IF m + 1 > m + n THEN 0 ELSE (m + n) - (m + 1) + 1
    BY <2>1, FS_Interval
  <2>3. QED
    BY <1>1, <2>2
<1>4. ASSUME NEW k \in at PROVE t[Rank(at, k)] = (s \o t)[k]
  <2>1. k \in Int /\ k >= m + 1 /\ k <= m + n /\ k - m \in 1..n
    BY <1>1
  <2>2. {j \in at : j <= k} = (m + 1)..k
    BY <1>1, <2>1
  <2>3. Cardinality((m + 1)..k) = k - m
    BY <1>1, <2>1, FS_Interval
  <2>4. (s \o t)[k] = t[k - m]
    BY <2>1
  <2>5. QED
    BY <2>2, <2>3, <2>4 DEF Rank
<1>5. QED
  <2> HIDE DEF at
  <2>1. t = Pick(s \o t, at)
    BY <1>1, <1>2, <1>3, <1>4, PickIs
  <2>2. QED
    BY <2>1 DEF at

-----------------------------------------------------------------------------
(* The sort.                                                                *)

LEMMA RemarkBlock == ASSUME NEW r \in RemarkLike PROVE r.block \in Nat
BY DEF RemarkLike, Registration, Announce, Start, Ballots, ClearVote, Vote

\* Position i comes before position j.
Before(rs, i, j) ==
  \/ rs[i].block < rs[j].block
  \/ rs[i].block = rs[j].block /\ i < j

\* Position j comes no later than position i.
UpToHere(rs, i, j) ==
  \/ rs[j].block < rs[i].block
  \/ rs[j].block = rs[i].block /\ j <= i

LEMMA Places ==
  ASSUME NEW rs \in Seq(RemarkLike)
  PROVE  /\ \A i \in DOMAIN rs : Place(rs, i) \in DOMAIN rs
         /\ \A i, j \in DOMAIN rs : Before(rs, i, j) => Place(rs, i) < Place(rs, j)
         /\ \A i, j \in DOMAIN rs : Place(rs, i) = Place(rs, j) => i = j
         /\ \A n \in DOMAIN rs : \E i \in DOMAIN rs : Place(rs, i) = n
<1> DEFINE D == DOMAIN rs
           V == [i \in D |-> {j \in D : UpToHere(rs, i, j)}]
<1>1. D = 1..Len(rs) /\ Len(rs) \in Nat
  OBVIOUS
<1>2. IsFiniteSet(D) /\ Cardinality(D) = Len(rs)
  <2>1. IsFiniteSet(1..Len(rs)) /\ Cardinality(1..Len(rs)) = Len(rs)
    BY <1>1, FS_Interval
  <2>2. QED
    BY <1>1, <2>1
<1>3. \A i \in D : i \in Int /\ rs[i].block \in Int
  <2>1. \A i \in D : rs[i] \in RemarkLike
    OBVIOUS
  <2>2. QED
    BY <1>1, <2>1, RemarkBlock
<1>4. V \in [D -> SUBSET D] /\ \A i \in D : i \in V[i]
  BY <1>3 DEF UpToHere
<1>5. ASSUME NEW i \in D, NEW j \in D, Before(rs, i, j)
      PROVE  V[i] \subseteq V[j] /\ j \notin V[i]
  <2>1. rs[i].block \in Int /\ rs[j].block \in Int /\ i \in Int /\ j \in Int
    BY <1>3
  <2>2. ASSUME NEW k \in V[i] PROVE k \in V[j]
    <3>1. k \in D /\ rs[k].block \in Int /\ k \in Int
      BY <1>3
    <3>2. UpToHere(rs, i, k)
      OBVIOUS
    <3>3. UpToHere(rs, j, k)
      BY <1>5, <2>1, <3>1, <3>2 DEF Before, UpToHere
    <3>4. QED
      BY <3>1, <3>3
  <2>3. ~UpToHere(rs, i, j)
    BY <1>5, <2>1 DEF Before, UpToHere
  <2>4. QED
    BY <2>2, <2>3
<1>6. \A i, j \in D : i # j => Before(rs, i, j) \/ Before(rs, j, i)
  BY <1>3 DEF Before
<1>7. \A i \in D : Place(rs, i) = Cardinality(V[i])
  BY DEF Place, UpToHere
<1> HIDE DEF V
<1>8. Nested(D, V)
  BY <1>4, <1>5, <1>6 DEF Nested
<1>9. Sized(D, V)
  BY <1>2, <1>8, ChainOfSets
<1>10. /\ \A i \in D : Place(rs, i) \in D
       /\ \A i, j \in D : Place(rs, i) = Place(rs, j) => i = j
       /\ \A n \in D : \E i \in D : Place(rs, i) = n
  BY <1>1, <1>2, <1>7, <1>9 DEF Sized
<1>11. \A i, j \in D : Before(rs, i, j) => Place(rs, i) < Place(rs, j)
  BY <1>5, <1>7, <1>9 DEF Sized
<1>12. QED
  BY <1>10, <1>11

LEMMA Sorting ==
  ASSUME NEW rs \in Seq(RemarkLike)
  PROVE  /\ SortByBlock(rs) \in Seq(RemarkLike)
         /\ Len(SortByBlock(rs)) = Len(rs)
         /\ \A i \in DOMAIN rs : SortByBlock(rs)[Place(rs, i)] = rs[i]
         /\ Range(SortByBlock(rs)) = Range(rs)
         /\ \A n \in DOMAIN SortByBlock(rs) : \A m \in 1..n :
              SortByBlock(rs)[m].block <= SortByBlock(rs)[n].block
<1> DEFINE D == DOMAIN rs
           W == [n \in D |-> CHOOSE i \in D : Place(rs, i) = n]
           t == SortByBlock(rs)
<1>1. D = 1..Len(rs) /\ Len(rs) \in Nat
  OBVIOUS
<1>2. \A n \in D : W[n] \in D /\ Place(rs, W[n]) = n
  BY Places
<1>3. \A i \in D : Place(rs, i) \in D /\ W[Place(rs, i)] = i
  <2>1. \A i \in D : Place(rs, i) \in D
    BY Places
  <2>2. QED
    BY <1>2, <2>1, Places
<1>4. t = [n \in D |-> rs[W[n]]]
  BY DEF SortByBlock
<1> HIDE DEF W
<1>5. t \in Seq(RemarkLike) /\ Len(t) = Len(rs) /\ DOMAIN t = D
  <2>1. \A n \in D : rs[W[n]] \in RemarkLike
    BY <1>2
  <2>2. QED
    BY <1>1, <1>4, <2>1
<1>6. \A i \in D : t[Place(rs, i)] = rs[i]
  BY <1>3, <1>4
<1>7. Range(t) = Range(rs)
  <2>1. \A n \in D : \E i \in D : t[n] = rs[i]
    BY <1>2, <1>4
  <2>2. \A i \in D : \E n \in D : rs[i] = t[n]
    BY <1>3, <1>6
  <2>3. QED
    BY <1>5, <2>1, <2>2 DEF Range
<1>8. ASSUME NEW n \in D, NEW m \in 1..n PROVE t[m].block <= t[n].block
  <2>1. m \in D /\ m \in Int /\ n \in Int
    BY <1>1
  <2>2. W[m] \in D /\ W[n] \in D /\ t[m] = rs[W[m]] /\ t[n] = rs[W[n]]
    BY <1>2, <1>4, <2>1
  <2>3. rs[W[m]].block \in Nat /\ rs[W[n]].block \in Nat
    <3>1. rs[W[m]] \in RemarkLike /\ rs[W[n]] \in RemarkLike
      BY <2>2
    <3>2. QED
      BY <3>1, RemarkBlock
  <2>4. CASE rs[W[n]].block < rs[W[m]].block
    <3>1. Place(rs, W[n]) < Place(rs, W[m])
      BY <2>2, <2>4, Places DEF Before
    <3>2. n < m
      BY <1>2, <2>1, <3>1
    <3>3. QED
      BY <2>1, <3>2
  <2>5. CASE ~(rs[W[n]].block < rs[W[m]].block)
    BY <2>2, <2>3, <2>5
  <2>6. QED
    BY <2>4, <2>5
<1>9. QED
  BY <1>5, <1>6, <1>7, <1>8

LEMMA SortedStays ==
  ASSUME NEW rs \in Seq(RemarkLike),
         \A n \in DOMAIN rs : \A m \in 1..n : rs[m].block <= rs[n].block
  PROVE  SortByBlock(rs) = rs
<1>1. DOMAIN rs = 1..Len(rs) /\ Len(rs) \in Nat
  OBVIOUS
<1>2. ASSUME NEW i \in DOMAIN rs PROVE Place(rs, i) = i
  <2>1. \A j \in DOMAIN rs : rs[j].block \in Int
    <3>1. \A j \in DOMAIN rs : rs[j] \in RemarkLike
      OBVIOUS
    <3>2. QED
      BY <3>1, RemarkBlock
  <2>2. \A j \in DOMAIN rs :
          UpToHere(rs, i, j) <=> j \in 1..i
    <3> SUFFICES ASSUME NEW j \in DOMAIN rs
                 PROVE  UpToHere(rs, i, j) <=> j \in 1..i
      OBVIOUS
    <3>1. i \in Int /\ j \in Int /\ j >= 1 /\ i >= 1 /\ rs[j].block \in Int /\ rs[i].block \in Int
      BY <1>1, <2>1
    <3>2. j <= i => rs[j].block <= rs[i].block
      BY <3>1
    <3>3. i <= j => rs[i].block <= rs[j].block
      BY <3>1
    <3>4. QED
      BY <3>1, <3>2, <3>3 DEF UpToHere
  <2>3. 1..i \subseteq DOMAIN rs
    BY <1>1
  <2>4. {j \in DOMAIN rs : \/ rs[j].block < rs[i].block
                           \/ rs[j].block = rs[i].block /\ j <= i} = 1..i
    BY <2>2, <2>3 DEF UpToHere
  <2>5. Cardinality(1..i) = i
    BY <1>1, FS_Interval
  <2>6. QED
    BY <2>4, <2>5 DEF Place
<1>3. SortByBlock(rs) \in Seq(RemarkLike) /\ Len(SortByBlock(rs)) = Len(rs)
      /\ \A i \in DOMAIN rs : SortByBlock(rs)[i] = rs[i]
  BY <1>2, Sorting
<1>4. QED
  BY <1>3

-----------------------------------------------------------------------------
(* The loops.                                                               *)

\* findVotingStartBlock's loop.
IsStart(r) ==
  r.kind = "start" /\ r.signer = CoordinatorAddress /\ r.p = ProposalId

EarliestStep(rs, acc, r) == Earlier(acc, r)
EarliestInv(rs, n, acc) ==
  \/ acc = NoBlock /\ \A i \in 1..n : ~IsStart(rs[i])
  \/ /\ acc \in Nat
     /\ \E i \in 1..n : IsStart(rs[i]) /\ rs[i].block = acc
     /\ \A i \in 1..n : IsStart(rs[i]) => acc <= rs[i].block
Earliest == INSTANCE FoldLoop
              WITH Step <- EarliestStep, Base <- NoBlock, Inv <- EarliestInv

LEMMA RemarkTypes ==
  ASSUME NEW rs \in Seq(RemarkLike)
  PROVE  /\ Len(rs) \in Nat /\ DOMAIN rs = 1..Len(rs)
         /\ \A i \in DOMAIN rs : rs[i] \in RemarkLike /\ rs[i].block \in Nat
<1>1. \A i \in DOMAIN rs : rs[i] \in RemarkLike
  OBVIOUS
<1>2. QED
  BY <1>1, RemarkBlock

LEMMA AnnounceTypes ==
  ASSUME NEW r \in RemarkLike, r.kind = "announce"
  PROVE  r \in Announce /\ r.block \in Nat /\ r.vk \in Keys /\ r.vk \in Nat
<1>1. r \in Announce
  BY DEF RemarkLike, Registration, Start, Ballots, ClearVote, Vote
<1>2. QED
  BY <1>1, RingAssumption DEF Announce

LEMMA AppendRange ==
  ASSUME NEW S, NEW s \in Seq(S), NEW e \in S
  PROVE  Range(Append(s, e)) = Range(s) \cup {e}
<1> DEFINE t == Append(s, e)
<1>1. DOMAIN s = 1..Len(s) /\ DOMAIN t = 1..(Len(s) + 1) /\ Len(s) \in Nat
  OBVIOUS
<1>2. t[Len(s) + 1] = e /\ \A i \in DOMAIN s : t[i] = s[i]
  OBVIOUS
<1> HIDE DEF t
<1>3. \A i : i \in DOMAIN t <=> i \in DOMAIN s \/ i = Len(s) + 1
  BY <1>1
<1>4. QED
  BY <1>2, <1>3 DEF Range, t

LEMMA EarliestIsFirst ==
  ASSUME NEW rs \in Seq(RemarkLike)
  PROVE  EarliestInv(rs, Len(rs), EarliestStart(rs))
<1>1. EarliestInv(rs, 0, NoBlock)
  BY DEF EarliestInv
<1>2. ASSUME NEW n \in 0..(Len(rs) - 1), NEW acc, EarliestInv(rs, n, acc)
      PROVE  EarliestInv(rs, n + 1, EarliestStep(rs, acc, rs[n + 1]))
  <2> DEFINE r == rs[n + 1]
  <2>1. n \in Nat /\ n + 1 \in DOMAIN rs /\ r.block \in Nat
    BY RemarkTypes
  <2>2. \A i \in 1..n : i \in DOMAIN rs /\ rs[i].block \in Nat
    BY <2>1, RemarkTypes
  <2>3. \A i : i \in 1..(n + 1) <=> i \in 1..n \/ i = n + 1
    BY <2>1
  <2>4. acc = NoBlock \/ acc \in Nat
    BY <1>2 DEF EarliestInv
  <2>5. NoBlock \notin Nat
    BY DEF NoBlock
  <2> HIDE DEF r
  <2>6. CASE IsStart(r) /\ (acc = NoBlock \/ r.block < acc)
    <3>1. EarliestStep(rs, acc, r) = r.block
      BY <2>6 DEF EarliestStep, Earlier, IsStart
    <3>2. ASSUME NEW i \in 1..n, IsStart(rs[i]) PROVE r.block <= rs[i].block
      BY <1>2, <2>1, <2>2, <2>5, <2>6, <3>2 DEF EarliestInv
    <3>3. \A i \in 1..(n + 1) : IsStart(rs[i]) => r.block <= rs[i].block
      BY <2>1, <2>3, <3>2 DEF r
    <3>4. \E i \in 1..(n + 1) : IsStart(rs[i]) /\ rs[i].block = r.block
      BY <2>3, <2>6 DEF r
    <3>5. QED
      BY <2>1, <3>1, <3>3, <3>4 DEF EarliestInv, r
  <2>7. CASE ~(IsStart(r) /\ (acc = NoBlock \/ r.block < acc))
    <3>1. EarliestStep(rs, acc, r) = acc
      BY <2>7 DEF EarliestStep, Earlier, IsStart
    <3>2. CASE acc = NoBlock
      <4>1. \A i \in 1..(n + 1) : ~IsStart(rs[i])
        BY <1>2, <2>3, <2>5, <2>7, <3>2 DEF EarliestInv, r
      <4>2. QED
        BY <3>1, <3>2, <4>1 DEF EarliestInv, r
    <3>3. CASE acc \in Nat
      <4>1. /\ \E i \in 1..n : IsStart(rs[i]) /\ rs[i].block = acc
            /\ \A i \in 1..n : IsStart(rs[i]) => acc <= rs[i].block
        BY <1>2, <2>5, <3>3 DEF EarliestInv
      <4>2. IsStart(r) => acc <= r.block
        BY <2>1, <2>7, <3>3
      <4>3. QED
        BY <2>3, <3>1, <3>3, <4>1, <4>2 DEF EarliestInv, r
    <3>4. QED
      BY <2>4, <3>2, <3>3
  <2>8. QED
    BY <2>6, <2>7 DEF r
<1>3. EarliestInv(rs, Len(rs), Earliest!Fold(rs, rs))
  <2> HIDE DEF EarliestInv, EarliestStep
  <2>1. QED
    BY <1>1, <1>2, Earliest!LoopRule
<1>4. EarliestStart(rs) = Earliest!Fold(rs, rs)
  BY DEF EarliestStart, EarliestStep, FoldLeft, MapThenFoldSet, Max,
         Earliest!Fold, Earliest!FoldLeft, Earliest!MapThenFoldSet, Earliest!Max
<1>5. QED
  BY <1>3, <1>4

LEMMA EarliestIsStart ==
  ASSUME NEW rs \in Seq(RemarkLike)
  PROVE  /\ EarliestStart(rs) = FindVotingStartBlock(Range(rs))
         /\ EarliestStart(rs) \in Nat \cup {NoBlock}
<1> DEFINE e == EarliestStart(rs)
           B == StartBlocks(Range(rs))
<1>1. EarliestInv(rs, Len(rs), e)
  BY EarliestIsFirst
<1>2. \A b : b \in B <=> \E i \in 1..Len(rs) : IsStart(rs[i]) /\ rs[i].block = b
  <2>1. \A r : r \in Range(rs) <=> \E i \in 1..Len(rs) : r = rs[i]
    BY RemarkTypes DEF Range
  <2>2. \A b : b \in B <=> \E r \in Range(rs) : IsStart(r) /\ r.block = b
    BY DEF StartBlocks, IsStart
  <2>3. QED
    BY <2>1, <2>2
<1> HIDE DEF e, B
<1>3. CASE e = NoBlock /\ \A i \in 1..Len(rs) : ~IsStart(rs[i])
  <2>1. B = {}
    BY <1>2, <1>3
  <2>2. QED
    BY <1>3, <2>1 DEF FindVotingStartBlock, B, e
<1>4. CASE /\ e \in Nat
           /\ \E i \in 1..Len(rs) : IsStart(rs[i]) /\ rs[i].block = e
           /\ \A i \in 1..Len(rs) : IsStart(rs[i]) => e <= rs[i].block
  <2>1. e \in B /\ \A b \in B : e <= b /\ b \in Nat
    BY <1>2, <1>4, RemarkTypes
  <2>2. \A x \in B : (\A y \in B : x <= y) => x = e
    BY <1>4, <2>1
  <2>3. Min(B) = e
    BY <2>1, <2>2 DEF Min
  <2>4. QED
    BY <1>4, <2>1, <2>3 DEF FindVotingStartBlock, B, e
<1>5. QED
  BY <1>1, <1>3, <1>4 DEF EarliestInv

\* announcedSigners: p is the list and the start block.
SignersStep(p, acc, r) == IF EntersRing(r, p[2]) THEN acc \cup {r.signer} ELSE acc
SignersInv(p, n, acc) ==
  acc = {p[1][i].signer : i \in {j \in 1..n : EntersRing(p[1][j], p[2])}}
Signers == INSTANCE FoldLoop
             WITH Step <- SignersStep, Base <- {}, Inv <- SignersInv

LEMMA SignersAreAnnounced ==
  ASSUME NEW rs \in Seq(RemarkLike)
  PROVE  LET start == FindVotingStartBlock(Range(rs))
         IN  CollectAnnounced(rs, start) = AnnouncedSigners(Range(rs))
<1> DEFINE start == FindVotingStartBlock(Range(rs))
           p == <<rs, start>>
<1>1. SignersInv(p, 0, {})
  <2>1. 1..0 = {}
    OBVIOUS
  <2>2. QED
    BY <2>1 DEF SignersInv
<1>2. ASSUME NEW n \in 0..(Len(rs) - 1), NEW acc, SignersInv(p, n, acc)
      PROVE  SignersInv(p, n + 1, SignersStep(p, acc, rs[n + 1]))
  <2> HIDE DEF start
  <2>1. \A i : i \in 1..(n + 1) <=> i \in 1..n \/ i = n + 1
    OBVIOUS
  <2>2. acc = {rs[i].signer : i \in {j \in 1..n : EntersRing(rs[j], start)}}
    BY <1>2 DEF SignersInv
  <2>3. CASE EntersRing(rs[n + 1], start)
    <3>1. {j \in 1..(n + 1) : EntersRing(rs[j], start)}
            = {j \in 1..n : EntersRing(rs[j], start)} \cup {n + 1}
      BY <2>1, <2>3
    <3>2. QED
      BY <2>2, <2>3, <3>1 DEF SignersInv, SignersStep
  <2>4. CASE ~EntersRing(rs[n + 1], start)
    <3>1. {j \in 1..(n + 1) : EntersRing(rs[j], start)}
            = {j \in 1..n : EntersRing(rs[j], start)}
      BY <2>1, <2>4
    <3>2. QED
      BY <2>2, <2>4, <3>1 DEF SignersInv, SignersStep
  <2>5. QED
    BY <2>3, <2>4
<1>3. SignersInv(p, Len(rs), Signers!Fold(p, rs))
  <2> HIDE DEF p, SignersInv, SignersStep
  <2>1. QED
    BY <1>1, <1>2, Signers!LoopRule
<1>4. start # NoBlock => CollectAnnounced(rs, start) = Signers!Fold(p, rs)
  BY DEF CollectAnnounced, SignersStep, FoldLeft, MapThenFoldSet, Max,
         Signers!Fold, Signers!FoldLeft, Signers!MapThenFoldSet, Signers!Max
<1> HIDE DEF start
<1>5. CASE start = NoBlock
  BY <1>5 DEF CollectAnnounced, AnnouncedSigners, start
<1>6. CASE start # NoBlock
  <2>1. \A r : r \in Range(rs) <=> \E i \in 1..Len(rs) : r = rs[i]
    BY RemarkTypes DEF Range
  <2>2. EligibleAnnounces(Range(rs), start) = {r \in Range(rs) : EntersRing(r, start)}
    BY <1>6 DEF EligibleAnnounces, EntersRing
  <2>3. AnnouncedSigners(Range(rs)) = {r.signer : r \in {s \in Range(rs) : EntersRing(s, start)}}
    BY <1>6, <2>2 DEF AnnouncedSigners, start
  <2>4. CollectAnnounced(rs, start)
          = {rs[i].signer : i \in {j \in 1..Len(rs) : EntersRing(rs[j], start)}}
    BY <1>3, <1>4, <1>6 DEF SignersInv
  <2>5. QED
    BY <2>1, <2>3, <2>4 DEF start
<1>7. QED
  BY <1>5, <1>6 DEF start

\* computeRingAt's filter: p is the list and the block.
UpToStep(p, acc, r) == IF r.block <= p[2] THEN Append(acc, r) ELSE acc
UpToInv(p, n, acc) ==
  /\ acc \in Seq(RemarkLike)
  /\ Range(acc) = {p[1][i] : i \in {j \in 1..n : p[1][j].block <= p[2]}}
Filter == INSTANCE FoldLoop
            WITH Step <- UpToStep, Base <- <<>>, Inv <- UpToInv

LEMMA UpToIsFilter ==
  ASSUME NEW rs \in Seq(RemarkLike), NEW rb
  PROVE  /\ UpTo(rs, rb) \in Seq(RemarkLike)
         /\ Range(UpTo(rs, rb)) = {r \in Range(rs) : r.block <= rb}
<1> DEFINE p == <<rs, rb>>
<1>1. UpToInv(p, 0, <<>>)
  <2>1. 1..0 = {}
    OBVIOUS
  <2>2. QED
    BY <2>1 DEF UpToInv, Range
<1>2. ASSUME NEW n \in 0..(Len(rs) - 1), NEW acc, UpToInv(p, n, acc)
      PROVE  UpToInv(p, n + 1, UpToStep(p, acc, rs[n + 1]))
  <2>0. n + 1 \in DOMAIN rs /\ rs[n + 1] \in RemarkLike
    BY RemarkTypes
  <2>1. \A i : i \in 1..(n + 1) <=> i \in 1..n \/ i = n + 1
    OBVIOUS
  <2>2. /\ acc \in Seq(RemarkLike)
        /\ Range(acc) = {rs[i] : i \in {j \in 1..n : rs[j].block <= rb}}
    BY <1>2 DEF UpToInv
  <2>3. CASE rs[n + 1].block <= rb
    <3>1. {j \in 1..(n + 1) : rs[j].block <= rb}
            = {j \in 1..n : rs[j].block <= rb} \cup {n + 1}
      BY <2>1, <2>3
    <3>2. Range(Append(acc, rs[n + 1])) = Range(acc) \cup {rs[n + 1]}
      BY <2>0, <2>2, AppendRange
    <3>3. Append(acc, rs[n + 1]) \in Seq(RemarkLike)
      BY <2>0, <2>2
    <3>4. UpToStep(p, acc, rs[n + 1]) = Append(acc, rs[n + 1])
      BY <2>3 DEF UpToStep
    <3>5. Range(acc) \cup {rs[n + 1]}
            = {rs[i] : i \in {j \in 1..n : rs[j].block <= rb} \cup {n + 1}}
      BY <2>2
    <3>6. QED
      BY <3>1, <3>2, <3>3, <3>4, <3>5 DEF UpToInv
  <2>4. CASE ~(rs[n + 1].block <= rb)
    <3>1. {j \in 1..(n + 1) : rs[j].block <= rb} = {j \in 1..n : rs[j].block <= rb}
      BY <2>1, <2>4
    <3>2. QED
      BY <2>2, <2>4, <3>1 DEF UpToInv, UpToStep
  <2>5. QED
    BY <2>3, <2>4
<1>3. UpToInv(p, Len(rs), Filter!Fold(p, rs))
  <2> HIDE DEF p, UpToInv, UpToStep
  <2>1. QED
    BY <1>1, <1>2, Filter!LoopRule
<1>4. UpTo(rs, rb) = Filter!Fold(p, rs)
  BY DEF UpTo, UpToStep, FoldLeft, MapThenFoldSet, Max,
         Filter!Fold, Filter!FoldLeft, Filter!MapThenFoldSet, Filter!Max
<1>5. /\ UpTo(rs, rb) \in Seq(RemarkLike)
      /\ Range(UpTo(rs, rb)) = {rs[i] : i \in {j \in 1..Len(rs) : rs[j].block <= rb}}
  BY <1>3, <1>4 DEF UpToInv
<1>6. \A r : r \in Range(rs) <=> \E i \in 1..Len(rs) : r = rs[i]
  BY RemarkTypes DEF Range
<1>7. QED
  BY <1>5, <1>6

\* latestByVoter: p is the list and the start block.
LaterStep(p, acc, r) == Later(acc, r, p[2])
LaterInv(p, n, acc) ==
  /\ acc = [v \in DOMAIN acc |-> acc[v]]
  /\ \A i \in 1..n : EntersRing(p[1][i], p[2]) =>
       /\ p[1][i].signer \in DOMAIN acc
       /\ ~Newer(p[1][i], acc[p[1][i].signer])
  /\ \A v \in DOMAIN acc : \E i \in 1..n :
       EntersRing(p[1][i], p[2]) /\ p[1][i].signer = v /\ acc[v] = p[1][i]
Latest == INSTANCE FoldLoop
            WITH Step <- LaterStep, Base <- <<>>, Inv <- LaterInv

\* Newer orders the announces: block first, key second.
LEMMA NewerOrders ==
  ASSUME NEW a, NEW b, NEW c,
         a.block \in Nat, b.block \in Nat, c.block \in Nat,
         a.vk \in Nat, b.vk \in Nat, c.vk \in Nat
  PROVE  /\ ~Newer(a, a)
         /\ Newer(b, a) /\ ~Newer(c, a) => ~Newer(c, b)
         /\ ~Newer(a, b) /\ ~Newer(b, a) => a.block = b.block /\ a.vk = b.vk
BY DEF Newer

LEMMA EnteringTypes ==
  ASSUME NEW rs \in Seq(RemarkLike), NEW start, NEW i \in DOMAIN rs,
         EntersRing(rs[i], start)
  PROVE  rs[i].block \in Nat /\ rs[i].vk \in Nat
BY RemarkTypes, AnnounceTypes DEF EntersRing

LEMMA LatestIsKept ==
  ASSUME NEW rs \in Seq(RemarkLike), NEW start
  PROVE  LaterInv(<<rs, start>>, Len(rs), LatestByVoter(rs, start))
<1> DEFINE p == <<rs, start>>
<1>1. LaterInv(p, 0, <<>>)
  <2>1. 1..0 = {} /\ DOMAIN <<>> = {}
    OBVIOUS
  <2>2. <<>> = [v \in DOMAIN <<>> |-> <<>>[v]]
    OBVIOUS
  <2>3. QED
    BY <2>1, <2>2 DEF LaterInv
<1>2. ASSUME NEW n \in 0..(Len(rs) - 1), NEW acc, LaterInv(p, n, acc)
      PROVE  LaterInv(p, n + 1, LaterStep(p, acc, rs[n + 1]))
  <2> DEFINE r == rs[n + 1]
             new == [v \in DOMAIN acc \cup {r.signer} |-> IF v = r.signer THEN r ELSE acc[v]]
  <2>1. /\ acc = [v \in DOMAIN acc |-> acc[v]]
        /\ \A i \in 1..n : EntersRing(rs[i], start) =>
             rs[i].signer \in DOMAIN acc /\ ~Newer(rs[i], acc[rs[i].signer])
        /\ \A v \in DOMAIN acc : \E i \in 1..n :
             EntersRing(rs[i], start) /\ rs[i].signer = v /\ acc[v] = rs[i]
    BY <1>2 DEF LaterInv
  <2>2. \A i : i \in 1..(n + 1) <=> i \in 1..n \/ i = n + 1
    OBVIOUS
  <2>3. \A i \in 1..(n + 1) : i \in DOMAIN rs
    BY RemarkTypes
  <2>4. \A i \in 1..(n + 1) : EntersRing(rs[i], start)
                                => rs[i].block \in Nat /\ rs[i].vk \in Nat
    BY <2>3, EnteringTypes
  <2>5. CASE EntersRing(r, start) /\ (r.signer \notin DOMAIN acc \/ Newer(r, acc[r.signer]))
    <3>1. LaterStep(p, acc, r) = new
      BY <2>5 DEF LaterStep, Later
    <3>2. ASSUME NEW i \in 1..(n + 1), EntersRing(rs[i], start)
          PROVE  rs[i].signer \in DOMAIN new /\ ~Newer(rs[i], new[rs[i].signer])
      <4>1. r.block \in Nat /\ r.vk \in Nat /\ rs[i].block \in Nat /\ rs[i].vk \in Nat
        BY <2>2, <2>4, <2>5, <3>2
      <4>2. CASE i = n + 1
        BY <4>1, <4>2, NewerOrders
      <4>3. CASE i \in 1..n /\ rs[i].signer # r.signer
        BY <2>1, <3>2, <4>3
      <4>4. CASE i \in 1..n /\ rs[i].signer = r.signer
        <5>1. r.signer \in DOMAIN acc /\ ~Newer(rs[i], acc[r.signer])
          BY <2>1, <3>2, <4>4
        <5>2. PICK j \in 1..n : EntersRing(rs[j], start) /\ acc[r.signer] = rs[j]
          BY <2>1, <5>1
        <5>3. rs[j].block \in Nat /\ rs[j].vk \in Nat
          BY <2>2, <2>4, <5>2
        <5>4. ~Newer(rs[i], r)
          BY <2>5, <4>1, <5>1, <5>2, <5>3, NewerOrders
        <5>5. QED
          BY <4>4, <5>4
      <4>5. QED
        BY <2>2, <4>2, <4>3, <4>4
    <3>3. ASSUME NEW v \in DOMAIN new
          PROVE  \E i \in 1..(n + 1) :
                   EntersRing(rs[i], start) /\ rs[i].signer = v /\ new[v] = rs[i]
      <4>1. CASE v = r.signer
        BY <2>2, <2>5, <4>1
      <4>2. CASE v # r.signer
        BY <2>1, <2>2, <4>2
      <4>3. QED
        BY <4>1, <4>2
    <3>4. new = [v \in DOMAIN new |-> new[v]]
      OBVIOUS
    <3> HIDE DEF new
    <3>5. QED
      BY <3>1, <3>2, <3>3, <3>4 DEF LaterInv
  <2>6. CASE ~(EntersRing(r, start) /\ (r.signer \notin DOMAIN acc \/ Newer(r, acc[r.signer])))
    <3>1. LaterStep(p, acc, r) = acc
      BY <2>6 DEF LaterStep, Later
    <3>2. EntersRing(r, start) => r.signer \in DOMAIN acc /\ ~Newer(r, acc[r.signer])
      BY <2>6
    <3>3. \A i \in 1..(n + 1) : EntersRing(rs[i], start) =>
            rs[i].signer \in DOMAIN acc /\ ~Newer(rs[i], acc[rs[i].signer])
      BY <2>1, <2>2, <3>2
    <3>4. \A v \in DOMAIN acc : \E i \in 1..(n + 1) :
            EntersRing(rs[i], start) /\ rs[i].signer = v /\ acc[v] = rs[i]
      BY <2>1, <2>2
    <3>5. LaterInv(p, n + 1, acc)
      BY <2>1, <3>3, <3>4 DEF LaterInv
    <3>6. QED
      BY <3>1, <3>5
  <2>7. QED
    BY <2>5, <2>6
<1>3. LaterInv(p, Len(rs), Latest!Fold(p, rs))
  <2> HIDE DEF p, LaterInv, LaterStep
  <2>1. QED
    BY <1>1, <1>2, Latest!LoopRule
<1>4. LatestByVoter(rs, start) = Latest!Fold(p, rs)
  BY DEF LatestByVoter, LaterStep, FoldLeft, MapThenFoldSet, Max,
         Latest!Fold, Latest!FoldLeft, Latest!MapThenFoldSet, Latest!Max
<1>5. QED
  BY <1>3, <1>4

LEMMA RingOfIsReconstructed ==
  ASSUME NEW rs \in Seq(RemarkLike), NEW start
  PROVE  RingOf(rs, start) = ReconstructRing(Range(rs), start)
<1> DEFINE latest == LatestByVoter(rs, start)
           ann == EligibleAnnounces(Range(rs), start)
           newest == {b \in ann : \A c \in ann : c.signer = b.signer => ~Newer(c, b)}
<1>1. /\ \A i \in 1..Len(rs) : EntersRing(rs[i], start) =>
           rs[i].signer \in DOMAIN latest /\ ~Newer(rs[i], latest[rs[i].signer])
      /\ \A v \in DOMAIN latest : \E i \in 1..Len(rs) :
           EntersRing(rs[i], start) /\ rs[i].signer = v /\ latest[v] = rs[i]
  <2>1. LaterInv(<<rs, start>>, Len(rs), latest)
    BY LatestIsKept
  <2> HIDE DEF latest
  <2>2. QED
    BY <2>1 DEF LaterInv
<1>2. RingOf(rs, start) = {latest[v].vk : v \in DOMAIN latest}
  BY DEF RingOf
<1> HIDE DEF latest
<1>3. \A r : r \in ann <=> \E i \in 1..Len(rs) : r = rs[i] /\ EntersRing(r, start)
  <2>1. \A r : r \in Range(rs) <=> \E i \in 1..Len(rs) : r = rs[i]
    BY RemarkTypes DEF Range
  <2>2. QED
    BY <2>1 DEF EligibleAnnounces, EntersRing
<1>4. \A r \in ann : r.block \in Nat /\ r.vk \in Nat
  BY <1>3, EnteringTypes, RemarkTypes
<1> HIDE DEF ann
<1>5. \A r \in ann : r.signer \in DOMAIN latest /\ ~Newer(r, latest[r.signer])
  BY <1>1, <1>3
<1>6. \A v \in DOMAIN latest : latest[v] \in ann /\ latest[v].signer = v
  BY <1>1, <1>3
<1>7. ASSUME NEW v \in DOMAIN latest PROVE latest[v] \in newest
  BY <1>5, <1>6
<1>8. ASSUME NEW b \in newest PROVE \E v \in DOMAIN latest : b.vk = latest[v].vk
  <2>1. /\ b \in ann /\ b.signer \in DOMAIN latest
        /\ ~Newer(b, latest[b.signer]) /\ ~Newer(latest[b.signer], b)
    BY <1>5, <1>6
  <2>2. latest[b.signer] \in ann
    BY <1>6, <2>1
  <2>3. b.vk = latest[b.signer].vk
    BY <1>4, <2>1, <2>2, NewerOrders
  <2>4. QED
    BY <2>1, <2>3
<1>9. {latest[v].vk : v \in DOMAIN latest} = {a.vk : a \in newest}
  BY <1>7, <1>8
<1>10. QED
  BY <1>2, <1>9 DEF ReconstructRing, ann

\* The ring the walk computes is the one Ring states, at any block.
LEMMA RingOfListIsRingAt ==
  ASSUME NEW rs \in Seq(RemarkLike), NEW rb
  PROVE  RingOfList(rs, rb, FindVotingStartBlock(Range(rs))) = RingAt(Range(rs), rb)
BY UpToIsFilter, RingOfIsReconstructed DEF RingOfList, RingAt, ComputeRingAt

\* check-registration's loop: p is the list and the address.
IsMine(r, a) == r.kind = "announce" /\ r.signer = a /\ r.p = ProposalId
LastStep(p, acc, r) == LastAnnounce(acc, r, p[2])
FirstOfLatest(p, n, i) ==
  /\ IsMine(p[1][i], p[2])
  /\ \A j \in 1..n : IsMine(p[1][j], p[2]) =>
       \/ p[1][j].block < p[1][i].block
       \/ p[1][j].block = p[1][i].block /\ j >= i
LastInv(p, n, acc) ==
  \/ acc = NoAnnounce /\ \A i \in 1..n : ~IsMine(p[1][i], p[2])
  \/ \E i \in 1..n : /\ FirstOfLatest(p, n, i)
                     /\ acc = [block |-> p[1][i].block, vk |-> p[1][i].vk]
Announced == INSTANCE FoldLoop
               WITH Step <- LastStep, Base <- NoAnnounce, Inv <- LastInv

LEMMA LatestIsLast ==
  ASSUME NEW rs \in Seq(RemarkLike), NEW a
  PROVE  LastInv(<<rs, a>>, Len(rs), LatestAnnounce(rs, a))
<1> DEFINE p == <<rs, a>>
<1>0. NoBlock \notin Nat /\ NoAnnounce.block = NoBlock
  BY DEF NoBlock, NoAnnounce
<1>1. LastInv(p, 0, NoAnnounce)
  BY DEF LastInv
<1>2. ASSUME NEW n \in 0..(Len(rs) - 1), NEW acc, LastInv(p, n, acc)
      PROVE  LastInv(p, n + 1, LastStep(p, acc, rs[n + 1]))
  <2> DEFINE r == rs[n + 1]
             new == [block |-> r.block, vk |-> r.vk]
  <2>1. \A i \in 1..(n + 1) : i \in DOMAIN rs /\ rs[i].block \in Nat
    BY RemarkTypes
  <2>2. \A i : i \in 1..(n + 1) <=> i \in 1..n \/ i = n + 1
    OBVIOUS
  <2>3. \/ acc = NoAnnounce /\ \A i \in 1..n : ~IsMine(rs[i], a)
        \/ \E i \in 1..n : /\ FirstOfLatest(p, n, i)
                           /\ acc = [block |-> rs[i].block, vk |-> rs[i].vk]
    BY <1>2 DEF LastInv
  <2>4. ASSUME NEW i \in 1..n, NEW m \in {n, n + 1}
        PROVE  FirstOfLatest(p, m, i) <=>
                 /\ IsMine(rs[i], a)
                 /\ \A j \in 1..m : IsMine(rs[j], a) =>
                      rs[j].block < rs[i].block \/ (rs[j].block = rs[i].block /\ j >= i)
    BY DEF FirstOfLatest
  <2>5. FirstOfLatest(p, n + 1, n + 1) <=>
          /\ IsMine(r, a)
          /\ \A j \in 1..(n + 1) : IsMine(rs[j], a) =>
               rs[j].block < r.block \/ (rs[j].block = r.block /\ j >= n + 1)
    BY DEF FirstOfLatest
  <2>6. LastStep(p, acc, r) = IF IsMine(r, a) /\ (acc.block = NoBlock \/ r.block > acc.block)
                              THEN new ELSE acc
    BY DEF LastStep, LastAnnounce, IsMine
  <2>7. r.block \in Nat /\ n + 1 \in 1..(n + 1) /\ r = rs[n + 1]
    BY <2>1, <2>2
  <2> HIDE DEF r
  <2>8. CASE acc = NoAnnounce /\ \A i \in 1..n : ~IsMine(rs[i], a)
    <3>1. CASE IsMine(r, a)
      <4>1. FirstOfLatest(p, n + 1, n + 1)
        BY <2>2, <2>5, <2>7, <2>8, <3>1
      <4>2. LastStep(p, acc, r) = new
        BY <1>0, <2>6, <2>8, <3>1
      <4>3. QED
        BY <2>7, <4>1, <4>2 DEF LastInv
    <3>2. CASE ~IsMine(r, a)
      <4>1. LastStep(p, acc, r) = acc /\ \A i \in 1..(n + 1) : ~IsMine(rs[i], a)
        BY <2>2, <2>6, <2>7, <2>8, <3>2
      <4>2. QED
        BY <2>7, <2>8, <4>1 DEF LastInv
    <3>3. QED
      BY <3>1, <3>2
  <2>9. ASSUME NEW i \in 1..n, FirstOfLatest(p, n, i),
               acc = [block |-> rs[i].block, vk |-> rs[i].vk]
        PROVE  LastInv(p, n + 1, LastStep(p, acc, rs[n + 1]))
    <3>1. /\ IsMine(rs[i], a)
          /\ \A j \in 1..n : IsMine(rs[j], a) =>
               rs[j].block < rs[i].block \/ (rs[j].block = rs[i].block /\ j >= i)
      BY <2>4, <2>9
    <3>2. acc.block = rs[i].block /\ rs[i].block \in Nat /\ acc.block # NoBlock
          /\ i \in 1..(n + 1)
      BY <1>0, <2>1, <2>2, <2>9
    <3>3. CASE IsMine(r, a) /\ r.block > rs[i].block
      <4>1. ASSUME NEW j \in 1..(n + 1), IsMine(rs[j], a)
            PROVE  rs[j].block < r.block \/ (rs[j].block = r.block /\ j >= n + 1)
        <5>1. CASE j \in 1..n
          BY <2>1, <2>7, <3>1, <3>2, <3>3, <4>1, <5>1
        <5>2. CASE j = n + 1
          BY <2>7, <5>2
        <5>3. QED
          BY <2>2, <5>1, <5>2
      <4>2. FirstOfLatest(p, n + 1, n + 1)
        BY <2>5, <3>3, <4>1
      <4>3. LastStep(p, acc, r) = new
        BY <2>6, <3>2, <3>3
      <4>4. QED
        BY <2>7, <4>2, <4>3 DEF LastInv
    <3>4. CASE ~(IsMine(r, a) /\ r.block > rs[i].block)
      <4>1. ASSUME NEW j \in 1..(n + 1), IsMine(rs[j], a)
            PROVE  rs[j].block < rs[i].block \/ (rs[j].block = rs[i].block /\ j >= i)
        <5>1. CASE j \in 1..n
          BY <3>1, <4>1, <5>1
        <5>2. CASE j = n + 1
          BY <2>7, <3>2, <3>4, <4>1, <5>2
        <5>3. QED
          BY <2>2, <5>1, <5>2
      <4>2. FirstOfLatest(p, n + 1, i)
        BY <2>4, <3>1, <4>1
      <4>3. LastStep(p, acc, r) = acc
        BY <2>6, <3>2, <3>4
      <4>4. QED
        BY <2>7, <2>9, <3>2, <4>2, <4>3 DEF LastInv
    <3>5. QED
      BY <3>3, <3>4
  <2>10. QED
    BY <2>3, <2>7, <2>8, <2>9
<1>3. LastInv(p, Len(rs), Announced!Fold(p, rs))
  <2> HIDE DEF p, LastInv, LastStep
  <2>1. QED
    BY <1>1, <1>2, Announced!LoopRule
<1>4. LatestAnnounce(rs, a) = Announced!Fold(p, rs)
  BY DEF LatestAnnounce, LastStep, FoldLeft, MapThenFoldSet, Max,
         Announced!Fold, Announced!FoldLeft, Announced!MapThenFoldSet, Announced!Max
<1>5. QED
  BY <1>3, <1>4

-----------------------------------------------------------------------------
(* Types.                                                                   *)

LEMMA ChainTypes ==
  ASSUME AuditTypeOK
  PROVE  /\ chain \in Seq(RemarkLike)
         /\ \A n \in DOMAIN chain : \A m \in 1..n : chain[m].block <= chain[n].block
<1>1. CASE chain \in Chains
  BY <1>1, AuditAssumption
<1>2. CASE chain = <<>>
  BY <1>2
<1>3. QED
  BY <1>1, <1>2 DEF AuditTypeOK

LEMMA BlocksAreRemarks ==
  ASSUME AuditTypeOK
  PROVE  /\ \A n : RemarksOf(n) \in Seq(RemarkLike)
         /\ Window \in Seq(RemarkLike)
BY ChainTypes, PickTypes DEF RemarksOf, Window

LEMMA BallotTypes ==
  ASSUME NEW r \in RemarkLike
  PROVE  /\ r.kind = "vote" => r \in Vote /\ r.c \in VoteChoices
         /\ r.kind = "clear" => r \in ClearVote /\ r.c \in VoteChoices
BY DEF RemarkLike, Registration, Announce, Start, Ballots, ClearVote, Vote

LEMMA CurrentIsRemark ==
  ASSUME TypeOK, next <= Len(sorted)
  PROVE  next \in DOMAIN sorted /\ Current \in RemarkLike
<1>1. next \in DOMAIN sorted
  BY DEF TypeOK
<1>2. QED
  BY <1>1 DEF TypeOK, Current

Kinds == VoteChoices \cup {"invalid", "totalVoted"}

LEMMA BumpTypes ==
  ASSUME TypeOK, NEW keys
  PROVE  /\ Bump(keys) \in [Kinds -> Nat]
         /\ \A x \in Kinds : Bump(keys)[x] = IF x \in keys THEN tally[x] + 1 ELSE tally[x]
BY DEF TypeOK, Bump, Kinds

LEMMA TypesInit == AuditInit => TypeOK /\ AuditTypeOK
<1> SUFFICES ASSUME AuditInit PROVE TypeOK /\ AuditTypeOK
  OBVIOUS
<1>1. TypeOK
  BY DEF AuditInit, Init, TypeOK
<1>2. AuditTypeOK
  <2>1. opts \in [from : Nat, to : Nat \cup {NoBlock}, concurrency : 0..MaxWorkers,
                  address : Addresses]
    <3>1. CASE caller = "screen"
      BY <3>1, RingAssumption, AuditAssumption DEF AuditInit
    <3>2. CASE caller # "screen"
      <4>1. PICK A \in SUBSET Addresses :
              opts \in [from : FromBlocks, to : ToBlocks, concurrency : 0..MaxWorkers,
                        address : A]
        BY <3>2, RingAssumption DEF AuditInit
      <4>2. QED
        BY <4>1, AuditAssumption
    <3>3. QED
      BY <3>1, <3>2
  <2>2. head \in Nat /\ chain \in Chains \cup {<<>>}
    BY AuditAssumption DEF AuditInit
  <2>3. QED
    BY <2>1, <2>2 DEF AuditInit, AuditTypeOK, Workers, NoExit
<1>3. QED
  BY <1>1, <1>2

\* The steps of the walk.
Walks == \/ Skip \/ RejectClear \/ RejectVote \/ CountClear \/ CountVote
         \/ DropRepeated \/ Return

LEMMA ChecksAreReasons ==
  ASSUME NEW r
  PROVE  /\ WindowCheck(r) # "ok" => WindowCheck(r) \in InvalidReason
         /\ ClearCheck(r) # "ok" => ClearCheck(r) \in InvalidReason
         /\ VoteCheck(r) # "ok" => VoteCheck(r) \in InvalidReason
<1>1. WindowCheck(r) # "ok" => WindowCheck(r) \in InvalidReason
  BY DEF WindowCheck, InvalidReason
<1>2. ClearCheck(r) # "ok" => ClearCheck(r) \in InvalidReason
  <2> HIDE DEF WindowCheck
  <2>1. QED
    BY <1>1 DEF ClearCheck, InvalidReason
<1>3. VoteCheck(r) # "ok" => VoteCheck(r) \in InvalidReason
  BY <1>1 DEF VoteCheck, InvalidReason
<1>4. QED
  BY <1>1, <1>2, <1>3

LEMMA WalkTypes == TypeOK /\ Walks => TypeOK'
<1> SUFFICES ASSUME TypeOK, Walks PROVE TypeOK'
  OBVIOUS
<1>1. CASE Skip \/ DropRepeated
  BY <1>1 DEF Skip, DropRepeated, Visit, input, result, TypeOK
<1>2. ASSUME Visit, NEW why \in InvalidReason, RecordInvalid(why) PROVE TypeOK'
  <2>1. tally' \in [Kinds -> Nat]
    BY <1>2, BumpTypes DEF RecordInvalid
  <2>2. next \in Nat
    BY DEF TypeOK
  <2>3. invalidReasons' \in Seq([at : Nat, reason : InvalidReason])
    BY <1>2, <2>2 DEF RecordInvalid, TypeOK
  <2>4. QED
    BY <1>2, <2>1, <2>3 DEF RecordInvalid, Visit, input, TypeOK, Kinds
<1>3. CASE RejectClear
  <2>1. ClearCheck(Current) \in InvalidReason
    BY <1>3, ChecksAreReasons DEF RejectClear
  <2>2. QED
    BY <1>2, <1>3, <2>1 DEF RejectClear
<1>4. CASE RejectVote
  <2>1. VoteCheck(Current) \in InvalidReason
    BY <1>4, ChecksAreReasons DEF RejectVote
  <2>2. QED
    BY <1>2, <1>4, <2>1 DEF RejectVote
<1>5. CASE CountClear
  <2>1. Current \in ClearVote
    BY <1>5, CurrentIsRemark, BallotTypes DEF CountClear, Visit
  <2>2. tally' \in [Kinds -> Nat]
    BY <1>5, BumpTypes DEF CountClear
  <2>3. next' \in Nat \ {0}
    BY <1>5 DEF CountClear, Visit, TypeOK
  <2>4. acceptedClear' \in Seq(ClearVote)
    BY <1>5, <2>1 DEF CountClear, TypeOK
  <2>5. QED
    BY <1>5, <2>2, <2>3, <2>4 DEF CountClear, Visit, input, TypeOK, Kinds
<1>6. CASE CountVote
  <2>1. Current \in Vote
    BY <1>6, CurrentIsRemark, BallotTypes DEF CountVote, Visit
  <2>2. tally' \in [Kinds -> Nat]
    BY <1>6, BumpTypes DEF CountVote
  <2>3. next' \in Nat \ {0}
    BY <1>6 DEF CountVote, Visit, TypeOK
  <2>4. accepted' \in Seq(Vote)
    BY <1>6, <2>1 DEF CountVote, TypeOK
  <2>5. QED
    BY <1>6, <2>2, <2>3, <2>4 DEF CountVote, Visit, input, TypeOK, Kinds
<1>7. CASE Return
  BY <1>7 DEF Return, input, result, TypeOK
<1>8. QED
  BY <1>1, <1>3, <1>4, <1>5, <1>6, <1>7 DEF Walks

LEMMA TypesStep == TypeOK /\ AuditTypeOK /\ [AuditNext]_auditVars => TypeOK' /\ AuditTypeOK'
<1> SUFFICES ASSUME TypeOK, AuditTypeOK, [AuditNext]_auditVars
             PROVE  TypeOK' /\ AuditTypeOK'
  OBVIOUS
<1>1. CASE UNCHANGED audit
  <2>1. AuditTypeOK'
    BY <1>1 DEF audit, input2, AuditTypeOK, Workers
  <2>2. CASE UNCHANGED vars
    BY <2>1, <2>2 DEF vars, input, result, TypeOK
  <2>3. ASSUME NEW r \in Candidates, Collect(r) PROVE TypeOK'
    BY <2>3, TallyLoopAssumption DEF Collect, result, TypeOK
  <2>4. ASSUME Begin PROVE TypeOK'
    <3>1. SortByBlock(list) \in Seq(RemarkLike)
      BY Sorting DEF TypeOK
    <3>2. QED
      BY <2>4, <3>1 DEF Begin, result, TypeOK
  <2>5. CASE Walks
    BY <2>1, <2>5, WalkTypes
  <2>6. CASE AuditNext /\ ~Walks /\ ~Begin /\ ~(\E r \in Candidates : Collect(r))
    <3>1. UNCHANGED vars \/ (\E w \in Workers : Fetch(w)) \/ ScanEnds
      BY <2>6 DEF AuditNext, Walks, Mine, ConnectFails, Connect, FetchFails, Check, Report, Throw
    <3>2. QED
      BY <1>1, <2>1, <2>2, <3>1 DEF audit, Fetch, ScanEnds, AuditTypeOK
  <2>7. QED
    BY <2>1, <2>2, <2>3, <2>4, <2>5, <2>6 DEF auditVars
<1>2. CASE Mine \/ ConnectFails \/ Check \/ Report
  <2>1. TypeOK'
    BY <1>2 DEF Mine, ConnectFails, Check, Report, Throw, vars, input, result, TypeOK
  <2>2. CASE Mine
    BY <2>1, <2>2 DEF Mine, input2, AuditTypeOK, Workers
  <2>3. CASE ConnectFails
    BY <2>1, <2>3 DEF ConnectFails, Throw, input2, AuditTypeOK, Workers
  <2>4. CASE Check
    BY <2>1, <2>4 DEF Check, input2, AuditTypeOK, Workers
  <2>5. CASE Report
    BY <2>1, <2>5 DEF Report, input2, AuditTypeOK, Workers
  <2>6. QED
    BY <1>2, <2>2, <2>3, <2>4, <2>5
<1>3. ASSUME Connect PROVE TypeOK' /\ AuditTypeOK'
  <2>1. TypeOK'
    BY <1>3 DEF Connect, Throw, vars, input, result, TypeOK
  <2>2. toBlock' \in Nat \cup {NoBlock} /\ UNCHANGED <<caller, opts, chain, head>>
    BY <1>3 DEF Connect, Throw, input2, AuditTypeOK
  <2>3. opts.from \in Nat /\ opts.concurrency \in Nat
    BY DEF AuditTypeOK
  <2>4. nextBlock' \in Nat
    BY <1>3, <2>3 DEF Connect, Throw, AuditTypeOK
  <2>5. fetching' \in [Workers -> Nat \cup {NoBlock}]
    <3>1. \A w \in Workers : opts.from + w - 1 \in Nat
      BY <2>3, AuditAssumption DEF Workers
    <3>2. QED
      BY <1>3, <3>1 DEF Connect, Throw, AuditTypeOK
  <2>6. scan' = "scanning" /\ exit' \in {NoExit, 0, 1, 2}
    BY <1>3 DEF Connect, Throw, AuditTypeOK
  <2>7. QED
    BY <2>1, <2>2, <2>4, <2>5, <2>6 DEF AuditTypeOK, Workers
<1>4. ASSUME NEW w \in Workers, Fetch(w) PROVE TypeOK' /\ AuditTypeOK'
  <2>1. list' \in Seq(RemarkLike)
    <3>1. RemarksOf(fetching[w]) \in Seq(RemarkLike)
      BY BlocksAreRemarks
    <3>2. QED
      BY <1>4, <3>1 DEF Fetch, TypeOK
  <2>2. TypeOK'
    BY <1>4, <2>1 DEF Fetch, result, TypeOK
  <2>3. QED
    BY <1>4, <2>2 DEF Fetch, input2, AuditTypeOK, Workers
<1>5. ASSUME NEW w \in Workers, FetchFails(w) PROVE TypeOK' /\ AuditTypeOK'
  BY <1>5 DEF FetchFails, Throw, vars, input, result, TypeOK, input2, AuditTypeOK, Workers
<1>6. ASSUME ScanEnds PROVE TypeOK' /\ AuditTypeOK'
  <2>1. list' \in Seq(RemarkLike)
    BY <1>6, Sorting DEF ScanEnds, TypeOK
  <2>2. TypeOK'
    BY <1>6, <2>1 DEF ScanEnds, result, TypeOK
  <2>3. QED
    BY <1>6, <2>2 DEF ScanEnds, input2, AuditTypeOK, Workers
<1>7. QED
  BY <1>1, <1>2, <1>3, <1>4, <1>5, <1>6 DEF AuditNext, auditVars

-----------------------------------------------------------------------------
(* The books.                                                               *)

\* The votes of s for c.
Votes(s, c) == Cardinality({i \in DOMAIN s : s[i].c = c})

LEMMA VotesAppend ==
  ASSUME NEW S, NEW s \in Seq(S), NEW e \in S, NEW c
  PROVE  /\ Votes(s, c) \in Nat
         /\ Votes(Append(s, e), c) = IF e.c = c THEN Votes(s, c) + 1 ELSE Votes(s, c)
<1> DEFINE at == {i \in DOMAIN s : s[i].c = c}
           t == Append(s, e)
<1>1. DOMAIN s = 1..Len(s) /\ DOMAIN t = 1..(Len(s) + 1) /\ Len(s) \in Nat
  OBVIOUS
<1>2. IsFiniteSet(at) /\ Cardinality(at) \in Nat
  BY <1>1, RankNth
<1>3. t[Len(s) + 1] = e /\ \A i \in DOMAIN s : t[i] = s[i]
  OBVIOUS
<1> HIDE DEF t
<1>4. \A i : i \in DOMAIN t <=> i \in DOMAIN s \/ i = Len(s) + 1
  BY <1>1
<1>5. Len(s) + 1 \notin at
  BY <1>1
<1>6. CASE e.c = c
  <2>1. {i \in DOMAIN t : t[i].c = c} = at \cup {Len(s) + 1}
    BY <1>3, <1>4, <1>6
  <2>2. Cardinality(at \cup {Len(s) + 1}) = Cardinality(at) + 1
    BY <1>2, <1>5, FS_AddElement
  <2>3. QED
    BY <1>2, <1>6, <2>1, <2>2 DEF Votes, t
<1>7. CASE e.c # c
  <2>1. {i \in DOMAIN t : t[i].c = c} = at
    BY <1>3, <1>4, <1>5, <1>7
  <2>2. QED
    BY <1>2, <1>7, <2>1 DEF Votes, t
<1>8. QED
  BY <1>6, <1>7

\* BooksBalance, in terms of Votes.
LEMMA BooksInVotes ==
  BooksBalance <=>
    /\ tally["totalVoted"] = Len(accepted) + Len(acceptedClear)
    /\ \A c \in VoteChoices : tally[c] = Votes(accepted, c) + Votes(acceptedClear, c)
    /\ tally["invalid"] = Len(invalidReasons)
BY DEF BooksBalance, Votes

LEMMA BooksWalk ==
  TypeOK /\ TypeOK' /\ BooksBalance /\ Walks => BooksBalance'
<1> SUFFICES ASSUME TypeOK, TypeOK', BooksBalance, Walks PROVE BooksBalance'
  OBVIOUS
<1>1. /\ tally["totalVoted"] = Len(accepted) + Len(acceptedClear)
      /\ \A c \in VoteChoices : tally[c] = Votes(accepted, c) + Votes(acceptedClear, c)
      /\ tally["invalid"] = Len(invalidReasons)
  BY BooksInVotes
<1>2. /\ "totalVoted" \in Kinds \ VoteChoices /\ "invalid" \in Kinds \ VoteChoices
      /\ "totalVoted" # "invalid" /\ VoteChoices \subseteq Kinds
      /\ \A x \in Kinds : tally[x] \in Nat
  BY TallyLoopAssumption DEF Kinds, TypeOK
<1>3. /\ Len(accepted) \in Nat /\ Len(acceptedClear) \in Nat
      /\ Len(invalidReasons) \in Nat
  BY DEF TypeOK
<1>4. CASE UNCHANGED result
  BY <1>4 DEF result, BooksBalance
<1>5. ASSUME NEW why, RecordInvalid(why) PROVE BooksBalance'
  <2>1. \A x \in Kinds : tally'[x] = IF x = "invalid" THEN tally[x] + 1 ELSE tally[x]
    BY <1>5, BumpTypes DEF RecordInvalid
  <2>2. Len(invalidReasons') = Len(invalidReasons) + 1
    BY <1>5 DEF RecordInvalid, TypeOK
  <2>3. accepted' = accepted /\ acceptedClear' = acceptedClear
    BY <1>5 DEF RecordInvalid
  <2>4. \A c \in VoteChoices : tally'[c] = tally[c]
    BY <1>2, <2>1
  <2>5. tally'["invalid"] = Len(invalidReasons') /\ tally'["totalVoted"] = tally["totalVoted"]
    BY <1>1, <1>2, <2>1, <2>2
  <2>6. QED
    BY <1>1, <2>3, <2>4, <2>5 DEF BooksBalance, Votes
<1>6. ASSUME NEW e, tally' = Bump({e.c, "totalVoted"}), e.c \in VoteChoices,
             UNCHANGED invalidReasons
      PROVE  /\ \A c \in VoteChoices : tally'[c] = IF e.c = c THEN tally[c] + 1 ELSE tally[c]
             /\ tally'["totalVoted"] = tally["totalVoted"] + 1
             /\ tally'["invalid"] = Len(invalidReasons')
  <2>1. \A x \in Kinds : tally'[x] =
          IF x \in {e.c, "totalVoted"} THEN tally[x] + 1 ELSE tally[x]
    BY <1>6, BumpTypes
  <2>2. \A c \in VoteChoices : tally'[c] = IF e.c = c THEN tally[c] + 1 ELSE tally[c]
    BY <1>2, <2>1
  <2>3. tally'["totalVoted"] = tally["totalVoted"] + 1
    BY <1>2, <2>1
  <2>4. tally'["invalid"] = tally["invalid"]
    BY <1>2, <1>6, <2>1
  <2>5. QED
    BY <1>1, <1>6, <2>2, <2>3, <2>4
<1>7. CASE CountVote
  <2> DEFINE e == Current
  <2>1. e \in Vote /\ e.c \in VoteChoices
    BY <1>7, CurrentIsRemark, BallotTypes DEF CountVote, Visit
  <2>2. accepted' = Append(accepted, e) /\ acceptedClear' = acceptedClear
    BY <1>7 DEF CountVote
  <2>3. tally' = Bump({e.c, "totalVoted"}) /\ UNCHANGED invalidReasons
    BY <1>7 DEF CountVote
  <2> HIDE DEF e
  <2>4. /\ \A c \in VoteChoices : tally'[c] = IF e.c = c THEN tally[c] + 1 ELSE tally[c]
        /\ tally'["totalVoted"] = tally["totalVoted"] + 1
        /\ tally'["invalid"] = Len(invalidReasons')
    BY <1>6, <2>1, <2>3
  <2>5. accepted \in Seq(Vote) /\ acceptedClear \in Seq(ClearVote)
    BY DEF TypeOK
  <2>6. \A c : /\ Votes(accepted, c) \in Nat /\ Votes(acceptedClear, c) \in Nat
               /\ Votes(accepted', c) =
                    IF e.c = c THEN Votes(accepted, c) + 1 ELSE Votes(accepted, c)
    <3>1. \A c : Votes(acceptedClear, c) \in Nat
      <4>1. DOMAIN acceptedClear = 1..Len(acceptedClear) /\ Len(acceptedClear) \in Nat
        BY <2>5
      <4>2. QED
        BY <4>1, RankNth DEF Votes
    <3>2. QED
      BY <2>1, <2>2, <2>5, <3>1, VotesAppend
  <2>7. Len(accepted') = Len(accepted) + 1
    BY <2>1, <2>2, <2>5
  <2>8. \A c \in VoteChoices : tally'[c] = Votes(accepted', c) + Votes(acceptedClear', c)
    BY <1>1, <2>2, <2>4, <2>6
  <2>9. tally'["totalVoted"] = Len(accepted') + Len(acceptedClear')
    BY <1>1, <1>3, <2>2, <2>4, <2>7
  <2>10. QED
    BY <2>4, <2>8, <2>9 DEF BooksBalance, Votes
<1>8. CASE CountClear
  <2> DEFINE e == Current
  <2>1. e \in ClearVote /\ e.c \in VoteChoices
    BY <1>8, CurrentIsRemark, BallotTypes DEF CountClear, Visit
  <2>2. acceptedClear' = Append(acceptedClear, e) /\ accepted' = accepted
    BY <1>8 DEF CountClear
  <2>3. tally' = Bump({e.c, "totalVoted"}) /\ UNCHANGED invalidReasons
    BY <1>8 DEF CountClear
  <2> HIDE DEF e
  <2>4. /\ \A c \in VoteChoices : tally'[c] = IF e.c = c THEN tally[c] + 1 ELSE tally[c]
        /\ tally'["totalVoted"] = tally["totalVoted"] + 1
        /\ tally'["invalid"] = Len(invalidReasons')
    BY <1>6, <2>1, <2>3
  <2>5. accepted \in Seq(Vote) /\ acceptedClear \in Seq(ClearVote)
    BY DEF TypeOK
  <2>6. \A c : /\ Votes(accepted, c) \in Nat /\ Votes(acceptedClear, c) \in Nat
               /\ Votes(acceptedClear', c) =
                    IF e.c = c THEN Votes(acceptedClear, c) + 1 ELSE Votes(acceptedClear, c)
    <3>1. \A c : Votes(accepted, c) \in Nat
      <4>1. DOMAIN accepted = 1..Len(accepted) /\ Len(accepted) \in Nat
        BY <2>5
      <4>2. QED
        BY <4>1, RankNth DEF Votes
    <3>2. QED
      BY <2>1, <2>2, <2>5, <3>1, VotesAppend
  <2>7. Len(acceptedClear') = Len(acceptedClear) + 1
    BY <2>1, <2>2, <2>5
  <2>8. \A c \in VoteChoices : tally'[c] = Votes(accepted', c) + Votes(acceptedClear', c)
    BY <1>1, <2>2, <2>4, <2>6
  <2>9. tally'["totalVoted"] = Len(accepted') + Len(acceptedClear')
    BY <1>1, <1>3, <2>2, <2>4, <2>7
  <2>10. QED
    BY <2>4, <2>8, <2>9 DEF BooksBalance, Votes
<1>9. QED
  BY <1>4, <1>5, <1>7, <1>8 DEF Walks, Skip, RejectClear, RejectVote, DropRepeated, Return

LEMMA BooksStep ==
  TypeOK /\ TypeOK' /\ BooksBalance /\ [AuditNext]_auditVars => BooksBalance'
<1> SUFFICES ASSUME TypeOK, TypeOK', BooksBalance, [AuditNext]_auditVars
             PROVE  BooksBalance'
  OBVIOUS
<1>1. CASE Walks
  BY <1>1, BooksWalk
<1>2. CASE ~Walks
  <2>1. UNCHANGED result
    BY <1>2 DEF AuditNext, auditVars, vars, Walks, Collect, Begin, Mine, ConnectFails,
       Connect, Fetch, FetchFails, ScanEnds, Check, Report, Throw
  <2>2. QED
    BY <2>1 DEF result, BooksBalance
<1>3. QED
  BY <1>1, <1>2

LEMMA BooksInit == AuditInit => BooksBalance
<1> SUFFICES ASSUME AuditInit PROVE BooksBalance
  OBVIOUS
<1>1. /\ accepted = <<>> /\ acceptedClear = <<>> /\ invalidReasons = <<>>
      /\ tally = [x \in Kinds |-> 0] /\ VoteChoices \subseteq Kinds
      /\ "totalVoted" \in Kinds /\ "invalid" \in Kinds
  BY DEF AuditInit, Init, Kinds
<1>2. \A c : Votes(<<>>, c) = 0
  <2>1. \A c : {i \in DOMAIN <<>> : <<>>[i].c = c} = {}
    OBVIOUS
  <2>2. QED
    BY <2>1, FS_EmptySet DEF Votes
<1>3. QED
  BY <1>1, <1>2, BooksInVotes

-----------------------------------------------------------------------------
(* The walk.                                                                *)

\* A non-empty set of positions has a first one.
LEMMA FirstIn ==
  ASSUME NEW n \in Nat, NEW at \in SUBSET (1..n), at # {}
  PROVE  \E k \in at : \A j \in at : ~(j < k)
<1>1. IsFiniteSet(at) /\ Cardinality(at) \in Nat
  BY RankNth
<1>2. Cardinality(at) # 0
  BY <1>1, FS_EmptySet
<1>3. 1 \in 1..Cardinality(at)
  BY <1>1, <1>2
<1>4. Nth(at, 1) \in at /\ Rank(at, Nth(at, 1)) = 1
  BY <1>3, RankNth
<1> DEFINE k == Nth(at, 1)
<1>5. \A i, j \in at : i < j => Rank(at, i) < Rank(at, j)
  BY RankNth
<1>6. \A j \in at : Rank(at, j) \in 1..Cardinality(at)
  BY RankNth
<1>7. k \in at /\ Rank(at, k) = 1
  BY <1>4
<1> HIDE DEF k
<1>8. \A j \in at : ~(j < k)
  BY <1>1, <1>5, <1>6, <1>7
<1>9. QED
  BY <1>7, <1>8

\* Of the valid ballots of a slot the first is counted.
LEMMA FirstOfSlot ==
  ASSUME NEW R, NEW bs, NEW n \in Nat, NEW j \in 1..n, Valid(R, bs[j])
  PROVE  \E i \in 1..j : IsCounted(R, bs, i) /\ SameSlot(bs[i], bs[j])
<1> DEFINE at == {i \in 1..j : Valid(R, bs[i]) /\ SameSlot(bs[i], bs[j])}
<1>1. j \in at
  BY DEF Valid, IsBallot, SameSlot
<1>2. PICK i \in at : \A k \in at : ~(k < i)
  <2>1. j \in Nat /\ at \in SUBSET (1..j) /\ at # {}
    BY <1>1
  <2> HIDE DEF at
  <2>2. QED
    BY <2>1, FirstIn
<1>3. ASSUME NEW k \in 1..(i - 1), SameSlot(bs[k], bs[i]) PROVE ~Valid(R, bs[k])
  <2>1. k \in 1..j /\ k < i
    OBVIOUS
  <2>2. SameSlot(bs[k], bs[j])
    BY <1>2, <1>3 DEF SameSlot
  <2>3. QED
    BY <1>2, <2>1, <2>2
<1>4. QED
  BY <1>2, <1>3 DEF IsCounted

\* What CountedBefore and InvalidBefore are when n - 1 positions are done.
CountedUpTo(R, bs, n, kind) == {i \in Counted(R, bs) : i < n /\ bs[i].kind = kind}
InvalidUpTo(R, bs, n) == {i \in Invalid(R, bs) : i < n}

LEMMA UpToNext ==
  ASSUME NEW bs \in Seq(RemarkLike), NEW R, NEW n \in DOMAIN bs, NEW kind
  PROVE  /\ CountedUpTo(R, bs, n + 1, kind) =
              IF IsCounted(R, bs, n) /\ bs[n].kind = kind
              THEN CountedUpTo(R, bs, n, kind) \cup {n}
              ELSE CountedUpTo(R, bs, n, kind)
         /\ InvalidUpTo(R, bs, n + 1) =
              IF IsBallot(bs[n]) /\ Reason(R, bs[n]) # "ok"
              THEN InvalidUpTo(R, bs, n) \cup {n} ELSE InvalidUpTo(R, bs, n)
         /\ CountedUpTo(R, bs, n, kind) \in SUBSET (1..(n - 1))
         /\ InvalidUpTo(R, bs, n) \in SUBSET (1..(n - 1))
<1>1. n \in Nat /\ DOMAIN bs = 1..Len(bs) /\ Len(bs) \in Nat
  OBVIOUS
<1>2. \A i \in DOMAIN bs : i < n + 1 <=> i < n \/ i = n
  BY <1>1
<1>3. \A i \in DOMAIN bs : i < n => i \in 1..(n - 1)
  BY <1>1
<1>4. /\ CountedUpTo(R, bs, n, kind) \in SUBSET (1..(n - 1))
      /\ InvalidUpTo(R, bs, n) \in SUBSET (1..(n - 1))
  BY <1>3 DEF CountedUpTo, InvalidUpTo, Counted, Invalid
<1>5. CountedUpTo(R, bs, n + 1, kind) =
        IF IsCounted(R, bs, n) /\ bs[n].kind = kind
        THEN CountedUpTo(R, bs, n, kind) \cup {n} ELSE CountedUpTo(R, bs, n, kind)
  BY <1>2 DEF CountedUpTo, Counted
<1>6. InvalidUpTo(R, bs, n + 1) =
        IF IsBallot(bs[n]) /\ Reason(R, bs[n]) # "ok"
        THEN InvalidUpTo(R, bs, n) \cup {n} ELSE InvalidUpTo(R, bs, n)
  BY <1>2 DEF InvalidUpTo, Invalid
<1>7. QED
  BY <1>4, <1>5, <1>6

\* The slots taken by the counted ballots are the slots with a valid one.
LEMMA SlotTaken ==
  ASSUME NEW bs \in Seq(RemarkLike), NEW R, NEW n \in DOMAIN bs, IsBallot(bs[n])
  PROVE  /\ Valid(R, bs[n]) /\ bs[n].kind = "vote" =>
              (IsCounted(R, bs, n) <=>
                 bs[n].sig.key \notin {bs[i].sig.key : i \in CountedUpTo(R, bs, n, "vote")})
         /\ Valid(R, bs[n]) /\ bs[n].kind = "clear" =>
              (IsCounted(R, bs, n) <=>
                 bs[n].signer \notin {bs[i].signer : i \in CountedUpTo(R, bs, n, "clear")})
<1> DEFINE taken(kind) == CountedUpTo(R, bs, n, kind)
<1>1. n \in Nat /\ DOMAIN bs = 1..Len(bs) /\ Len(bs) \in Nat /\ n <= Len(bs) /\ n >= 1
  OBVIOUS
<1>2. ASSUME Valid(R, bs[n]), NEW kind, bs[n].kind = kind
      PROVE  IsCounted(R, bs, n) <=> ~\E i \in taken(kind) : SameSlot(bs[i], bs[n])
  <2>1. ASSUME NEW j \in 1..(n - 1), SameSlot(bs[j], bs[n]), Valid(R, bs[j])
        PROVE  \E i \in taken(kind) : SameSlot(bs[i], bs[n])
    <3>1. j \in 1..Len(bs)
      BY <1>1
    <3>2. PICK i \in 1..j : IsCounted(R, bs, i) /\ SameSlot(bs[i], bs[j])
      BY <1>1, <2>1, <3>1, FirstOfSlot
    <3>3. i \in DOMAIN bs /\ i < n
      BY <1>1
    <3>4. SameSlot(bs[i], bs[n]) /\ bs[i].kind = kind
      BY <1>2, <2>1, <3>2 DEF SameSlot
    <3>5. QED
      BY <3>2, <3>3, <3>4 DEF CountedUpTo, Counted
  <2>2. \A i \in taken(kind) : i \in 1..(n - 1) /\ Valid(R, bs[i])
    BY <1>1 DEF CountedUpTo, Counted, IsCounted
  <2>3. QED
    BY <1>2, <2>1, <2>2 DEF IsCounted
<1>3. \A i \in taken("vote") : bs[i].kind = "vote"
  BY DEF CountedUpTo
<1>4. \A i \in taken("clear") : bs[i].kind = "clear"
  BY DEF CountedUpTo
<1>5. ASSUME Valid(R, bs[n]), bs[n].kind = "vote"
      PROVE  IsCounted(R, bs, n) <=>
               bs[n].sig.key \notin {bs[i].sig.key : i \in taken("vote")}
  <2>1. IsCounted(R, bs, n) <=> ~\E i \in taken("vote") : SameSlot(bs[i], bs[n])
    BY <1>2, <1>5
  <2>2. \A i \in taken("vote") : SameSlot(bs[i], bs[n]) <=> bs[n].sig.key = bs[i].sig.key
    BY <1>3, <1>5 DEF SameSlot
  <2>3. QED
    BY <2>1, <2>2
<1>6. ASSUME Valid(R, bs[n]), bs[n].kind = "clear"
      PROVE  IsCounted(R, bs, n) <=>
               bs[n].signer \notin {bs[i].signer : i \in taken("clear")}
  <2>1. IsCounted(R, bs, n) <=> ~\E i \in taken("clear") : SameSlot(bs[i], bs[n])
    BY <1>2, <1>6
  <2>2. \A i \in taken("clear") : SameSlot(bs[i], bs[n]) <=> bs[n].signer = bs[i].signer
    BY <1>4, <1>6 DEF SameSlot
  <2>3. QED
    BY <2>1, <2>2
<1>7. QED
  BY <1>5, <1>6

\* The chain of ifs is Ring's verdict.
LEMMA ChecksAreRing ==
  ASSUME TypeOK, WalkIsRight, pc # "collect", NEW r
  PROVE  /\ r.kind = "vote" => VoteCheck(r) = Reason(Range(list), r)
         /\ r.kind = "clear" => ClearCheck(r) = Reason(Range(list), r)
<1> DEFINE R == Range(list)
<1>0. list \in Seq(RemarkLike)
  BY DEF TypeOK
<1>1. votingStartBlock = FindVotingStartBlock(R)
  BY <1>0, EarliestIsStart DEF WalkIsRight
<1>2. announcedSigners = AnnouncedSigners(R)
  BY <1>0, <1>1, SignersAreAnnounced DEF WalkIsRight
<1>3. RingOfList(list, r.rb, votingStartBlock) = RingAt(R, r.rb)
  BY <1>0, <1>1, RingOfListIsRingAt
<1> HIDE DEF R
<1>4. WindowCheck(r) = WindowReason(R, r.block)
  BY <1>1 DEF WindowCheck, WindowReason
<1>5. ClearCheck(r) = ClearReason(R, r)
  BY <1>2, <1>4 DEF ClearCheck, ClearReason
<1>6. VoteCheck(r) = VoteReason(R, r)
  BY <1>3, <1>4 DEF VoteCheck, VoteReason
<1>7. QED
  BY <1>5, <1>6 DEF Reason, R

LEMMA WalkBegins == TypeOK /\ WalkIsRight /\ Begin => WalkIsRight'
<1> SUFFICES ASSUME TypeOK, WalkIsRight, Begin PROVE WalkIsRight'
  OBVIOUS
<1> DEFINE R == Range(list)
           t == SortByBlock(list)
<1>1. t \in Seq(RemarkLike) /\ Len(t) \in Nat
  BY Sorting DEF TypeOK
<1>2. /\ next = 1 /\ seenKeyImage = {} /\ seenClearVoter = {}
      /\ accepted = <<>> /\ acceptedClear = <<>> /\ invalidReasons = <<>>
  BY DEF Begin, WalkIsRight
<1>3. /\ pc' = "walk" /\ sorted' = t /\ list' = list
      /\ votingStartBlock' = EarliestStart(list)
      /\ announcedSigners' = CollectAnnounced(list, votingStartBlock')
      /\ UNCHANGED <<next, result>>
  BY DEF Begin
<1>4. \A kind : CountedUpTo(R, t, 1, kind) = {}
  BY <1>1 DEF CountedUpTo, Counted
<1>5. InvalidUpTo(R, t, 1) = {}
  BY <1>1 DEF InvalidUpTo, Invalid
<1>6. CountedBefore("vote")' = {} /\ CountedBefore("clear")' = {} /\ InvalidBefore' = {}
  BY <1>2, <1>3, <1>4, <1>5 DEF CountedBefore, InvalidBefore, CountedUpTo, InvalidUpTo
<1>7. Pick(t, {}) = <<>> /\ Cardinality({}) = 0
  BY PickNone, FS_EmptySet
<1> HIDE DEF t
<1>8. next' <= Len(t) + 1 /\ Len(invalidReasons') = 0
  BY <1>1, <1>2, <1>3 DEF result
<1>9. QED
  BY <1>2, <1>3, <1>6, <1>7, <1>8 DEF WalkIsRight, result, t

\* One position done: what the sets of positions become.
LEMMA PositionDone ==
  ASSUME TypeOK, WalkIsRight, Visit
  PROVE  /\ \A kind : CountedBefore(kind)' =
              IF IsCounted(Range(list), sorted, next) /\ Current.kind = kind
              THEN CountedBefore(kind) \cup {next} ELSE CountedBefore(kind)
         /\ InvalidBefore' =
              IF IsBallot(Current) /\ Reason(Range(list), Current) # "ok"
              THEN InvalidBefore \cup {next} ELSE InvalidBefore
         /\ \A kind : CountedBefore(kind) \in SUBSET (1..(next - 1))
         /\ InvalidBefore \in SUBSET (1..(next - 1))
<1> DEFINE R == Range(list)
<1>1. sorted \in Seq(RemarkLike) /\ next \in DOMAIN sorted
  BY CurrentIsRemark DEF TypeOK, Visit
<1>2. /\ \A kind : CountedBefore(kind) = CountedUpTo(R, sorted, next, kind)
      /\ InvalidBefore = InvalidUpTo(R, sorted, next)
  BY DEF CountedBefore, InvalidBefore, CountedUpTo, InvalidUpTo
<1>3. /\ \A kind : CountedBefore(kind)' = CountedUpTo(R, sorted, next + 1, kind)
      /\ InvalidBefore' = InvalidUpTo(R, sorted, next + 1)
  BY DEF Visit, input, CountedBefore, InvalidBefore, CountedUpTo, InvalidUpTo
<1> HIDE DEF R
<1>4. /\ \A kind : CountedUpTo(R, sorted, next + 1, kind) =
           IF IsCounted(R, sorted, next) /\ sorted[next].kind = kind
           THEN CountedUpTo(R, sorted, next, kind) \cup {next}
           ELSE CountedUpTo(R, sorted, next, kind)
      /\ InvalidUpTo(R, sorted, next + 1) =
           IF IsBallot(sorted[next]) /\ Reason(R, sorted[next]) # "ok"
           THEN InvalidUpTo(R, sorted, next) \cup {next} ELSE InvalidUpTo(R, sorted, next)
      /\ \A kind : CountedUpTo(R, sorted, next, kind) \in SUBSET (1..(next - 1))
      /\ InvalidUpTo(R, sorted, next) \in SUBSET (1..(next - 1))
  BY <1>1, UpToNext
<1>5. QED
  BY <1>2, <1>3, <1>4 DEF R, Current

\* Which turn of the walk it is, in Ring's words.
LEMMA TurnIsRing ==
  ASSUME TypeOK, WalkIsRight, Visit
  PROVE  LET R == Range(list)
         IN  /\ Skip \/ DropRepeated =>
                  /\ ~IsCounted(R, sorted, next)
                  /\ ~(IsBallot(Current) /\ Reason(R, Current) # "ok")
             /\ RejectClear \/ RejectVote =>
                  /\ ~IsCounted(R, sorted, next)
                  /\ IsBallot(Current) /\ Reason(R, Current) # "ok"
             /\ CountVote \/ CountClear =>
                  /\ IsCounted(R, sorted, next)
                  /\ ~(IsBallot(Current) /\ Reason(R, Current) # "ok")
<1> DEFINE R == Range(list)
           votes == CountedUpTo(R, sorted, next, "vote")
           clears == CountedUpTo(R, sorted, next, "clear")
           keys == {sorted[i].sig.key : i \in votes}
           signers == {sorted[i].signer : i \in clears}
           counted == IsCounted(R, sorted, next)
<1>1. sorted \in Seq(RemarkLike) /\ next \in DOMAIN sorted /\ pc # "collect"
  BY CurrentIsRemark DEF TypeOK, Visit
<1>2. seenKeyImage = keys /\ seenClearVoter = signers
  BY <1>1 DEF WalkIsRight, CountedBefore, CountedUpTo
<1>3. /\ Current.kind = "vote" => VoteCheck(Current) = Reason(R, Current)
      /\ Current.kind = "clear" => ClearCheck(Current) = Reason(R, Current)
  BY <1>1, ChecksAreRing
<1>4. counted => Valid(R, Current)
  BY DEF IsCounted, Current
<1>5. Valid(R, Current) <=> IsBallot(Current) /\ Reason(R, Current) = "ok"
  BY DEF Valid
<1>6. IsBallot(Current) /\ Valid(R, Current) =>
        /\ Current.kind = "vote" => (counted <=> Current.sig.key \notin keys)
        /\ Current.kind = "clear" => (counted <=> Current.signer \notin signers)
  BY <1>1, SlotTaken DEF Current
<1> HIDE DEF R, keys, signers, counted
<1>7. Skip \/ DropRepeated => ~counted /\ ~(IsBallot(Current) /\ Reason(R, Current) # "ok")
  BY <1>2, <1>3, <1>4, <1>5, <1>6 DEF Skip, DropRepeated
<1>8. RejectClear \/ RejectVote => ~counted /\ IsBallot(Current) /\ Reason(R, Current) # "ok"
  BY <1>3, <1>4, <1>5 DEF RejectClear, RejectVote
<1>9. CountVote \/ CountClear => counted /\ ~(IsBallot(Current) /\ Reason(R, Current) # "ok")
  BY <1>2, <1>3, <1>5, <1>6 DEF CountVote, CountClear
<1>10. QED
  BY <1>7, <1>8, <1>9 DEF R, counted

LEMMA KindsOfBallot == IsBallot(Current) => Current.kind \in {"vote", "clear"}
BY DEF IsBallot

LEMMA WalkTurns == TypeOK /\ WalkIsRight /\ Walks => WalkIsRight'
<1> SUFFICES ASSUME TypeOK, WalkIsRight, Walks PROVE WalkIsRight'
  OBVIOUS
<1> DEFINE votes == CountedBefore("vote")
           clears == CountedBefore("clear")
           rejected == InvalidBefore
<1>1. sorted \in Seq(RemarkLike) /\ Len(sorted) \in Nat /\ next \in Nat \ {0}
  BY DEF TypeOK
<1>2. CASE Return
  <2>1. pc' = "done" /\ next = Len(sorted) + 1 /\ UNCHANGED <<input, next, result>>
    BY <1>1, <1>2 DEF Return, WalkIsRight
  <2>2. pc # "collect"
    BY <1>2 DEF Return
  <2>3. UNCHANGED <<votes, clears, rejected>>
    BY <2>1 DEF input, CountedBefore, InvalidBefore
  <2> HIDE DEF votes, clears, rejected
  <2>4. QED
    BY <1>1, <2>1, <2>2, <2>3 DEF WalkIsRight, input, result, votes, clears, rejected
<1>3. CASE ~Return
  <2>1. Visit /\ pc = "walk" /\ next \in DOMAIN sorted
    BY <1>3, CurrentIsRemark DEF Walks, Skip, RejectClear, RejectVote, CountClear,
       CountVote, DropRepeated, Visit
  <2>2. /\ next' = next + 1 /\ UNCHANGED <<pc, input>> /\ next' <= Len(sorted) + 1
        /\ next - 1 \in Nat /\ (next - 1) + 1 = next
    BY <1>1, <2>1 DEF Visit
  <2>3. /\ sorted = SortByBlock(list)
        /\ votingStartBlock = EarliestStart(list)
        /\ announcedSigners = CollectAnnounced(list, votingStartBlock)
        /\ accepted = Pick(sorted, votes)
        /\ acceptedClear = Pick(sorted, clears)
        /\ seenKeyImage = {sorted[i].sig.key : i \in votes}
        /\ seenClearVoter = {sorted[i].signer : i \in clears}
        /\ Len(invalidReasons) = Cardinality(rejected)
    BY <2>1 DEF WalkIsRight
  <2>4. /\ votes \in SUBSET (1..(next - 1)) /\ clears \in SUBSET (1..(next - 1))
        /\ rejected \in SUBSET (1..(next - 1))
    BY <2>1, PositionDone
  <2>5. \A kind : CountedBefore(kind)' =
          IF IsCounted(Range(list), sorted, next) /\ Current.kind = kind
          THEN CountedBefore(kind) \cup {next} ELSE CountedBefore(kind)
    BY <2>1, PositionDone
  <2>6. rejected' = IF IsBallot(Current) /\ Reason(Range(list), Current) # "ok"
                    THEN rejected \cup {next} ELSE rejected
    BY <2>1, PositionDone
  <2>7. SUFFICES /\ accepted' = Pick(sorted, votes')
                 /\ acceptedClear' = Pick(sorted, clears')
                 /\ seenKeyImage' = {sorted[i].sig.key : i \in votes'}
                 /\ seenClearVoter' = {sorted[i].signer : i \in clears'}
                 /\ Len(invalidReasons') = Cardinality(rejected')
    BY <2>1, <2>2, <2>3 DEF WalkIsRight, input
  <2>8. \A at \in SUBSET (1..(next - 1)) :
          /\ Pick(sorted, at \cup {next}) = Append(Pick(sorted, at), Current)
          /\ Cardinality(at \cup {next}) = Cardinality(at) + 1
    <3> DEFINE n == next - 1
    <3>1. n \in Nat /\ n + 1 \in DOMAIN sorted /\ n + 1 = next
      BY <2>1, <2>2
    <3> HIDE DEF n
    <3>2. \A at \in SUBSET (1..n) :
            /\ Pick(sorted, at \cup {n + 1}) = Append(Pick(sorted, at), sorted[n + 1])
            /\ Cardinality(at \cup {n + 1}) = Cardinality(at) + 1
      BY <1>1, <3>1, PickNext
    <3>3. QED
      BY <3>1, <3>2 DEF Current, n
  <2> HIDE DEF votes, clears, rejected
  <2>9. CASE Skip \/ DropRepeated
    <3>1. votes' = votes /\ clears' = clears /\ rejected' = rejected
      BY <2>1, <2>5, <2>6, <2>9, TurnIsRing DEF votes, clears
    <3>2. UNCHANGED result
      BY <2>9 DEF Skip, DropRepeated
    <3>3. QED
      BY <2>3, <3>1, <3>2 DEF result
  <2>10. CASE RejectClear \/ RejectVote
    <3>1. votes' = votes /\ clears' = clears /\ rejected' = rejected \cup {next}
      BY <2>1, <2>5, <2>6, <2>10, TurnIsRing DEF votes, clears
    <3>2. PICK why : RecordInvalid(why)
      BY <2>10 DEF RejectClear, RejectVote
    <3>3. Len(invalidReasons') = Len(invalidReasons) + 1
      BY <3>2 DEF RecordInvalid, TypeOK
    <3>4. QED
      BY <2>3, <2>4, <2>8, <3>1, <3>2, <3>3 DEF RecordInvalid
  <2>11. CASE CountVote
    <3>1. votes' = votes \cup {next} /\ clears' = clears /\ rejected' = rejected
      BY <2>1, <2>5, <2>6, <2>11, TurnIsRing DEF votes, clears, CountVote
    <3>2. /\ accepted' = Append(accepted, Current)
          /\ seenKeyImage' = seenKeyImage \cup {Current.sig.key}
          /\ UNCHANGED <<seenClearVoter, acceptedClear, invalidReasons>>
      BY <2>11 DEF CountVote
    <3>3. {sorted[i].sig.key : i \in votes \cup {next}}
            = {sorted[i].sig.key : i \in votes} \cup {Current.sig.key}
      BY DEF Current
    <3>4. QED
      BY <2>3, <2>4, <2>8, <3>1, <3>2, <3>3
  <2>12. CASE CountClear
    <3>1. clears' = clears \cup {next} /\ votes' = votes /\ rejected' = rejected
      BY <2>1, <2>5, <2>6, <2>12, TurnIsRing DEF votes, clears, CountClear
    <3>2. /\ acceptedClear' = Append(acceptedClear, Current)
          /\ seenClearVoter' = seenClearVoter \cup {Current.signer}
          /\ UNCHANGED <<seenKeyImage, accepted, invalidReasons>>
      BY <2>12 DEF CountClear
    <3>3. {sorted[i].signer : i \in clears \cup {next}}
            = {sorted[i].signer : i \in clears} \cup {Current.signer}
      BY DEF Current
    <3>4. QED
      BY <2>3, <2>4, <2>8, <3>1, <3>2, <3>3
  <2>13. QED
    BY <1>3, <2>9, <2>10, <2>11, <2>12 DEF Walks
<1>4. QED
  BY <1>2, <1>3

LEMMA WalkStep ==
  TypeOK /\ WalkIsRight /\ CommandsKeepOrder /\ [AuditNext]_auditVars => WalkIsRight'
<1> SUFFICES ASSUME TypeOK, WalkIsRight, CommandsKeepOrder, [AuditNext]_auditVars
             PROVE  WalkIsRight'
  OBVIOUS
<1>1. CASE UNCHANGED vars
  BY <1>1 DEF vars, input, result, WalkIsRight, CountedBefore, InvalidBefore
<1>2. CASE Walks
  BY <1>2, WalkTurns
<1>3. CASE Begin
  BY <1>3, WalkBegins
<1>4. CASE \/ \E r \in Candidates : Collect(r)
           \/ (\E w \in Workers : Fetch(w)) \/ ScanEnds
  <2>1. pc = "collect" /\ pc' = pc /\ UNCHANGED <<next, result>>
    BY <1>4 DEF Collect, Fetch, ScanEnds, CommandsKeepOrder, TypeOK
  <2>2. QED
    BY <2>1 DEF WalkIsRight, result
<1>5. QED
  BY <1>1, <1>2, <1>3, <1>4 DEF AuditNext, auditVars, Walks, Mine, ConnectFails,
     Connect, FetchFails, Check, Report, Throw

LEMMA WalkInit == AuditInit => WalkIsRight
BY DEF AuditInit, Init, WalkIsRight

-----------------------------------------------------------------------------
(* The scan.                                                                *)

\* The positions of block n.
At(s, n) == {i \in DOMAIN s : s[i].block = n}

\* Two lists with the same remarks of each block of B, in the same order, and
\* none of another block: the sort of the one is what the other, which is in
\* block order, has of B.
SameBlocks(s, t, B) ==
  /\ \A i \in DOMAIN s : s[i].block \in B
  /\ \A n \in B : Pick(s, At(s, n)) = Pick(t, At(t, n))
InOrder(t) == \A n \in DOMAIN t : \A m \in 1..n : t[m].block <= t[n].block

\* Where the element of s at i stands in t.
Home(s, t, i) == Nth(At(t, s[i].block), Rank(At(s, s[i].block), i))

LEMMA Homes ==
  ASSUME NEW s \in Seq(RemarkLike), NEW t \in Seq(RemarkLike), NEW B, SameBlocks(s, t, B)
  PROVE  /\ \A i \in DOMAIN s : /\ Home(s, t, i) \in At(t, s[i].block)
                                 /\ t[Home(s, t, i)] = s[i]
                                 /\ Rank(At(t, s[i].block), Home(s, t, i))
                                      = Rank(At(s, s[i].block), i)
         /\ \A k \in DOMAIN t : t[k].block \in B => \E i \in DOMAIN s : Home(s, t, i) = k
<1>1. /\ \A n : At(s, n) \in SUBSET (1..Len(s)) /\ At(s, n) \in SUBSET DOMAIN s
      /\ \A n : At(t, n) \in SUBSET (1..Len(t)) /\ At(t, n) \in SUBSET DOMAIN t
      /\ Len(s) \in Nat /\ Len(t) \in Nat
  BY DEF At
<1>2. \A n \in B : Cardinality(At(s, n)) = Cardinality(At(t, n))
  <2>1. \A n : /\ Len(Pick(s, At(s, n))) = Cardinality(At(s, n))
               /\ Len(Pick(t, At(t, n))) = Cardinality(At(t, n))
    BY <1>1, PickTypes
  <2>2. QED
    BY <2>1 DEF SameBlocks
<1>3. ASSUME NEW n \in B, NEW m \in 1..Cardinality(At(s, n))
      PROVE  s[Nth(At(s, n), m)] = t[Nth(At(t, n), m)]
  <2>1. Pick(s, At(s, n))[m] = Pick(t, At(t, n))[m]
    BY DEF SameBlocks
  <2>2. m \in 1..Cardinality(At(t, n))
    BY <1>2
  <2>3. QED
    BY <2>1, <2>2 DEF Pick
<1>4. ASSUME NEW i \in DOMAIN s
      PROVE  /\ Home(s, t, i) \in At(t, s[i].block)
             /\ t[Home(s, t, i)] = s[i]
             /\ Rank(At(t, s[i].block), Home(s, t, i)) = Rank(At(s, s[i].block), i)
  <2> DEFINE n == s[i].block
             m == Rank(At(s, n), i)
  <2>1. i \in At(s, n) /\ n \in B
    BY DEF At, SameBlocks
  <2>2. m \in 1..Cardinality(At(s, n)) /\ Nth(At(s, n), m) = i
    BY <1>1, <2>1, RankNth
  <2>3. m \in 1..Cardinality(At(t, n))
    BY <1>2, <2>1, <2>2
  <2>4. Home(s, t, i) = Nth(At(t, n), m)
    BY DEF Home
  <2> HIDE DEF m, n
  <2>5. Nth(At(t, n), m) \in At(t, n) /\ Rank(At(t, n), Nth(At(t, n), m)) = m
    BY <1>1, <2>3, RankNth
  <2>6. t[Nth(At(t, n), m)] = s[i]
    BY <1>3, <2>1, <2>2
  <2>7. QED
    BY <2>4, <2>5, <2>6 DEF m, n
<1>5. ASSUME NEW k \in DOMAIN t, t[k].block \in B
      PROVE  \E i \in DOMAIN s : Home(s, t, i) = k
  <2> DEFINE n == t[k].block
             m == Rank(At(t, n), k)
             i == Nth(At(s, n), m)
  <2>1. k \in At(t, n) /\ n \in B
    BY <1>5 DEF At
  <2>2. m \in 1..Cardinality(At(t, n)) /\ Nth(At(t, n), m) = k
    BY <1>1, <2>1, RankNth
  <2>3. m \in 1..Cardinality(At(s, n))
    BY <1>2, <2>1, <2>2
  <2> HIDE DEF m, n
  <2>4. i \in At(s, n) /\ Rank(At(s, n), i) = m
    BY <1>1, <2>3, RankNth
  <2>5. i \in DOMAIN s /\ s[i].block = n
    BY <2>4 DEF At
  <2>6. Home(s, t, i) = k
    BY <2>2, <2>4, <2>5 DEF Home
  <2>7. QED
    BY <2>5, <2>6
<1>6. QED
  BY <1>4, <1>5

\* The homes stand in the order in which the sort puts the elements.
LEMMA HomesKeepOrder ==
  ASSUME NEW s \in Seq(RemarkLike), NEW t \in Seq(RemarkLike), InOrder(t),
         NEW B, SameBlocks(s, t, B),
         NEW i \in DOMAIN s, NEW j \in DOMAIN s, Before(s, i, j)
  PROVE  Home(s, t, i) < Home(s, t, j)
<1> DEFINE a == Home(s, t, i)
           b == Home(s, t, j)
<1>1. /\ a \in At(t, s[i].block) /\ b \in At(t, s[j].block)
      /\ Rank(At(t, s[i].block), a) = Rank(At(s, s[i].block), i)
      /\ Rank(At(t, s[j].block), b) = Rank(At(s, s[j].block), j)
  BY Homes
<1> HIDE DEF a, b
<1>2. /\ a \in DOMAIN t /\ b \in DOMAIN t /\ t[a].block = s[i].block /\ t[b].block = s[j].block
      /\ t[a].block \in Nat /\ t[b].block \in Nat
  BY <1>1, RemarkTypes DEF At
<1>3. a \in Nat /\ b \in Nat /\ a >= 1 /\ b >= 1
  BY <1>2
<1>4. CASE s[i].block < s[j].block
  <2>1. SUFFICES ASSUME b <= a PROVE FALSE
    BY <1>3 DEF a, b
  <2>2. b \in 1..a
    BY <1>3, <2>1
  <2>3. t[b].block <= t[a].block
    BY <1>2, <2>2 DEF InOrder
  <2>4. QED
    BY <1>2, <1>4, <2>3
<1>5. CASE s[i].block = s[j].block /\ i < j
  <2> DEFINE n == s[i].block
  <2>1. i \in At(s, n) /\ j \in At(s, n) /\ At(s, n) \in SUBSET (1..Len(s)) /\ Len(s) \in Nat
    BY <1>5 DEF At
  <2>2. At(t, n) \in SUBSET (1..Len(t)) /\ Len(t) \in Nat /\ a \in At(t, n) /\ b \in At(t, n)
    BY <1>1, <1>5 DEF At
  <2> HIDE DEF n
  <2>3. \A x, y \in At(s, n) : x < y => Rank(At(s, n), x) < Rank(At(s, n), y)
    BY <2>1, RankNth
  <2>4. Rank(At(t, n), a) < Rank(At(t, n), b)
    BY <1>1, <1>5, <2>1, <2>3 DEF n
  <2>5. \A x, y \in At(t, n) : x < y => Rank(At(t, n), x) < Rank(At(t, n), y)
    BY <2>2, RankNth
  <2>6. Rank(At(t, n), a) \in Int /\ Rank(At(t, n), b) \in Int
    <3>1. /\ Cardinality(At(t, n)) \in Nat
          /\ \A x \in At(t, n) : Rank(At(t, n), x) \in 1..Cardinality(At(t, n))
      BY <2>2, RankNth
    <3>2. QED
      BY <2>2, <3>1
  <2>7. a # b /\ ~(b < a)
    BY <2>2, <2>4, <2>5, <2>6
  <2>8. QED
    BY <1>3, <2>7 DEF a, b
<1>6. QED
  BY <1>4, <1>5 DEF Before

LEMMA SortGathers ==
  ASSUME NEW s \in Seq(RemarkLike), NEW t \in Seq(RemarkLike), InOrder(t),
         NEW B, SameBlocks(s, t, B)
  PROVE  SortByBlock(s) = Pick(t, {k \in DOMAIN t : t[k].block \in B})
<1> DEFINE D == DOMAIN s
           W == {k \in DOMAIN t : t[k].block \in B}
           src == [i \in D |-> Home(s, t, i)]
<1>1. D = 1..Len(s) /\ Len(s) \in Nat /\ W \in SUBSET (1..Len(t)) /\ Len(t) \in Nat
  OBVIOUS
<1>2. \A i \in D : src[i] \in W /\ t[src[i]] = s[i]
  <2>1. \A i \in D : /\ Home(s, t, i) \in At(t, s[i].block) /\ t[Home(s, t, i)] = s[i]
                     /\ s[i].block \in B
    BY Homes DEF SameBlocks
  <2>2. QED
    BY <2>1 DEF At
<1>3. \A k \in W : \E i \in D : src[i] = k
  BY Homes
<1>4. \A i, j \in D : Before(s, i, j) => src[i] < src[j]
  BY HomesKeepOrder
<1> HIDE DEF src
<1>5. \A i \in D : src[i] \in Int /\ i \in Int /\ s[i].block \in Int
  <2>1. \A i \in D : src[i] \in 1..Len(t)
    BY <1>1, <1>2
  <2>2. QED
    BY <1>1, <2>1, RemarkTypes
<1>6. \A i, j \in D : UpToHere(s, i, j) <=> src[j] <= src[i]
  <2>1. ASSUME NEW i \in D, NEW j \in D PROVE UpToHere(s, i, j) <=> src[j] <= src[i]
    <3>1. i = j \/ Before(s, i, j) \/ Before(s, j, i)
      BY <1>5 DEF Before
    <3>2. CASE i = j
      BY <1>5, <3>2 DEF UpToHere
    <3>3. CASE Before(s, i, j)
      BY <1>4, <1>5, <3>3 DEF Before, UpToHere
    <3>4. CASE Before(s, j, i)
      BY <1>4, <1>5, <3>4 DEF Before, UpToHere
    <3>5. QED
      BY <3>1, <3>2, <3>3, <3>4
  <2>2. QED
    BY <2>1
<1>7. \A i, j \in D : src[i] = src[j] => i = j
  <2>1. \A i, j \in D : i # j => Before(s, i, j) \/ Before(s, j, i)
    BY <1>5 DEF Before
  <2>2. QED
    BY <1>4, <1>5, <2>1
<1>8. ASSUME NEW i \in D PROVE Place(s, i) = Rank(W, src[i])
  <2> DEFINE P == {j \in D : UpToHere(s, i, j)}
             Q == {k \in W : k <= src[i]}
             f == [j \in P |-> src[j]]
  <2>1. f \in Bijection(P, Q)
    <3>1. f \in [P -> Q]
      BY <1>2, <1>6
    <3>2. \A j, k \in P : f[j] = f[k] => j = k
      BY <1>7
    <3>3. \A k \in Q : \E j \in P : f[j] = k
      BY <1>3, <1>6
    <3> HIDE DEF f, P, Q
    <3>4. QED
      BY <3>1, <3>2, <3>3 DEF Bijection, Injection, Surjection, IsInjective
  <2>2. IsFiniteSet(P)
    <3>1. P \in SUBSET (1..Len(s))
      BY <1>1
    <3>2. QED
      BY <1>1, <3>1, RankNth
  <2> HIDE DEF f
  <2>3. Cardinality(P) = Cardinality(Q)
    <3> HIDE DEF P, Q
    <3>1. QED
      BY <2>1, <2>2, FS_Bijection DEF ExistsBijection
  <2>4. QED
    BY <2>3 DEF Place, Rank, UpToHere
<1>9. Cardinality(W) = Len(s)
  <2>1. src \in Bijection(D, W)
    <3>1. src \in [D -> W]
      BY <1>2 DEF src
    <3> HIDE DEF W, D
    <3>2. QED
      BY <1>3, <1>7, <3>1 DEF Bijection, Injection, Surjection, IsInjective
  <2>2. IsFiniteSet(1..Len(s)) /\ Cardinality(1..Len(s)) = Len(s)
    <3> DEFINE n == Len(s)
    <3>1. n \in Nat
      OBVIOUS
    <3> HIDE DEF n
    <3>2. IsFiniteSet(1..n) /\ Cardinality(1..n) = n
      BY <3>1, FS_Interval
    <3>3. QED
      BY <3>2 DEF n
  <2> HIDE DEF W
  <2>3. QED
    BY <1>1, <2>1, <2>2, FS_Bijection DEF ExistsBijection
<1>10. /\ SortByBlock(s) \in Seq(RemarkLike) /\ Len(SortByBlock(s)) = Cardinality(W)
       /\ \A i \in D : SortByBlock(s)[Place(s, i)] = s[i]
  BY <1>9, Sorting
<1>11. \A k \in W : SortByBlock(s)[Rank(W, k)] = t[k]
  <2> HIDE DEF W
  <2>1. \A i \in D : SortByBlock(s)[Rank(W, src[i])] = t[src[i]]
    BY <1>2, <1>8, <1>10
  <2>2. QED
    BY <1>3, <2>1
<1>12. QED
  <2> HIDE DEF W
  <2>1. SortByBlock(s) = Pick(t, W)
    BY <1>1, <1>10, <1>11, PickIs
  <2>2. QED
    BY <2>1 DEF W

\* ScanKeepsBlocks, in terms of At.
LEMMA RemarksAt == \A n : RemarksOf(n) = Pick(chain, At(chain, n))
BY DEF RemarksOf, At

LEMMA ScanKeepsAt ==
  ASSUME scan = "scanning", exit = NoExit
  PROVE  ScanKeepsBlocks <=>
    /\ \A w \in Workers : fetching[w] # NoBlock =>
         /\ fetching[w] \in (opts.from)..toBlock /\ fetching[w] < nextBlock
         /\ \A v \in Workers \ {w} : fetching[v] # fetching[w]
    /\ opts.concurrency = 0 => nextBlock = opts.from
    /\ opts.concurrency > 0 /\ (\E w \in 1..(opts.concurrency) : fetching[w] = NoBlock)
         => nextBlock > toBlock
    /\ SameBlocks(list, chain, Pushed)
BY DEF ScanKeepsBlocks, SameBlocks, RemarksOf, At

LEMMA ScanTypes ==
  ASSUME AuditTypeOK
  PROVE  /\ opts.from \in Nat /\ opts.concurrency \in Nat /\ opts.concurrency <= MaxWorkers
         /\ toBlock \in Int /\ nextBlock \in Nat /\ head \in Nat /\ MaxWorkers \in Nat
         /\ \A w \in Workers : fetching[w] \in Int
         /\ \A w \in Workers : w \in Nat /\ w >= 1
         /\ NoBlock \in Int /\ NoBlock < 0
BY AuditAssumption DEF AuditTypeOK, NoBlock, Workers

LEMMA ScanConnects ==
  ASSUME TypeOK, AuditTypeOK, AuditTypeOK', CommandsKeepOrder, Connect, exit' = NoExit
  PROVE  ScanKeepsBlocks'
<1> DEFINE from == opts.from
           c == opts.concurrency
           to == toBlock'
<1>1. list = <<>>
  BY DEF Connect, CommandsKeepOrder
<1>2. /\ nextBlock' = from + c
      /\ fetching' = [w \in Workers |-> IF w <= c /\ from + w - 1 <= to
                                        THEN from + w - 1 ELSE NoBlock]
      /\ UNCHANGED <<vars, input2>> /\ scan' = "scanning"
  BY DEF Connect, Throw, NoExit
<1>3. opts' = opts /\ list' = <<>> /\ chain' = chain
  BY <1>1, <1>2 DEF vars, input, input2
<1>4. /\ from \in Nat /\ c \in Nat /\ c <= MaxWorkers /\ to \in Int
      /\ MaxWorkers \in Nat /\ NoBlock \in Int /\ NoBlock < 0
      /\ \A w \in Workers : w \in Nat /\ w >= 1
  <2>1. to \in Nat \cup {NoBlock}
    BY DEF AuditTypeOK
  <2>2. QED
    BY <2>1, ScanTypes
<1> HIDE DEF from, c, to
<1>5. \A w \in Workers : fetching'[w] = IF w <= c /\ from + w - 1 <= to
                                         THEN from + w - 1 ELSE NoBlock
  BY <1>2
<1>6. ASSUME NEW w \in Workers, fetching'[w] # NoBlock
      PROVE  /\ fetching'[w] \in from..to /\ fetching'[w] < nextBlock'
             /\ \A v \in Workers \ {w} : fetching'[v] # fetching'[w]
  BY <1>2, <1>4, <1>5, <1>6
<1>7. c = 0 => nextBlock' = from
  BY <1>2, <1>4
<1>8. ASSUME NEW w \in 1..c, fetching'[w] = NoBlock PROVE nextBlock' > to
  <2>1. w \in Workers /\ w <= c
    BY <1>4 DEF Workers
  <2>2. ~(from + w - 1 <= to)
    BY <1>4, <1>5, <1>8, <2>1
  <2>3. QED
    BY <1>2, <1>4, <2>1, <2>2
<1>9. ASSUME NEW n \in from..to, n < nextBlock' PROVE \E w \in Workers : fetching'[w] = n
  <2> DEFINE w == n - from + 1
  <2>1. w \in 1..c /\ from + w - 1 = n
    BY <1>2, <1>4, <1>9
  <2>2. w \in Workers
    BY <1>4, <2>1 DEF Workers
  <2> HIDE DEF w
  <2>3. fetching'[w] = n
    BY <1>4, <1>5, <2>1, <2>2
  <2>4. QED
    BY <2>2, <2>3
<1>10. Pushed' = {}
  BY <1>3, <1>9 DEF Pushed, from, to, Workers
<1>11. /\ \A i \in DOMAIN list' : list'[i].block \in Pushed'
       /\ \A n \in Pushed' :
            Pick(list', {i \in DOMAIN list' : list'[i].block = n}) = RemarksOf(n)'
  BY <1>3, <1>10
<1>12. /\ from = opts'.from /\ c = opts'.concurrency /\ to = toBlock' /\ Workers' = Workers
  BY <1>3 DEF from, c, to, Workers
<1> HIDE DEF Workers
<1>13. QED
  BY <1>6, <1>7, <1>8, <1>11, <1>12 DEF ScanKeepsBlocks

LEMMA ScanFetches ==
  ASSUME TypeOK, AuditTypeOK, ScanKeepsBlocks, NEW w \in Workers, Fetch(w)
  PROVE  ScanKeepsBlocks'
<1> DEFINE n == fetching[w]
           to == toBlock
           from == opts.from
           c == opts.concurrency
           new == RemarksOf(n)
<1>1. /\ scan = "scanning" /\ exit = NoExit /\ n # NoBlock
      /\ list' = list \o new
      /\ fetching' = [fetching EXCEPT ![w] = IF nextBlock <= to THEN nextBlock ELSE NoBlock]
      /\ nextBlock' = nextBlock + 1
      /\ UNCHANGED <<caller, opts, chain, toBlock, scan, exit>>
  BY DEF Fetch, input2
<1>2. /\ from \in Nat /\ to \in Int /\ nextBlock \in Nat /\ c \in Nat /\ c <= MaxWorkers
      /\ \A v \in Workers : fetching[v] \in Int
      /\ NoBlock \in Int /\ NoBlock < 0
  BY ScanTypes
<1>3. \A v \in Workers : fetching'[v] =
        IF v = w THEN IF nextBlock <= to THEN nextBlock ELSE NoBlock ELSE fetching[v]
  BY <1>1 DEF AuditTypeOK
<1>4. /\ \A v \in Workers : fetching[v] # NoBlock =>
           /\ fetching[v] \in from..to /\ fetching[v] < nextBlock
           /\ \A u \in Workers \ {v} : fetching[u] # fetching[v]
      /\ c = 0 => nextBlock = from
      /\ c > 0 /\ (\E v \in 1..c : fetching[v] = NoBlock) => nextBlock > to
      /\ SameBlocks(list, chain, Pushed)
  BY <1>1, ScanKeepsAt
<1>5. n \in from..to /\ n < nextBlock /\ c # 0
  BY <1>1, <1>2, <1>4
<1> HIDE DEF n, from, to, c, new
<1>6. ASSUME NEW v \in Workers, fetching'[v] # NoBlock
      PROVE  /\ fetching'[v] \in from..to /\ fetching'[v] < nextBlock'
             /\ \A u \in Workers \ {v} : fetching'[u] # fetching'[v]
  <2>1. CASE v = w
    <3>1. fetching'[v] = nextBlock /\ nextBlock <= to
      BY <1>3, <1>6, <2>1
    <3>2. \A u \in Workers \ {v} : fetching'[u] = fetching[u]
      BY <1>3, <2>1
    <3>3. \A u \in Workers : fetching[u] # NoBlock => fetching[u] < nextBlock
      BY <1>4
    <3>4. nextBlock >= from
      BY <1>2, <1>5
    <3>5. \A u \in Workers \ {v} : fetching'[u] # nextBlock
      BY <1>2, <3>2, <3>3
    <3>6. nextBlock \in from..to /\ nextBlock < nextBlock'
      BY <1>1, <1>2, <3>1, <3>4
    <3>7. QED
      BY <3>1, <3>5, <3>6
  <2>2. CASE v # w
    <3>1. fetching'[v] = fetching[v]
      BY <1>3, <2>2
    <3>2. fetching[v] \in from..to /\ fetching[v] < nextBlock
      BY <1>4, <1>6, <3>1
    <3>3. ASSUME NEW u \in Workers \ {v} PROVE fetching'[u] # fetching'[v]
      <4>1. CASE u = w
        BY <1>2, <1>3, <1>6, <3>1, <3>2, <4>1
      <4>2. CASE u # w
        BY <1>3, <1>4, <1>6, <3>1, <4>2
      <4>3. QED
        BY <4>1, <4>2
    <3>4. QED
      BY <1>1, <1>2, <3>1, <3>2, <3>3
  <2>3. QED
    BY <2>1, <2>2
<1>7. ASSUME NEW v \in 1..c, fetching'[v] = NoBlock PROVE nextBlock' > to
  <2>1. v \in Workers
    BY <1>2, AuditAssumption DEF Workers
  <2>2. CASE v = w
    BY <1>1, <1>2, <1>3, <1>7, <2>1, <2>2
  <2>3. CASE v # w
    <3>1. fetching[v] = NoBlock
      BY <1>3, <1>7, <2>1, <2>3
    <3>2. nextBlock > to
      BY <1>2, <1>4, <1>5, <3>1
    <3>3. QED
      BY <1>1, <1>2, <3>2
  <2>4. QED
    BY <2>2, <2>3
<1>8. /\ Pushed' = Pushed \cup {n} /\ n \notin Pushed
  <2>1. \A k : k \in Pushed <=>
          k \in from..to /\ k < nextBlock /\ \A v \in Workers : fetching[v] # k
    BY DEF Pushed, from, to
  <2>2. \A k : k \in Pushed' <=>
          k \in from..to /\ k < nextBlock + 1 /\ \A v \in Workers : fetching'[v] # k
    BY <1>1 DEF Pushed, from, to, Workers
  <2>3. n \notin Pushed
    BY <2>1 DEF n
  <2>4. n \in Pushed'
    <3>1. \A v \in Workers : fetching'[v] # n
      <4>1. fetching'[w] # n
        BY <1>2, <1>3, <1>5, <1>1
      <4>2. \A v \in Workers \ {w} : fetching[v] # n
        BY <1>1, <1>4 DEF n
      <4>3. QED
        BY <1>3, <4>1, <4>2
    <3>2. QED
      BY <1>2, <1>5, <2>2, <3>1
  <2>5. ASSUME NEW k \in Pushed PROVE k \in Pushed'
    <3>1. k \in from..to /\ k < nextBlock /\ \A v \in Workers : fetching[v] # k
      BY <2>1
    <3>2. fetching'[w] # k
      BY <1>2, <1>3, <3>1
    <3>3. \A v \in Workers : fetching'[v] # k
      BY <1>3, <3>1, <3>2
    <3>4. QED
      BY <1>2, <2>2, <3>1, <3>3
  <2>6. ASSUME NEW k \in Pushed', k # n PROVE k \in Pushed
    <3>1. k \in from..to /\ k < nextBlock + 1 /\ \A v \in Workers : fetching'[v] # k
      BY <2>2
    <3>2. k # nextBlock
      BY <1>2, <1>3, <3>1
    <3>3. \A v \in Workers : fetching[v] # k
      BY <1>3, <2>6, <3>1 DEF n
    <3>4. QED
      BY <1>2, <2>1, <3>1, <3>2, <3>3
  <2>7. QED
    BY <2>3, <2>4, <2>5, <2>6
<1>9. SameBlocks(list', chain, Pushed')
  <2> DEFINE m == Len(list)
             s == list'
  <2>1. list \in Seq(RemarkLike) /\ new \in Seq(RemarkLike) /\ chain \in Seq(RemarkLike)
    BY BlocksAreRemarks, ChainTypes DEF TypeOK, new
  <2>2. /\ m \in Nat /\ Len(new) \in Nat /\ DOMAIN list = 1..m /\ DOMAIN new = 1..Len(new)
        /\ DOMAIN s = 1..(m + Len(new))
        /\ \A i \in DOMAIN list : s[i] = list[i]
        /\ \A i \in DOMAIN new : s[m + i] = new[i]
    BY <1>1, <2>1
  <2>3. \A i \in DOMAIN new : new[i].block = n
    <3> DEFINE at == At(chain, n)
    <3>1. new = Pick(chain, at)
      BY RemarksAt DEF new
    <3>2. at \in SUBSET (1..Len(chain)) /\ Len(chain) \in Nat
      BY <2>1 DEF At
    <3>3. \A i \in 1..Cardinality(at) : Nth(at, i) \in at
      BY <3>2, RankNth
    <3>4. DOMAIN new = 1..Cardinality(at) /\ \A i \in DOMAIN new : new[i] = chain[Nth(at, i)]
      BY <3>1 DEF Pick
    <3>5. QED
      BY <3>3, <3>4 DEF At
  <2>4. \A i \in DOMAIN s : i \in DOMAIN list \/ (i - m \in DOMAIN new /\ i = m + (i - m))
    BY <2>2
  <2>5. \A i \in DOMAIN list : i \in DOMAIN s
    BY <2>2
  <2>6. \A i \in DOMAIN list : list[i].block \in Pushed
    BY <1>4 DEF SameBlocks
  <2>7. \A i \in DOMAIN s : s[i].block \in Pushed'
    BY <1>8, <2>2, <2>3, <2>4, <2>6
  <2>8. ASSUME NEW k \in Pushed PROVE Pick(s, At(s, k)) = Pick(chain, At(chain, k))
    <3>1. k # n
      BY <1>8
    <3>2. At(s, k) = At(list, k)
      BY <2>2, <2>3, <2>4, <2>5, <3>1 DEF At
    <3>3. At(list, k) \in SUBSET DOMAIN list
      BY DEF At
    <3>4. Pick(s, At(list, k)) = Pick(list, At(list, k))
      BY <1>1, <2>1, <3>3, PickFront
    <3>5. QED
      BY <1>4, <3>2, <3>4 DEF SameBlocks
  <2>9. Pick(s, At(s, n)) = Pick(chain, At(chain, n))
    <3>1. At(s, n) = (m + 1)..(m + Len(new))
      <4>1. ASSUME NEW i \in At(s, n) PROVE i \in (m + 1)..(m + Len(new))
        <5>1. i \in DOMAIN s /\ s[i].block = n
          BY DEF At
        <5>2. i \notin DOMAIN list
          BY <1>8, <2>2, <2>6, <5>1
        <5>3. QED
          BY <2>2, <5>1, <5>2
      <4>2. ASSUME NEW i \in (m + 1)..(m + Len(new)) PROVE i \in At(s, n)
        <5>1. i - m \in DOMAIN new /\ i = m + (i - m) /\ i \in DOMAIN s
          BY <2>2
        <5>2. QED
          BY <2>2, <2>3, <5>1 DEF At
      <4>3. QED
        BY <4>1, <4>2
    <3>2. Pick(s, (m + 1)..(m + Len(new))) = new
      BY <1>1, <2>1, PickBack
    <3>3. QED
      BY <3>1, <3>2, RemarksAt DEF new
  <2>10. QED
    BY <1>8, <2>7, <2>8, <2>9 DEF SameBlocks
<1>10. /\ from = opts'.from /\ c = opts'.concurrency /\ to = toBlock'
  BY <1>1 DEF from, c, to
<1>11. /\ \A i \in DOMAIN list' : list'[i].block \in Pushed'
       /\ \A k \in Pushed' :
            Pick(list', {i \in DOMAIN list' : list'[i].block = k}) = RemarksOf(k)'
  BY <1>1, <1>9 DEF SameBlocks, At, RemarksOf
<1>12. QED
  BY <1>1, <1>5, <1>6, <1>7, <1>10, <1>11 DEF ScanKeepsBlocks, Workers

LEMMA ScanStep ==
  TypeOK /\ AuditTypeOK /\ AuditTypeOK' /\ CommandsKeepOrder /\ ScanKeepsBlocks
    /\ [AuditNext]_auditVars => ScanKeepsBlocks'
<1> SUFFICES ASSUME TypeOK, AuditTypeOK, AuditTypeOK', CommandsKeepOrder, ScanKeepsBlocks,
                    [AuditNext]_auditVars, scan' = "scanning", exit' = NoExit
             PROVE  ScanKeepsBlocks'
  BY DEF ScanKeepsBlocks
<1>1. CASE /\ UNCHANGED <<opts, chain, scan, toBlock, nextBlock, fetching, exit>>
           /\ list' = list
  BY <1>1 DEF ScanKeepsBlocks, Pushed, RemarksOf, Workers
<1>2. CASE UNCHANGED audit
  <2>1. scan = "scanning"
    BY <1>2 DEF audit
  <2>2. caller # "screen"
    BY <2>1 DEF CommandsKeepOrder
  <2>3. list' = list
    BY <1>2, <2>1, <2>2 DEF AuditNext, auditVars, vars, input, MayCollect, Begin, Skip, RejectClear,
       RejectVote, CountClear, CountVote, DropRepeated, Return, Visit, Mine, ConnectFails,
       Connect, Fetch, FetchFails, ScanEnds, Check, Report, Throw, audit, NoExit, AuditTypeOK
  <2>4. QED
    BY <1>1, <1>2, <2>3 DEF audit, input2
<1>3. CASE Mine
  BY <1>1, <1>3 DEF Mine, vars, input, input2
<1>4. CASE Connect
  BY <1>4, ScanConnects
<1>5. CASE \E w \in Workers : Fetch(w)
  BY <1>5, ScanFetches
<1>6. CASE ConnectFails \/ (\E w \in Workers : FetchFails(w)) \/ ScanEnds \/ Check \/ Report
  BY <1>6 DEF ConnectFails, FetchFails, ScanEnds, Check, Report, Throw, NoExit
<1>7. QED
  BY <1>2, <1>3, <1>4, <1>5, <1>6 DEF AuditNext, auditVars

LEMMA ScanInit == AuditInit => ScanKeepsBlocks
BY DEF AuditInit, ScanKeepsBlocks

-----------------------------------------------------------------------------
(* The commands.                                                            *)

\* When every worker has left, every block of the window is in the list.
LEMMA ScanGathers ==
  ASSUME TypeOK, AuditTypeOK, ScanKeepsBlocks, ScanEnds
  PROVE  list' = IF opts.concurrency = 0 THEN <<>> ELSE Window
<1>1. /\ scan = "scanning" /\ exit = NoExit /\ list' = SortByBlock(list)
      /\ \A w \in Workers : fetching[w] = NoBlock
  BY DEF ScanEnds
<1>2. /\ opts.from \in Nat /\ opts.concurrency \in Nat /\ opts.concurrency <= MaxWorkers
      /\ toBlock \in Int /\ nextBlock \in Nat /\ NoBlock \in Int /\ NoBlock < 0
  BY ScanTypes
<1>3. /\ opts.concurrency = 0 => nextBlock = opts.from
      /\ opts.concurrency > 0 /\ (\E w \in 1..(opts.concurrency) : fetching[w] = NoBlock)
           => nextBlock > toBlock
      /\ SameBlocks(list, chain, Pushed)
  BY <1>1, ScanKeepsAt
<1>4. list \in Seq(RemarkLike) /\ chain \in Seq(RemarkLike) /\ InOrder(chain)
  BY ChainTypes DEF TypeOK, InOrder
<1>5. CASE opts.concurrency = 0
  <2>1. Pushed = {}
    BY <1>2, <1>3, <1>5 DEF Pushed
  <2>2. DOMAIN list = {}
    BY <1>3, <2>1 DEF SameBlocks
  <2>3. SortByBlock(list) \in Seq(RemarkLike) /\ Len(SortByBlock(list)) = Len(list)
    BY <1>4, Sorting
  <2>4. Len(list) = 0
    BY <1>4, <2>2
  <2>5. QED
    BY <1>1, <1>5, <2>3, <2>4
<1>6. CASE opts.concurrency # 0
  <2>1. 1 \in 1..(opts.concurrency) /\ 1 \in Workers
    BY <1>2, <1>6, AuditAssumption DEF Workers
  <2>2. nextBlock > toBlock
    BY <1>1, <1>2, <1>3, <2>1
  <2>3. \A n \in (opts.from)..toBlock : \A w \in Workers : fetching[w] # n
    BY <1>1, <1>2
  <2>4. Pushed = (opts.from)..toBlock
    BY <1>2, <2>2, <2>3 DEF Pushed
  <2>5. SortByBlock(list) = Pick(chain, {k \in DOMAIN chain : chain[k].block \in Pushed})
    BY <1>3, <1>4, SortGathers
  <2>6. QED
    BY <1>1, <1>6, <2>4, <2>5 DEF Window
<1>7. QED
  BY <1>5, <1>6

LEMMA OrderWalks ==
  ASSUME TypeOK, AuditTypeOK, CommandsKeepOrder, [AuditNext]_auditVars, UNCHANGED audit
  PROVE  CommandsKeepOrder'
<1>1. /\ UNCHANGED <<caller, opts, chain, head, scan, toBlock, nextBlock, fetching, checked, exit>>
      /\ Window' = Window /\ (Reported' <=> Reported)
  BY DEF audit, input2, Window, Reported
<1>2. CASE UNCHANGED <<list, pc, votingStartBlock>>
  BY <1>1, <1>2 DEF CommandsKeepOrder, CheckResult
<1>3. CASE \E r \in Candidates : MayCollect /\ Collect(r)
  <2>1. caller = "screen" /\ pc' = pc /\ votingStartBlock' = votingStartBlock
    BY <1>3 DEF MayCollect, Collect
  <2>2. QED
    BY <1>1, <2>1 DEF CommandsKeepOrder
<1>4. CASE MayTally /\ Begin
  <2>1. /\ caller = "screen" \/ (caller = "verify" /\ scan = "scanned")
        /\ pc = "collect" /\ list' = list
    BY <1>4 DEF MayTally, Begin
  <2>2. caller = "verify" => ~Reported /\ exit # 0
    BY <2>1 DEF CommandsKeepOrder, Reported
  <2>3. QED
    BY <1>1, <2>1, <2>2 DEF CommandsKeepOrder
<1>5. CASE Walks
  <2>1. pc = "walk" /\ list' = list /\ votingStartBlock' = votingStartBlock
    BY <1>5 DEF Walks, Skip, RejectClear, RejectVote, CountClear, CountVote,
       DropRepeated, Return, Visit, input
  <2>2. caller = "screen" \/ (caller = "verify" /\ scan = "scanned")
    BY <2>1 DEF CommandsKeepOrder
  <2>3. caller = "verify" => ~Reported
    BY <2>1 DEF CommandsKeepOrder
  <2>4. QED
    BY <1>1, <2>1, <2>2, <2>3 DEF CommandsKeepOrder
<1>6. CASE Mine \/ ConnectFails \/ Connect \/ (\E w \in Workers : Fetch(w) \/ FetchFails(w))
           \/ ScanEnds \/ Check \/ Report
  <2>1. UNCHANGED vars
    BY <1>1, <1>6 DEF Mine, ConnectFails, Connect, Fetch, FetchFails, ScanEnds, Check,
       Report, Throw, AuditTypeOK, NoExit
  <2>2. QED
    BY <1>2, <2>1 DEF vars, input
<1>7. QED
  BY <1>2, <1>3, <1>4, <1>5, <1>6 DEF AuditNext, auditVars, vars, input, Walks

LEMMA OrderStep ==
  TypeOK /\ AuditTypeOK /\ CommandsKeepOrder /\ ScanKeepsBlocks
    /\ [AuditNext]_auditVars => CommandsKeepOrder'
<1> SUFFICES ASSUME TypeOK, AuditTypeOK, CommandsKeepOrder, ScanKeepsBlocks,
                    [AuditNext]_auditVars
             PROVE  CommandsKeepOrder'
  OBVIOUS
<1>1. CASE UNCHANGED audit
  BY <1>1, OrderWalks
<1>2. CASE Mine
  BY <1>2 DEF Mine, vars, input, input2, CommandsKeepOrder, Window, Reported, CheckResult
<1>3. CASE \/ ConnectFails \/ Connect
           \/ \E w \in Workers : FetchFails(w)
  <2>1. /\ caller # "screen" /\ UNCHANGED <<vars, caller, opts, chain>> /\ exit' \in {NoExit, 2}
        /\ scan # "scanned" /\ scan' # "scanned" /\ (scan' = "idle" => scan = "idle")
    BY <1>3 DEF ConnectFails, Connect, FetchFails, Throw, input2, CommandsKeepOrder
  <2>2. ~Reported' /\ exit' # 0
    BY <2>1 DEF Reported, NoExit
  <2>3. QED
    BY <2>1, <2>2 DEF vars, input, CommandsKeepOrder
<1>4. CASE \E w \in Workers : Fetch(w)
  <2>1. /\ caller # "screen" /\ scan' = "scanning" /\ UNCHANGED <<caller, pc, exit>>
        /\ pc = "collect" /\ exit = NoExit
    BY <1>4 DEF Fetch, input2, CommandsKeepOrder
  <2>2. QED
    BY <2>1 DEF CommandsKeepOrder, Reported, NoExit
<1>5. CASE ScanEnds
  <2>1. /\ caller # "screen" /\ scan' = "scanned" /\ UNCHANGED <<caller, opts, chain, toBlock, pc, exit>>
        /\ pc = "collect" /\ exit = NoExit
    BY <1>5 DEF ScanEnds, input2, CommandsKeepOrder
  <2>2. list' = (IF opts.concurrency = 0 THEN <<>> ELSE Window) /\ Window' = Window
    BY <1>5, <2>1, ScanGathers DEF Window
  <2>3. QED
    BY <2>1, <2>2 DEF CommandsKeepOrder, Reported, NoExit
<1>6. CASE Check
  <2>1. /\ caller = "check" /\ scan = "scanned" /\ checked' = CheckResult
        /\ exit' = (IF checked'.inRing THEN 0 ELSE 1)
        /\ UNCHANGED <<vars, caller, opts, chain, scan, toBlock>>
    BY <1>6 DEF Check, input2
  <2>2. CheckResult' = CheckResult /\ Window' = Window /\ UNCHANGED <<list, pc>>
    BY <2>1 DEF CheckResult, Window, vars, input
  <2>3. QED
    BY <2>1, <2>2 DEF CommandsKeepOrder, Reported
<1>7. CASE Report
  <2>1. /\ caller = "verify" /\ pc = "done" /\ UNCHANGED <<vars, caller, opts, chain, scan, toBlock>>
        /\ exit' = 0 => votingStartBlock # NoBlock
    BY <1>7 DEF Report, input2
  <2>2. Window' = Window /\ UNCHANGED <<list, pc, votingStartBlock>>
    BY <2>1 DEF Window, vars, input
  <2>3. QED
    BY <2>1, <2>2 DEF CommandsKeepOrder, Reported
<1>8. QED
  BY <1>1, <1>2, <1>3, <1>4, <1>5, <1>6, <1>7 DEF AuditNext, auditVars

LEMMA OrderInit == AuditInit => CommandsKeepOrder
BY DEF AuditInit, Init, CommandsKeepOrder, Reported, NoExit

\* The inductive invariant: the types, the tally's books, the walk's account
\* of itself, the scan's account of the list, and which command runs what when.
THEOREM AuditIsSafe == AuditSpec => []IInv
<1>1. AuditInit => IInv
  BY TypesInit, BooksInit, WalkInit, ScanInit, OrderInit DEF IInv
<1>2. IInv /\ [AuditNext]_auditVars => IInv'
  <2> SUFFICES ASSUME IInv, [AuditNext]_auditVars PROVE IInv'
    OBVIOUS
  <2>1. TypeOK /\ AuditTypeOK /\ BooksBalance /\ WalkIsRight /\ ScanKeepsBlocks /\ CommandsKeepOrder
    BY DEF IInv
  <2>2. TypeOK' /\ AuditTypeOK'
    BY <2>1, TypesStep
  <2>3. BooksBalance'
    BY <2>1, <2>2, BooksStep
  <2>4. WalkIsRight'
    BY <2>1, WalkStep
  <2>5. ScanKeepsBlocks'
    BY <2>1, <2>2, ScanStep
  <2>6. CommandsKeepOrder'
    BY <2>1, OrderStep
  <2>7. QED
    BY <2>2, <2>3, <2>4, <2>5, <2>6 DEF IInv
<1>3. QED
  BY <1>1, <1>2, PTL DEF AuditSpec

-----------------------------------------------------------------------------
(* What the invariant says of the results.                                  *)

\* At every step of the walk every counted ballot is in one list and one
\* bucket, and every rejection has its reason.
THEOREM AuditKeepsBooks == AuditSpec => []BooksBalance
<1>1. IInv => BooksBalance
  BY DEF IInv
<1>2. QED
  BY <1>1, AuditIsSafe, PTL

LEMMA RingFree == IInv => RingIsOrderFree
<1> SUFFICES ASSUME IInv, pc # "collect"
             PROVE  /\ votingStartBlock = FindVotingStartBlock(Range(list))
                    /\ announcedSigners = AnnouncedSigners(Range(list))
                    /\ \A r \in Range(list) :
                         RingOfList(list, r.block, votingStartBlock) = RingAt(Range(list), r.block)
  BY DEF RingIsOrderFree
<1>1. list \in Seq(RemarkLike)
  BY DEF IInv, TypeOK
<1>2. votingStartBlock = FindVotingStartBlock(Range(list))
  BY <1>1, EarliestIsStart DEF IInv, WalkIsRight
<1>3. announcedSigners = AnnouncedSigners(Range(list))
  BY <1>1, <1>2, SignersAreAnnounced DEF IInv, WalkIsRight
<1>4. QED
  BY <1>1, <1>2, <1>3, RingOfListIsRingAt

\* findVotingStartBlock, announcedSigners and computeRingAt depend on the set
\* of remarks collected, not on their order or multiplicity.
THEOREM AuditRingIsOrderFree == AuditSpec => []RingIsOrderFree
BY RingFree, AuditIsSafe, PTL

\* At the end of the walk every position is behind it.
LEMMA AllDone ==
  ASSUME IInv, pc = "done"
  PROVE  /\ accepted = Pick(sorted, {i \in Counted(Range(list), sorted) : sorted[i].kind = "vote"})
         /\ acceptedClear
              = Pick(sorted, {i \in Counted(Range(list), sorted) : sorted[i].kind = "clear"})
         /\ Len(invalidReasons) = Cardinality(Invalid(Range(list), sorted))
<1>1. sorted \in Seq(RemarkLike) /\ next = Len(sorted) + 1
  BY DEF IInv, TypeOK, WalkIsRight
<1>2. \A i \in DOMAIN sorted : i < next
  BY <1>1
<1>3. /\ \A kind : CountedBefore(kind)
                     = {i \in Counted(Range(list), sorted) : sorted[i].kind = kind}
      /\ InvalidBefore = Invalid(Range(list), sorted)
  BY <1>2 DEF CountedBefore, InvalidBefore, Counted, Invalid
<1>4. QED
  BY <1>3 DEF IInv, WalkIsRight

LEMMA FirstValid == IInv => WalkCountsFirstValid
<1> SUFFICES ASSUME IInv, pc = "done" PROVE WalkCountsFirstValid
  BY DEF WalkCountsFirstValid
<1>1. list \in Seq(RemarkLike) /\ sorted = SortByBlock(list)
  BY DEF IInv, TypeOK, WalkIsRight
<1>2. /\ Range(sorted) = Range(list)
      /\ \A j \in DOMAIN sorted : \A i \in 1..j : sorted[i].block <= sorted[j].block
  BY <1>1, Sorting
<1>3. QED
  BY <1>2, AllDone DEF WalkCountsFirstValid

\* tallyRemarks counts, in block order, the first valid ballot of each key
\* image and each clear voter, each judged by the ring at its own block.
THEOREM AuditCountsFirstValid == AuditSpec => []WalkCountsFirstValid
BY FirstValid, AuditIsSafe, PTL

\* Of an empty list there is no start remark and no ring.
LEMMA NothingCollected == EarliestStart(<<>>) = NoBlock /\ RingOf(<<>>, NoBlock) = {}
<1>1. <<>> \in Seq(RemarkLike) /\ Len(<<>>) = 0 /\ 1..0 = {}
  OBVIOUS
<1>2. EarliestInv(<<>>, 0, EarliestStart(<<>>))
  BY <1>1, EarliestIsFirst
<1>3. EarliestStart(<<>>) = NoBlock
  BY <1>1, <1>2 DEF EarliestInv
<1>4. RingOf(<<>>, NoBlock) = ReconstructRing(Range(<<>>), NoBlock)
  BY <1>1, RingOfIsReconstructed
<1>5. Range(<<>>) = {}
  BY DEF Range
<1>6. ReconstructRing({}, NoBlock) = {}
  BY DEF ReconstructRing, EligibleAnnounces
<1>7. QED
  BY <1>3, <1>4, <1>5, <1>6

LEMMA Complete == IInv => ReportIsComplete
<1> SUFFICES ASSUME IInv, Reported, exit = 0 \/ opts.concurrency > 0 PROVE list = Window
  BY DEF ReportIsComplete
<1>1. scan = "scanned" /\ caller # "screen"
  BY DEF IInv, CommandsKeepOrder
<1>2. list = IF opts.concurrency = 0 THEN <<>> ELSE Window
  BY <1>1 DEF IInv, CommandsKeepOrder
<1>3. opts.concurrency \in Nat
  BY ScanTypes DEF IInv
<1>4. CASE opts.concurrency # 0
  BY <1>2, <1>4
<1>5. CASE opts.concurrency = 0
  <2>1. list = <<>> /\ exit = 0
    BY <1>2, <1>3, <1>5
  <2>2. CASE caller = "verify"
    <3>1. pc = "done" /\ votingStartBlock # NoBlock
      BY <2>1, <2>2 DEF IInv, CommandsKeepOrder
    <3>2. votingStartBlock = EarliestStart(list)
      BY <3>1 DEF IInv, WalkIsRight
    <3>3. QED
      BY <2>1, <3>1, <3>2, NothingCollected
  <2>3. CASE caller = "check"
    <3>1. checked = CheckResult /\ checked.inRing
      BY <2>1, <2>3 DEF IInv, CommandsKeepOrder
    <3>2. LatestAnnounce(list, opts.address).vk \in RingOf(list, NoBlock)
      BY <3>1 DEF CheckResult
    <3>3. QED
      BY <2>1, <3>2, NothingCollected
  <2>4. QED
    BY <1>1, <2>2, <2>3 DEF IInv, AuditTypeOK
<1>6. QED
  BY <1>4, <1>5

\* A verify or check that prints a report has scanned the whole window, each
\* block once, for any number of workers and blocks.
THEOREM AuditReportIsComplete == AuditSpec => []ReportIsComplete
BY Complete, AuditIsSafe, PTL

\* A voter of the allowlist whose key at k is his last one, and his only one
\* in that block, has it in the ring.
LEMMA LastKeyIsInRing ==
  ASSUME NEW rs \in Seq(RemarkLike), NEW k \in DOMAIN rs,
         IsMine(rs[k], rs[k].signer), rs[k].signer \in AllowedRealAddresses,
         \A j \in DOMAIN rs : IsMine(rs[j], rs[k].signer) =>
           /\ rs[j].block <= rs[k].block
           /\ rs[j].block = rs[k].block => rs[j].vk = rs[k].vk
  PROVE  rs[k].vk \in ReconstructRing(Range(rs), NoBlock)
<1> DEFINE ann == EligibleAnnounces(Range(rs), NoBlock)
<1>1. \A r : r \in ann => \E j \in DOMAIN rs : r = rs[j] /\ IsMine(r, r.signer)
  BY DEF Range, EligibleAnnounces, IsMine
<1>2. rs[k] \in ann
  BY DEF Range, EligibleAnnounces, IsMine
<1>3. ASSUME NEW c \in ann, c.signer = rs[k].signer PROVE ~Newer(c, rs[k])
  <2>1. PICK j \in DOMAIN rs : c = rs[j] /\ IsMine(rs[j], rs[k].signer)
    BY <1>1, <1>3
  <2>2. /\ rs[j].block \in Nat /\ rs[j].vk \in Nat
        /\ rs[k].block \in Nat /\ rs[k].vk \in Nat
    BY <2>1, RemarkTypes, AnnounceTypes DEF IsMine
  <2>3. QED
    BY <2>1, <2>2 DEF Newer
<1> HIDE DEF ann
<1>4. QED
  BY <1>2, <1>3 DEF ReconstructRing, ann

LEMMA FindsTheLatest == IInv => CheckFindsTheLatest
<1> SUFFICES ASSUME IInv, caller = "check", Reported, opts.concurrency > 0
             PROVE  CheckFindsTheLatest
  BY DEF CheckFindsTheLatest
<1> DEFINE a == opts.address
           last == LatestAnnounce(Window, a)
<1>1. list = Window
  BY Complete DEF ReportIsComplete
<1>2. checked = CheckResult /\ (exit = 0 <=> checked.inRing)
  BY DEF IInv, CommandsKeepOrder
<1>3. Window \in Seq(RemarkLike)
  BY <1>1 DEF IInv, TypeOK
<1>4. /\ checked.found = (last.vk # NoBlock) /\ checked.block = last.block
      /\ checked.vk = last.vk /\ checked.inRing = (last.vk \in RingOf(Window, NoBlock))
  BY <1>1, <1>2 DEF CheckResult
<1>5. exit = 0 <=> checked.vk \in ReconstructRing(Range(Window), NoBlock)
  BY <1>2, <1>3, <1>4, RingOfIsReconstructed
<1>6. LastInv(<<Window, a>>, Len(Window), last)
  BY <1>3, LatestIsLast
<1>7. \A k \in DOMAIN Window : k \in MyAnnounces <=> IsMine(Window[k], a)
  BY DEF MyAnnounces, IsMine
<1>8. DOMAIN Window = 1..Len(Window) /\ MyAnnounces \subseteq DOMAIN Window
  BY <1>3 DEF MyAnnounces
<1>9. \A k \in MyAnnounces : Window[k].vk \in Nat /\ Window[k].block \in Nat
  BY <1>3, <1>7, <1>8, RemarkTypes, AnnounceTypes DEF IsMine
<1>10. NoBlock \notin Nat
  BY DEF NoBlock
<1> HIDE DEF last
<1>11. CASE last = NoAnnounce /\ \A i \in 1..Len(Window) : ~IsMine(Window[i], a)
  <2>1. MyAnnounces = {} /\ last.vk = NoBlock
    BY <1>7, <1>8, <1>11 DEF NoAnnounce
  <2>2. QED
    BY <1>4, <1>5, <2>1 DEF CheckFindsTheLatest
<1>12. CASE \E i \in 1..Len(Window) :
              /\ FirstOfLatest(<<Window, a>>, Len(Window), i)
              /\ last = [block |-> Window[i].block, vk |-> Window[i].vk]
  <2>1. PICK k \in 1..Len(Window) : /\ FirstOfLatest(<<Window, a>>, Len(Window), k)
                                    /\ last = [block |-> Window[k].block, vk |-> Window[k].vk]
    BY <1>12
  <2>2. ShownAt(k)
    BY <1>7, <1>8, <2>1 DEF FirstOfLatest, ShownAt
  <2>3. k \in MyAnnounces /\ MyAnnounces # {} /\ checked.found
        /\ checked.block = Window[k].block /\ checked.vk = Window[k].vk
    BY <1>4, <1>9, <1>10, <2>1, <2>2 DEF ShownAt
  <2>4. ASSUME a \in AllowedRealAddresses,
               \A j \in MyAnnounces : Window[j].block = Window[k].block
                                        => Window[j].vk = Window[k].vk
        PROVE  exit = 0
    <3>1. IsMine(Window[k], a) /\ Window[k].signer = a
      BY <1>7, <1>8, <2>3 DEF IsMine
    <3>2. ASSUME NEW j \in DOMAIN Window, IsMine(Window[j], a)
          PROVE  /\ Window[j].block <= Window[k].block
                 /\ Window[j].block = Window[k].block => Window[j].vk = Window[k].vk
      <4>1. j \in MyAnnounces
        BY <1>7, <3>2
      <4>2. QED
        BY <1>9, <2>2, <2>3, <2>4, <4>1 DEF ShownAt
    <3>3. Window[k].vk \in ReconstructRing(Range(Window), NoBlock)
      BY <1>3, <1>8, <2>4, <3>1, <3>2, LastKeyIsInRing
    <3>4. QED
      BY <1>5, <2>3, <3>3
  <2>5. QED
    BY <1>5, <1>8, <2>2, <2>3, <2>4 DEF CheckFindsTheLatest
<1>13. QED
  BY <1>6, <1>11, <1>12 DEF LastInv

\* check-registration says "not found" exactly when there is no announce, shows
\* the first announce of the last block otherwise, and tells every allowlisted
\* voter without a same-block tie that he is in the ring.
THEOREM AuditFindsTheLatest == AuditSpec => []CheckFindsTheLatest
BY FindsTheLatest, AuditIsSafe, PTL

\* What is picked of a sequence in block order is in block order.
LEMMA PickInOrder ==
  ASSUME NEW s \in Seq(RemarkLike), InOrder(s), NEW at \in SUBSET DOMAIN s
  PROVE  InOrder(Pick(s, at))
<1>1. DOMAIN s = 1..Len(s) /\ Len(s) \in Nat /\ at \in SUBSET (1..Len(s))
  OBVIOUS
<1>2. Cardinality(at) \in Nat
  BY <1>1, RankNth
<1>3. \A m \in 1..Cardinality(at) : Nth(at, m) \in at /\ Rank(at, Nth(at, m)) = m
  BY <1>1, RankNth
<1>4. \A j, k \in at : j < k => Rank(at, j) < Rank(at, k)
  BY <1>1, RankNth
<1>5. DOMAIN Pick(s, at) = 1..Cardinality(at)
      /\ \A m \in 1..Cardinality(at) : Pick(s, at)[m] = s[Nth(at, m)]
  BY DEF Pick
<1>6. ASSUME NEW n \in 1..Cardinality(at), NEW m \in 1..n
      PROVE  s[Nth(at, m)].block <= s[Nth(at, n)].block
  <2>1. m \in 1..Cardinality(at) /\ m <= n
    BY <1>2
  <2>2. Nth(at, m) \in at /\ Nth(at, n) \in at
    BY <1>3, <2>1
  <2>3. ~(Nth(at, n) < Nth(at, m))
    BY <1>3, <1>4, <2>1, <2>2
  <2>4. Nth(at, m) \in 1..Nth(at, n) /\ Nth(at, n) \in DOMAIN s
    BY <1>1, <2>2, <2>3
  <2>5. QED
    BY <2>4 DEF InOrder
<1>7. \A n \in 1..Cardinality(at) : \A m \in 1..n : m \in 1..Cardinality(at)
  BY <1>2
<1>8. QED
  BY <1>5, <1>6, <1>7 DEF InOrder

LEMMA PickVotes ==
  ASSUME NEW S, NEW s \in Seq(S), NEW at \in SUBSET DOMAIN s, NEW c
  PROVE  Votes(Pick(s, at), c) = Cardinality({i \in at : s[i].c = c})
<1> DEFINE P == {m \in 1..Cardinality(at) : s[Nth(at, m)].c = c}
           Q == {i \in at : s[i].c = c}
           f == [m \in P |-> Nth(at, m)]
<1>1. Len(s) \in Nat /\ at \in SUBSET (1..Len(s))
  OBVIOUS
<1>2. /\ Cardinality(at) \in Nat
      /\ \A k \in at : Rank(at, k) \in 1..Cardinality(at) /\ Nth(at, Rank(at, k)) = k
      /\ \A m \in 1..Cardinality(at) : Nth(at, m) \in at /\ Rank(at, Nth(at, m)) = m
  BY <1>1, RankNth
<1>3. f \in [P -> Q]
  BY <1>2
<1>4. \A m, n \in P : f[m] = f[n] => m = n
  BY <1>2
<1>5. \A k \in Q : \E m \in P : f[m] = k
  <2>1. \A k \in Q : Rank(at, k) \in P
    BY <1>2
  <2>2. QED
    BY <1>2, <2>1
<1>6. IsFiniteSet(P)
  <2>1. P \in SUBSET (1..Cardinality(at))
    OBVIOUS
  <2>2. QED
    BY <1>2, <2>1, RankNth
<1>7. Votes(Pick(s, at), c) = Cardinality(P)
  <2>1. {m \in DOMAIN Pick(s, at) : Pick(s, at)[m].c = c} = P
    BY DEF Pick
  <2>2. QED
    BY <2>1 DEF Votes
<1>8. Cardinality(P) = Cardinality(Q)
  <2> HIDE DEF f, P, Q
  <2>1. f \in Bijection(P, Q)
    BY <1>3, <1>4, <1>5 DEF Bijection, Injection, Surjection, IsInjective
  <2>2. QED
    BY <1>6, <2>1, FS_Bijection DEF ExistsBijection
<1>9. QED
  BY <1>7, <1>8

\* A set of positions counted in two parts.
LEMMA TwoParts ==
  ASSUME NEW n \in Nat, NEW A \in SUBSET (1..n), NEW B \in SUBSET (1..n), A \cap B = {}
  PROVE  Cardinality(A) + Cardinality(B) = Cardinality(A \cup B)
<1>1. /\ IsFiniteSet(A) /\ Cardinality(A) \in Nat
      /\ IsFiniteSet(B) /\ Cardinality(B) \in Nat
  BY RankNth
<1>2. Cardinality(A \cup B) = Cardinality(A) + Cardinality(B) - Cardinality(A \cap B)
  BY <1>1, FS_Union
<1>3. Cardinality(A \cap B) = 0
  BY FS_EmptySet
<1>4. QED
  BY <1>1, <1>2, <1>3

\* The tally when verify reports, in Ring's words.
CountOf(R, s) ==
  [x \in VoteChoices \cup {"invalid", "totalVoted"} |->
     IF x = "totalVoted" THEN Cardinality(Counted(R, s))
     ELSE IF x = "invalid" THEN Cardinality(Invalid(R, s))
     ELSE Cardinality({i \in Counted(R, s) : s[i].c = x})]

LEMMA TallyIsCount ==
  ASSUME IInv, pc = "done" PROVE tally = CountOf(Range(list), sorted)
<1> DEFINE counted == Counted(Range(list), sorted)
           votes == {i \in counted : sorted[i].kind = "vote"}
           clears == {i \in counted : sorted[i].kind = "clear"}
<1>1. /\ sorted \in Seq(RemarkLike) /\ Len(sorted) \in Nat /\ DOMAIN sorted = 1..Len(sorted)
      /\ tally \in [Kinds -> Nat]
  BY DEF IInv, TypeOK, Kinds
<1>2. /\ tally["totalVoted"] = Len(accepted) + Len(acceptedClear)
      /\ \A c \in VoteChoices : tally[c] = Votes(accepted, c) + Votes(acceptedClear, c)
      /\ tally["invalid"] = Len(invalidReasons)
  BY BooksInVotes DEF IInv
<1>3. /\ accepted = Pick(sorted, votes) /\ acceptedClear = Pick(sorted, clears)
      /\ Len(invalidReasons) = Cardinality(Invalid(Range(list), sorted))
  BY AllDone
<1>4. \A i \in counted : sorted[i].kind = "vote" \/ sorted[i].kind = "clear"
  BY DEF Counted, IsCounted, Valid, IsBallot
<1>5. counted \in SUBSET DOMAIN sorted
  BY DEF Counted
<1> HIDE DEF counted
<1>6. /\ votes \in SUBSET DOMAIN sorted /\ clears \in SUBSET DOMAIN sorted
      /\ votes \cap clears = {} /\ votes \cup clears = counted
  BY <1>4, <1>5
<1>7. tally["totalVoted"] = Cardinality(counted)
  <2> HIDE DEF votes, clears
  <2>1. Len(accepted) = Cardinality(votes) /\ Len(acceptedClear) = Cardinality(clears)
    BY <1>1, <1>3, <1>6, PickTypes
  <2>2. Cardinality(votes) + Cardinality(clears) = Cardinality(votes \cup clears)
    BY <1>1, <1>6, TwoParts
  <2>3. QED
    BY <1>2, <1>6, <2>1, <2>2
<1>8. ASSUME NEW c \in VoteChoices
      PROVE  tally[c] = Cardinality({i \in counted : sorted[i].c = c})
  <2> DEFINE A == {i \in votes : sorted[i].c = c}
             B == {i \in clears : sorted[i].c = c}
  <2>1. /\ A \in SUBSET (1..Len(sorted)) /\ B \in SUBSET (1..Len(sorted)) /\ A \cap B = {}
        /\ A \cup B = {i \in counted : sorted[i].c = c}
    BY <1>1, <1>6
  <2>2. Votes(accepted, c) = Cardinality(A) /\ Votes(acceptedClear, c) = Cardinality(B)
    <3> HIDE DEF votes, clears
    <3>1. QED
      BY <1>1, <1>3, <1>6, PickVotes
  <2> HIDE DEF A, B
  <2>3. Cardinality(A) + Cardinality(B) = Cardinality(A \cup B)
    BY <1>1, <2>1, TwoParts
  <2>4. QED
    BY <1>2, <2>1, <2>2, <2>3
<1>9. \A x \in Kinds : tally[x] = CountOf(Range(list), sorted)[x]
  BY <1>2, <1>3, <1>7, <1>8, TallyLoopAssumption DEF CountOf, Kinds, counted
<1>10. QED
  BY <1>1, <1>9 DEF CountOf, Kinds

LEMMA HashOfChain == IInv => HashIsOfTheChain
<1> SUFFICES ASSUME IInv, caller = "verify", Reported, opts.concurrency > 0
             PROVE  LET R == Range(Window)
                    IN  ResultHash = Printed(opts.from, toBlock, FindVotingStartBlock(R),
                          RingAt(R, toBlock), CountOf(R, Window),
                          Pick(Window, {i \in Counted(R, Window) : Window[i].kind = "vote"}))
  BY DEF HashIsOfTheChain, CountOf
<1>1. list = Window /\ pc = "done"
  BY Complete DEF ReportIsComplete, IInv, CommandsKeepOrder
<1>2. sorted = list
  <2>1. chain \in Seq(RemarkLike) /\ InOrder(chain)
    BY ChainTypes DEF IInv, InOrder
  <2>2. InOrder(list)
    BY <1>1, <2>1, PickInOrder DEF Window
  <2>3. list \in Seq(RemarkLike)
    BY DEF IInv, TypeOK
  <2>4. SortByBlock(list) = list
    BY <2>2, <2>3, SortedStays DEF InOrder
  <2>5. QED
    BY <1>1, <2>4 DEF IInv, WalkIsRight
<1>3. tally = CountOf(Range(list), list)
  BY <1>1, <1>2, TallyIsCount
<1>4. accepted = Pick(list, {i \in Counted(Range(list), list) : list[i].kind = "vote"})
  BY <1>1, <1>2, AllDone
<1>5. votingStartBlock = FindVotingStartBlock(Range(list))
  BY <1>1, RingFree DEF RingIsOrderFree
<1>6. RingOfList(list, toBlock, votingStartBlock) = RingAt(Range(list), toBlock)
  BY <1>5, RingOfListIsRingAt DEF IInv, TypeOK
<1>7. QED
  BY <1>1, <1>3, <1>4, <1>5, <1>6 DEF ResultHash

\* What verify hashes is a function of the chain and the window alone, so two
\* auditors of one chain print one hash.
THEOREM AuditHashIsOfTheChain == AuditSpec => []HashIsOfTheChain
BY HashOfChain, AuditIsSafe, PTL
=============================================================================
