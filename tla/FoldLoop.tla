------------------------------ MODULE FoldLoop -------------------------------
(***************************************************************************)
(* The rule of a for-of loop.  The loops of the protocol code go over a     *)
(* list with an accumulator, and the models write them as FoldLeft; here    *)
(* Step is the body of such a loop, Base what the accumulator starts with,  *)
(* and Inv(p, n, acc) a claim about it after n elements, p standing for     *)
(* the loop's surroundings.  A module that reasons about a loop makes an    *)
(* INSTANCE with its own three operators and cites LoopRule.                *)
(*                                                                         *)
(* FoldLeft is a recursive function over the subsets of 1..Len(s), each     *)
(* step taking the largest position away.  That there is such a function,   *)
(* and what it is, is proved by induction on Len(s); the induction is the   *)
(* library's well-foundedness of < on Nat, for a set of numbers instead of  *)
(* an operator.                                                             *)
(***************************************************************************)
EXTENDS Integers, Sequences, SequencesExt, NaturalsInduction,
        WellFoundedInduction, TLAPS

CONSTANTS
  Step(_, _, _),  \* surroundings, accumulator, element
  Base,
  Inv(_, _, _)    \* surroundings, elements seen, accumulator

Fold(p, s) == FoldLeft(LAMBDA acc, r : Step(p, acc, r), Base, s)

-----------------------------------------------------------------------------
(* Induction over a set of numbers, and the largest of a set of positions.  *)

LEMMA Induct ==
  ASSUME NEW S, 0 \in S, \A n \in Nat : n \in S => n + 1 \in S
  PROVE  \A n \in Nat : n \in S
<1> DEFINE less == {ss \in Nat \X Nat : ss[1] < ss[2]}
           Bad == {n \in Nat : n \notin S}
<1>1. IsWellFoundedOn(less, Nat)
  BY NatLessThanWellFounded DEF OpToRel
<1>2. SUFFICES ASSUME Bad # {} PROVE FALSE
  OBVIOUS
<1>3. PICK m \in Bad : \A y \in Bad : ~(<<y, m>> \in less)
  BY <1>1, <1>2, WFMin
<1>4. m # 0 /\ m \in Nat
  BY <1>3
<1>5. m - 1 \in Nat /\ m - 1 < m /\ (m - 1) + 1 = m
  BY <1>4
<1>6. m - 1 \in S
  BY <1>3, <1>4, <1>5
<1>7. QED
  BY <1>3, <1>5, <1>6

LEMMA MaxTop ==
  ASSUME NEW n \in Nat, NEW t \in SUBSET (1..n), n \in t
  PROVE  Max(t) = n
<1>1. \A y \in t : y \in Int /\ n >= y
  OBVIOUS
<1>2. \A x \in t : (\A y \in t : x >= y) => x = n
  BY <1>1
<1>3. QED
  BY <1>1, <1>2 DEF Max

LEMMA MaxIn ==
  ASSUME NEW n \in Nat, NEW t \in SUBSET (1..n), t # {}
  PROVE  Max(t) \in t
<1> DEFINE Tops(u) == {x \in u : \A y \in u : x >= y}
           Holds == {k \in Nat : \A u \in SUBSET (1..k) : u # {} => Tops(u) # {}}
<1>1. 0 \in Holds
  <2>1. 1..0 = {}
    OBVIOUS
  <2>2. QED
    BY <2>1
<1>2. ASSUME NEW k \in Nat, k \in Holds PROVE k + 1 \in Holds
  <2> SUFFICES ASSUME NEW u \in SUBSET (1..(k + 1)), u # {}
               PROVE  Tops(u) # {}
    OBVIOUS
  <2>1. CASE k + 1 \in u
    BY <2>1
  <2>2. CASE k + 1 \notin u
    <3>1. u \in SUBSET (1..k)
      BY <2>2
    <3>2. QED
      BY <1>2, <3>1
  <2>3. QED
    BY <2>1, <2>2
<1> HIDE DEF Holds
<1>3. n \in Holds
  BY <1>1, <1>2, Induct
<1>4. PICK x \in t : \A y \in t : x >= y
  BY <1>3 DEF Holds
<1>5. QED
  BY <1>4 DEF Max

-----------------------------------------------------------------------------
\* An invariant that holds before the loop and is kept by its body holds of
\* what the loop returns, for a list of any length.
LEMMA LoopRule ==
  ASSUME NEW p, NEW S, NEW s \in Seq(S), Inv(p, 0, Base),
         \A n \in 0..(Len(s) - 1) : \A acc :
           Inv(p, n, acc) => Inv(p, n + 1, Step(p, acc, s[n + 1]))
  PROVE  Inv(p, Len(s), Fold(p, s))
<1> DEFINE N == Len(s)
           Body(f, t) == IF t = {} THEN Base ELSE Step(p, f[t \ {Max(t)}], s[Max(t)])
           IsIter(f, n) == f = [t \in SUBSET (1..n) |-> Body(f, t)]
           Some == {n \in Nat : \E f : IsIter(f, n)}
           iter == CHOOSE f : IsIter(f, N)
           Good == {n \in Nat : n <= N => Inv(p, n, iter[1..n])}
<1>1. 0 \in Some
  <2> DEFINE f == [t \in SUBSET (1..0) |-> Base]
  <2>1. 1..0 = {}
    OBVIOUS
  <2>2. \A t \in SUBSET (1..0) : Body(f, t) = Base
    BY <2>1
  <2>3. IsIter(f, 0)
    BY <2>2
  <2>4. QED
    BY <2>3
<1>2. ASSUME NEW n \in Nat, n \in Some PROVE n + 1 \in Some
  <2>1. PICK f : IsIter(f, n)
    BY <1>2
  <2> HIDE DEF Body
  <2> DEFINE g == [t \in SUBSET (1..(n + 1)) |->
                     IF n + 1 \in t THEN Step(p, f[t \ {n + 1}], s[n + 1]) ELSE f[t]]
  <2>2. ASSUME NEW t \in SUBSET (1..(n + 1)) PROVE g[t] = Body(g, t)
    <3>1. CASE n + 1 \in t
      <4>1. Max(t) = n + 1
        BY <3>1, MaxTop
      <4>2. t \ {n + 1} \in SUBSET (1..(n + 1)) /\ n + 1 \notin t \ {n + 1}
        OBVIOUS
      <4>3. g[t \ {n + 1}] = f[t \ {n + 1}]
        BY <4>2
      <4>4. QED
        BY <3>1, <4>1, <4>3 DEF Body
    <3>2. CASE n + 1 \notin t
      <4>1. t \in SUBSET (1..n)
        BY <3>2
      <4>2. f[t] = Body(f, t)
        BY <2>1, <4>1
      <4>3. CASE t = {}
        BY <3>2, <4>2, <4>3 DEF Body
      <4>4. CASE t # {}
        <5>1. Max(t) \in 1..n
          BY <4>1, <4>4, MaxIn
        <5>2. t \ {Max(t)} \in SUBSET (1..(n + 1)) /\ n + 1 \notin t \ {Max(t)}
          BY <3>2
        <5>3. g[t \ {Max(t)}] = f[t \ {Max(t)}]
          BY <5>2
        <5>4. QED
          BY <3>2, <4>2, <4>4, <5>3 DEF Body
      <4>5. QED
        BY <4>3, <4>4
    <3>3. QED
      BY <3>1, <3>2
  <2> HIDE DEF g
  <2>3. g = [t \in SUBSET (1..(n + 1)) |-> g[t]]
    BY DEF g
  <2>4. IsIter(g, n + 1)
    BY <2>2, <2>3
  <2>5. QED
    BY <2>4
<1>3. N \in Nat /\ N \in Some
  <2> HIDE DEF Some
  <2>1. QED
    BY <1>1, <1>2, Induct
<1>4. IsIter(iter, N)
  BY <1>3
<1>5. Fold(p, s) = iter[1..N]
  <2>1. DOMAIN s = 1..N
    OBVIOUS
  <2>2. QED
    BY <2>1 DEF Fold, FoldLeft, MapThenFoldSet
<1>6. 0 \in Good
  <2> HIDE DEF iter
  <2>1. 1..0 = {} /\ 1..0 \in SUBSET (1..N)
    BY <1>3
  <2>2. iter[1..0] = Base
    BY <1>4, <2>1
  <2>3. QED
    BY <2>2
<1>7. ASSUME NEW n \in Nat, n \in Good PROVE n + 1 \in Good
  <2> HIDE DEF iter
  <2> SUFFICES ASSUME n + 1 <= N PROVE Inv(p, n + 1, iter[1..(n + 1)])
    OBVIOUS
  <2>1. n <= N /\ n \in 0..(N - 1)
    BY <1>3
  <2>2. 1..(n + 1) \in SUBSET (1..N) /\ n + 1 \in 1..(n + 1)
    BY <1>3
  <2>3. Max(1..(n + 1)) = n + 1 /\ (1..(n + 1)) \ {n + 1} = 1..n
    BY <2>2, MaxTop
  <2>4. iter[1..(n + 1)] = Step(p, iter[1..n], s[n + 1])
    BY <1>4, <2>2, <2>3
  <2>5. QED
    BY <1>7, <2>1, <2>4
<1>8. Inv(p, N, iter[1..N])
  <2> HIDE DEF Good, iter
  <2>1. N \in Good
    BY <1>3, <1>6, <1>7, Induct
  <2>2. QED
    BY <1>3, <2>1 DEF Good
<1>9. QED
  BY <1>5, <1>8
=============================================================================
