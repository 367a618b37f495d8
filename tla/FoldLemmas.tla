----------------------------- MODULE FoldLemmas -----------------------------
(***************************************************************************)
(* What the folds of the models compute for every input: induction over    *)
(* numbers and finite sets, as the existence of a least counterexample,    *)
(* and from it sums over a finite set, folds over a sequence, and what Size *)
(* and CutTo of Utf8Text give.                                             *)
(***************************************************************************)
EXTENDS Utf8Text, SequenceTheorems, FiniteSetTheorems, TLAPS

\* A set of numbers has a least element.
LEMMA LeastNumber ==
  ASSUME NEW T, T \subseteq Nat, T # {}
  PROVE  \E x \in T : \A y \in T : x <= y
<1>1. \E R : IsWellFoundedOn(R, Nat) /\ \A x, y \in Nat : y < x => <<y, x>> \in R
  <2>1. IsWellFoundedOn(OpToRel(<, Nat), Nat)
    BY NatLessThanWellFounded
  <2>2. \A x, y \in Nat : y < x => <<y, x>> \in OpToRel(<, Nat)
    BY DEF OpToRel
  <2> WITNESS OpToRel(<, Nat)
  <2> QED
    BY <2>1, <2>2, Zenon
<1>2. PICK R : IsWellFoundedOn(R, Nat) /\ \A x, y \in Nat : y < x => <<y, x>> \in R
  BY <1>1
<1>3. PICK x \in T : \A y \in T : ~(<<y, x>> \in R)
  BY <1>2, WFMin
<1>4. \A y \in T : ~(y < x)
  BY <1>2, <1>3
<1> QED
  BY <1>3, <1>4

\* Induction over the numbers.
LEMMA AllNumbers ==
  ASSUME NEW S, S \subseteq Nat, 0 \in S, \A n \in S : n + 1 \in S
  PROVE  S = Nat
<1>1. SUFFICES ASSUME Nat \ S # {} PROVE FALSE
  OBVIOUS
<1>2. PICK x \in Nat \ S : \A y \in Nat \ S : x <= y
  BY <1>1, LeastNumber
<1>3. x # 0 /\ x - 1 \in S
  BY <1>2
<1> QED
  BY <1>2, <1>3

\* A bounded set of numbers has a greatest element.
LEMMA GreatestNumber ==
  ASSUME NEW T, NEW n \in Nat, T \subseteq 0..n, T # {}
  PROVE  \E x \in T : \A y \in T : x >= y
<1> DEFINE D == {n - x : x \in T}
<1>0. \A x \in T : x \in Nat /\ n - x \in Nat
  OBVIOUS
<1>1. PICK d \in D : \A e \in D : d <= e
  <2>1. D \subseteq Nat /\ D # {}
    BY <1>0
  <2> HIDE DEF D
  <2> QED
    BY <2>1, LeastNumber
<1>2. PICK x \in T : d = n - x
  BY <1>1
<1>3. ASSUME NEW y \in T PROVE x >= y
  <2>1. d <= n - y
    BY <1>1
  <2> QED
    BY <2>1, <1>0, <1>2
<1> QED
  BY <1>3

\* Max of such a set is in it and bounds it.
LEMMA MaxIsGreatest ==
  ASSUME NEW T, NEW n \in Nat, T \subseteq 0..n, T # {}
  PROVE  Max(T) \in T /\ \A y \in T : Max(T) >= y
BY GreatestNumber DEF Max

\* Induction over the subsets of a finite set: if some fails, one fails all whose
\* proper subsets do not.
LEMMA LeastSet ==
  ASSUME NEW S, IsFiniteSet(S), NEW D, D \subseteq SUBSET S, D # {}
  PROVE  \E T \in D : \A x \in T : T \ {x} \notin D
<1> DEFINE Sizes == {Cardinality(T) : T \in D}
<1>1. \A T \in D : IsFiniteSet(T) /\ Cardinality(T) \in Nat
  BY FS_Subset, FS_CardinalityType
<1>2. PICK n \in Sizes : \A m \in Sizes : n <= m
  <2>1. Sizes \subseteq Nat /\ Sizes # {}
    BY <1>1
  <2> HIDE DEF Sizes
  <2> QED
    BY <2>1, LeastNumber
<1>3. PICK T \in D : n = Cardinality(T)
  BY <1>2
<1>4. ASSUME NEW x \in T, T \ {x} \in D PROVE FALSE
  <2>1. Cardinality(T \ {x}) = Cardinality(T) - 1
    BY <1>1, <1>4, FS_RemoveElement
  <2>2. n <= Cardinality(T \ {x})
    BY <1>2, <1>4
  <2> QED
    BY <2>1, <2>2, <1>1, <1>3
<1> QED
  BY <1>4

-----------------------------------------------------------------------------
(* The iteration that MapThenFoldSet is, over the subsets of a finite set.  *)

\* pick takes an element of each non-empty subset.
Picks(pick, S) == \A T \in SUBSET S : T # {} => pick[T] \in T

\* The iteration over all subsets.
Iterates(it, S, base, pick, h) ==
  \A T \in SUBSET S : it[T] = IF T = {} THEN base ELSE h[<<pick[T], it[T \ {pick[T]}]>>]

\* The same, known only where the argument is among the values.
IteratesOn(it, S, A, base, pick, h) ==
  /\ it[{}] = base
  /\ \A T \in SUBSET S : T # {} /\ it[T \ {pick[T]}] \in A
                          => it[T] = h[<<pick[T], it[T \ {pick[T]}]>>]

\* It exists, whichever elements are chosen, and stays among the values that its step
\* keeps.
LEMMA FoldExists ==
  ASSUME NEW S, IsFiniteSet(S), NEW A, NEW base \in A, NEW pick, NEW h \in [S \X A -> A],
         Picks(pick, S)
  PROVE  \E it \in [SUBSET S -> A] : Iterates(it, S, base, pick, h)
<1> DEFINE Rest(T) == T \ {pick[T]}
           Next(g, T) == IF T = {} THEN base ELSE h[<<pick[T], g[Rest(T)]>>]
           Upto(n) == {T \in SUBSET S : Cardinality(T) <= n}
           Good == {n \in Nat : \E g \in [SUBSET S -> A] : \A T \in Upto(n) : g[T] = Next(g, T)}
<1>1. \A T \in SUBSET S : IsFiniteSet(T) /\ Cardinality(T) \in Nat /\ (Cardinality(T) = 0 <=> T = {})
  BY FS_Subset, FS_CardinalityType, FS_EmptySet
<1>2. \A T \in SUBSET S : T # {} => Rest(T) \in SUBSET S /\ Cardinality(Rest(T)) = Cardinality(T) - 1
  BY <1>1, FS_RemoveElement DEF Picks
<1>3. 0 \in Good
  <2>1. [T \in SUBSET S |-> base] \in [SUBSET S -> A]
    OBVIOUS
  <2>2. \A T \in Upto(0) : T = {}
    BY <1>1
  <2> QED
    BY <2>1, <2>2
<1>4. ASSUME NEW n \in Good PROVE n + 1 \in Good
  <2>1. PICK g \in [SUBSET S -> A] : \A T \in Upto(n) : g[T] = Next(g, T)
    BY <1>4
  <2> DEFINE k == [T \in SUBSET S |-> Next(g, T)]
  <2>2. k \in [SUBSET S -> A]
    BY <1>2 DEF Picks
  <2>3. ASSUME NEW T \in Upto(n + 1) PROVE k[T] = Next(k, T)
    <3>1. CASE T # {}
      <4>1. Rest(T) \in Upto(n)
        BY <3>1, <1>1, <1>2
      <4>2. k[Rest(T)] = g[Rest(T)]
        BY <4>1, <2>1
      <4> QED
        BY <3>1, <4>2
    <3> QED
      BY <3>1
  <2>4. n + 1 \in Nat
    OBVIOUS
  <2> HIDE DEF k, Next, Upto
  <2> QED
    BY <2>2, <2>3, <2>4
<1>5. Good = Nat
  <2> HIDE DEF Good
  <2>1. Good \subseteq Nat
    BY DEF Good
  <2> QED
    BY <1>3, <1>4, <2>1, AllNumbers
<1>6. Cardinality(S) \in Good
  BY <1>1, <1>5
<1>7. PICK g \in [SUBSET S -> A] : \A T \in Upto(Cardinality(S)) : g[T] = Next(g, T)
  BY <1>6
<1>8. \A T \in SUBSET S : T \in Upto(Cardinality(S))
  BY FS_Subset
<1> QED
  BY <1>7, <1>8 DEF Iterates

\* And it has one value only, even if it is known to follow the step only where its
\* argument is among these values.
LEMMA FoldUnique ==
  ASSUME NEW S, IsFiniteSet(S), NEW A, NEW base \in A, NEW pick, NEW h \in [S \X A -> A],
         Picks(pick, S),
         NEW it, IteratesOn(it, S, A, base, pick, h), NEW to, IteratesOn(to, S, A, base, pick, h)
  PROVE  it[S] = to[S] /\ it[S] \in A
<1> DEFINE D == {T \in SUBSET S : ~(it[T] = to[T] /\ it[T] \in A)}
<1>1. SUFFICES ASSUME D # {} PROVE FALSE
  OBVIOUS
<1>o. /\ it[{}] = base /\ to[{}] = base
      /\ \A T \in SUBSET S : T # {} /\ it[T \ {pick[T]}] \in A
                              => it[T] = h[<<pick[T], it[T \ {pick[T]}]>>]
      /\ \A T \in SUBSET S : T # {} /\ to[T \ {pick[T]}] \in A
                              => to[T] = h[<<pick[T], to[T \ {pick[T]}]>>]
  BY DEF IteratesOn
<1>2. PICK T \in D : \A x \in T : T \ {x} \notin D
  <2>1. D \subseteq SUBSET S
    OBVIOUS
  <2> HIDE DEF D
  <2> QED
    BY <1>1, <2>1, LeastSet
<1>3. T # {} /\ pick[T] \in T
  BY <1>2, <1>o DEF Picks
<1>4. it[T \ {pick[T]}] = to[T \ {pick[T]}] /\ it[T \ {pick[T]}] \in A
  BY <1>2, <1>3
<1>5. h[<<pick[T], it[T \ {pick[T]}]>>] \in A
  BY <1>3, <1>4
<1> QED
  BY <1>o, <1>2, <1>3, <1>4, <1>5

-----------------------------------------------------------------------------
(* Sequences. *)

\* Induction over sequences, from front to back.
LEMMA AllSequences ==
  ASSUME NEW B, NEW D, <<>> \in D, \A s \in Seq(B) : s \in D => \A e \in B : Append(s, e) \in D
  PROVE  Seq(B) \subseteq D
<1> DEFINE Good == {n \in Nat : \A s \in Seq(B) : Len(s) = n => s \in D}
<1>1. 0 \in Good
  BY EmptySeq
<1>2. ASSUME NEW n \in Good PROVE n + 1 \in Good
  <2>1. ASSUME NEW s \in Seq(B), Len(s) = n + 1 PROVE s \in D
    <3>1. Front(s) \in Seq(B) /\ Len(Front(s)) = n /\ Last(s) \in B /\ s = Append(Front(s), Last(s))
      BY <2>1 DEF Front, Last
    <3> QED
      BY <3>1
  <2> QED
    BY <2>1
<1>3. Good = Nat
  <2>1. Good \subseteq Nat
    OBVIOUS
  <2> HIDE DEF Good
  <2> QED
    BY <1>1, <1>2, <2>1, AllNumbers
<1> QED
  BY <1>3, LenProperties

\* A fold from the left whose step is a function.
LeftFold(h, base, s) == FoldLeft(LAMBDA a, b : h[<<a, b>>], base, s)

\* The iteration that FoldLeft is.
Follows(it, h, base, s) ==
  it = [T \in SUBSET DOMAIN s |->
          IF T = {} THEN base ELSE h[<<it[T \ {Max(T)}], s[Max(T)]>>]]

\* The same, known only where the argument is among the values.
FollowsOn(it, A, h, base, s) ==
  /\ it[{}] = base
  /\ \A T \in SUBSET DOMAIN s : T # {} /\ it[T \ {Max(T)}] \in A
                                 => it[T] = h[<<it[T \ {Max(T)}], s[Max(T)]>>]

\* The base and the step of a fold of elements of B into A.
Steps(h, base, A, B) == base \in A /\ h \in [A \X B -> A]

\* There is one.
LEMMA LeftFoldExists ==
  ASSUME NEW A, NEW B, NEW h, NEW base, Steps(h, base, A, B), NEW s \in Seq(B)
  PROVE  \E it \in [SUBSET DOMAIN s -> A] : Follows(it, h, base, s)
<1>b. base \in A
  BY DEF Steps
<1> DEFINE S == DOMAIN s
           pick == [T \in SUBSET S |-> Max(T)]
           k == [x \in S \X A |-> h[<<x[2], s[x[1]]>>]]
<1>1. S = 1..Len(s) /\ Len(s) \in Nat
  BY LenProperties
<1>f. IsFiniteSet(S)
  BY <1>1, FS_Interval
<1>2. Picks(pick, S)
  BY <1>1, MaxIsGreatest DEF Picks
<1>3. k \in [S \X A -> A]
  BY <1>1 DEF Steps
<1>k. \A i \in S, a \in A : k[<<i, a>>] = h[<<a, s[i]>>]
  BY <1>1
<1>4. \A T \in SUBSET S : pick[T] = Max(T)
  OBVIOUS
<1> HIDE DEF pick, k
<1>5. ASSUME NEW T \in SUBSET S, T # {}, NEW a \in A PROVE k[<<pick[T], a>>] = h[<<a, s[Max(T)]>>]
  BY <1>2, <1>k, <1>4, <1>5 DEF Picks
<1>6. \E to \in [SUBSET S -> A] : Follows(to, h, base, s)
  <2>1. PICK to \in [SUBSET S -> A] : Iterates(to, S, base, pick, k)
    <3> HIDE DEF S
    <3> QED
      BY <1>b, <1>f, <1>2, <1>3, FoldExists
  <2>2. ASSUME NEW T \in SUBSET S
        PROVE  to[T] = IF T = {} THEN base ELSE h[<<to[T \ {Max(T)}], s[Max(T)]>>]
    <3>1. to[T \ {pick[T]}] \in A
      BY <2>1
    <3> QED
      BY <2>1, <3>1, <1>4, <1>5 DEF Iterates
  <2> QED
    BY <2>2 DEF Follows
<1> QED
  BY <1>6

\* FoldLeft is such an iteration.
LEMMA LeftFoldIterates ==
  ASSUME NEW A, NEW B, NEW h, NEW base, Steps(h, base, A, B), NEW s \in Seq(B)
  PROVE  \E it : Follows(it, h, base, s) /\ LeftFold(h, base, s) = it[DOMAIN s]
<1>0. \E it : Follows(it, h, base, s)
  BY LeftFoldExists
<1>1. Follows(CHOOSE it : Follows(it, h, base, s), h, base, s)
  BY <1>0
<1>2. LeftFold(h, base, s) = (CHOOSE it : Follows(it, h, base, s))[DOMAIN s]
  BY DEF LeftFold, FoldLeft, MapThenFoldSet, Follows
<1> QED
  BY <1>1, <1>2

\* A fold keeps to the set its step keeps, and any such iteration computes it.
LEMMA LeftFoldUnique ==
  ASSUME NEW A, NEW B, NEW h, NEW base, Steps(h, base, A, B), NEW s \in Seq(B),
         NEW it, FollowsOn(it, A, h, base, s)
  PROVE  it[DOMAIN s] = LeftFold(h, base, s) /\ it[DOMAIN s] \in A
<1>b. base \in A
  BY DEF Steps
<1> DEFINE S == DOMAIN s
           pick == [T \in SUBSET S |-> Max(T)]
           k == [x \in S \X A |-> h[<<x[2], s[x[1]]>>]]
<1>1. S = 1..Len(s) /\ Len(s) \in Nat
  BY LenProperties
<1>f. IsFiniteSet(S)
  BY <1>1, FS_Interval
<1>2. Picks(pick, S)
  BY <1>1, MaxIsGreatest DEF Picks
<1>3. k \in [S \X A -> A]
  BY <1>1 DEF Steps
<1>k. \A i \in S, a \in A : k[<<i, a>>] = h[<<a, s[i]>>]
  BY <1>1
<1>4. \A T \in SUBSET S : pick[T] = Max(T)
  OBVIOUS
<1> HIDE DEF pick, k
<1>5. ASSUME NEW T \in SUBSET S, T # {}, NEW a \in A PROVE k[<<pick[T], a>>] = h[<<a, s[Max(T)]>>]
  BY <1>2, <1>k, <1>4, <1>5 DEF Picks
<1>6. ASSUME NEW to, FollowsOn(to, A, h, base, s) PROVE IteratesOn(to, S, A, base, pick, k)
  <2>1. ASSUME NEW T \in SUBSET S, T # {}, to[T \ {pick[T]}] \in A
        PROVE  to[T] = k[<<pick[T], to[T \ {pick[T]}]>>]
    <3>1. to[T] = h[<<to[T \ {Max(T)}], s[Max(T)]>>]
      BY <1>4, <1>6, <2>1 DEF FollowsOn
    <3> QED
      BY <3>1, <1>4, <1>5, <2>1
  <2> QED
    BY <2>1, <1>6 DEF IteratesOn, FollowsOn
<1>7. PICK to : Follows(to, h, base, s) /\ LeftFold(h, base, s) = to[S]
  BY LeftFoldIterates
<1>8. FollowsOn(to, A, h, base, s)
  BY <1>7 DEF Follows, FollowsOn
<1>9. IteratesOn(it, S, A, base, pick, k) /\ IteratesOn(to, S, A, base, pick, k)
  BY <1>6, <1>8
<1>10. it[S] = to[S] /\ it[S] \in A
  BY <1>b, <1>f, <1>2, <1>3, <1>9, FoldUnique
<1> QED
  BY <1>7, <1>10

\* What a fold from the left computes: nothing from the empty sequence, and one step from
\* each further element.
LEMMA LeftFoldSteps ==
  ASSUME NEW A, NEW B, NEW h, NEW base, Steps(h, base, A, B)
  PROVE  /\ LeftFold(h, base, <<>>) = base
         /\ \A s \in Seq(B) : LeftFold(h, base, s) \in A
         /\ \A s \in Seq(B), e \in B :
              LeftFold(h, base, Append(s, e)) = h[<<LeftFold(h, base, s), e>>]
<1>1. ASSUME NEW s \in Seq(B), NEW it, Follows(it, h, base, s)
      PROVE  FollowsOn(it, A, h, base, s)
  BY <1>1 DEF Follows, FollowsOn
<1>2. LeftFold(h, base, <<>>) = base
  <2>1. <<>> \in Seq(B) /\ DOMAIN <<>> = {}
    BY EmptySeq
  <2>2. ASSUME NEW s \in Seq(B), DOMAIN s = {} PROVE LeftFold(h, base, s) = base
    <3>1. PICK it : Follows(it, h, base, s) /\ LeftFold(h, base, s) = it[DOMAIN s]
      BY LeftFoldIterates
    <3> QED
      BY <2>2, <3>1 DEF Follows
  <2> QED
    BY <2>1, <2>2
<1>3. \A s \in Seq(B) : LeftFold(h, base, s) \in A
  BY <1>1, LeftFoldIterates, LeftFoldUnique
<1>4. ASSUME NEW s \in Seq(B), NEW e \in B
      PROVE  LeftFold(h, base, Append(s, e)) = h[<<LeftFold(h, base, s), e>>]
  <2> DEFINE n == Len(s)
             t == Append(s, e)
  <2>1. /\ t \in Seq(B) /\ n \in Nat /\ DOMAIN s = 1..n /\ DOMAIN t = 1..(n + 1)
        /\ t[n + 1] = e /\ \A i \in 1..n : t[i] = s[i]
    BY LenProperties
  <2> HIDE DEF t
  <2>2. PICK it : Follows(it, h, base, t) /\ LeftFold(h, base, t) = it[DOMAIN t]
    BY <2>1, LeftFoldIterates
  <2>3. ASSUME NEW T \in SUBSET DOMAIN s, T # {}
        PROVE  it[T] = h[<<it[T \ {Max(T)}], s[Max(T)]>>]
    <3>1. T \subseteq DOMAIN t
      BY <2>1
    <3>2. Max(T) \in 1..n
      BY <2>1, <2>3, MaxIsGreatest
    <3>3. it[T] = h[<<it[T \ {Max(T)}], t[Max(T)]>>]
      BY <2>2, <2>3, <3>1 DEF Follows
    <3> QED
      BY <2>1, <3>2, <3>3
  <2>4. it[DOMAIN s] = LeftFold(h, base, s)
    <3>1. FollowsOn(it, A, h, base, s)
      BY <2>2, <2>3 DEF Follows, FollowsOn
    <3> QED
      BY <3>1, LeftFoldUnique
  <2>5. Max(DOMAIN t) = n + 1
    <3>1. DOMAIN t \subseteq 0..(n + 1) /\ DOMAIN t # {} /\ n + 1 \in Nat /\ n + 1 \in DOMAIN t
      BY <2>1
    <3>2. Max(DOMAIN t) \in DOMAIN t /\ Max(DOMAIN t) >= n + 1
      BY <3>1, MaxIsGreatest
    <3> QED
      BY <2>1, <3>2
  <2>6. DOMAIN t \ {n + 1} = DOMAIN s /\ DOMAIN t # {}
    BY <2>1
  <2>7. it[DOMAIN t] = h[<<it[DOMAIN t \ {Max(DOMAIN t)}], t[Max(DOMAIN t)]>>]
    BY <2>2, <2>6 DEF Follows
  <2> QED
    BY <2>1, <2>2, <2>4, <2>5, <2>6, <2>7 DEF t
<1> QED
  BY <1>2, <1>3, <1>4

-----------------------------------------------------------------------------
(* Sums over a finite set. *)

\* Every element has its weight.
Weighs(w, S) == \A x \in S : w[x] \in Nat

Chosen(T) == CHOOSE x \in T : TRUE

\* The iteration that FoldSet is, with a step that adds the weight of an element.
Adds(it, w, S) ==
  it = [T \in SUBSET S |-> IF T = {} THEN 0 ELSE w[Chosen(T)] + it[T \ {Chosen(T)}]]

\* The same, known only where the argument is a number.
AddsOn(it, w, S) ==
  /\ it[{}] = 0
  /\ \A T \in SUBSET S : T # {} /\ it[T \ {Chosen(T)}] \in Nat
                           => it[T] = w[Chosen(T)] + it[T \ {Chosen(T)}]

SumOver(w, S) == FoldSet(LAMBDA x, n : w[x] + n, 0, S)

\* There is one.
LEMMA SumExists ==
  ASSUME NEW S, IsFiniteSet(S), NEW w, Weighs(w, S)
  PROVE  \E it \in [SUBSET S -> Nat] : Adds(it, w, S)
<1> DEFINE pick == [T \in SUBSET S |-> Chosen(T)]
           k == [x \in S \X Nat |-> w[x[1]] + x[2]]
<1>1. Picks(pick, S) /\ \A T \in SUBSET S : pick[T] = Chosen(T)
  BY DEF Picks, Chosen
<1>2. k \in [S \X Nat -> Nat] /\ \A x \in S, n \in Nat : k[<<x, n>>] = w[x] + n
  BY DEF Weighs
<1> HIDE DEF pick, k
<1>3. PICK to \in [SUBSET S -> Nat] : Iterates(to, S, 0, pick, k)
  BY <1>1, <1>2, FoldExists
<1>4. ASSUME NEW T \in SUBSET S
      PROVE  to[T] = IF T = {} THEN 0 ELSE w[Chosen(T)] + to[T \ {Chosen(T)}]
  <2>1. to[T \ {Chosen(T)}] \in Nat /\ (T # {} => Chosen(T) \in S)
    BY <1>1, <1>3 DEF Picks
  <2> QED
    BY <2>1, <1>1, <1>2, <1>3 DEF Iterates
<1>5. Adds(to, w, S)
  BY <1>4 DEF Adds
<1> QED
  BY <1>5

\* FoldSet is such an iteration.
LEMMA SumIterates ==
  ASSUME NEW S, IsFiniteSet(S), NEW w, Weighs(w, S)
  PROVE  \E it : Adds(it, w, S) /\ SumOver(w, S) = it[S]
<1>1. \E it : Adds(it, w, S)
  BY SumExists
<1>2. Adds(CHOOSE it : Adds(it, w, S), w, S)
  BY <1>1
<1>3. SumOver(w, S) = (CHOOSE it : Adds(it, w, S))[S]
  BY DEF SumOver, FoldSet, MapThenFoldSet, Adds, Chosen
<1> QED
  BY <1>2, <1>3

\* A sum is a number, any such iteration computes it, and only the weights of its elements
\* count.
LEMMA SumUnique ==
  ASSUME NEW S, IsFiniteSet(S), NEW w, Weighs(w, S), NEW v, \A x \in S : w[x] = v[x],
         NEW it, AddsOn(it, v, S)
  PROVE  it[S] = SumOver(w, S) /\ it[S] \in Nat
<1> DEFINE pick == [T \in SUBSET S |-> Chosen(T)]
           k == [x \in S \X Nat |-> w[x[1]] + x[2]]
<1>1. Picks(pick, S) /\ \A T \in SUBSET S : pick[T] = Chosen(T)
  BY DEF Picks, Chosen
<1>2. k \in [S \X Nat -> Nat] /\ \A x \in S, n \in Nat : k[<<x, n>>] = w[x] + n
  BY DEF Weighs
<1> HIDE DEF pick, k
<1>3. ASSUME NEW u, \A x \in S : w[x] = u[x], NEW to, AddsOn(to, u, S)
      PROVE  IteratesOn(to, S, Nat, 0, pick, k)
  <2>1. ASSUME NEW T \in SUBSET S, T # {}, to[T \ {pick[T]}] \in Nat
        PROVE  to[T] = k[<<pick[T], to[T \ {pick[T]}]>>]
    <3>1. pick[T] = Chosen(T) /\ Chosen(T) \in S
      BY <1>1, <2>1 DEF Picks
    <3>2. to[T] = u[Chosen(T)] + to[T \ {Chosen(T)}]
      BY <1>3, <2>1, <3>1 DEF AddsOn
    <3> QED
      BY <1>2, <1>3, <2>1, <3>1, <3>2
  <2> QED
    BY <1>3, <2>1 DEF AddsOn, IteratesOn
<1>4. PICK to : Adds(to, w, S) /\ SumOver(w, S) = to[S]
  BY SumIterates
<1>5. AddsOn(to, w, S)
  BY <1>4 DEF Adds, AddsOn
<1>6. IteratesOn(it, S, Nat, 0, pick, k) /\ IteratesOn(to, S, Nat, 0, pick, k)
  BY <1>3, <1>5
<1>7. it[S] = to[S] /\ it[S] \in Nat
  BY <1>1, <1>2, <1>6, FoldUnique
<1> QED
  BY <1>4, <1>7

\* Equal weights have equal sums.
LEMMA SumAgrees ==
  ASSUME NEW S, IsFiniteSet(S), NEW w, Weighs(w, S), NEW v, \A x \in S : w[x] = v[x]
  PROVE  SumOver(w, S) = SumOver(v, S)
<1>1. Weighs(v, S)
  BY DEF Weighs
<1>2. PICK it : Adds(it, v, S) /\ SumOver(v, S) = it[S]
  BY <1>1, SumIterates
<1>3. AddsOn(it, v, S)
  BY <1>2 DEF Adds, AddsOn
<1> QED
  BY <1>2, <1>3, SumUnique

\* A sum is a number, and takes up its elements in any order.
LEMMA SumSteps ==
  ASSUME NEW S, IsFiniteSet(S), NEW w, Weighs(w, S)
  PROVE  /\ SumOver(w, {}) = 0
         /\ SumOver(w, S) \in Nat
         /\ \A x \in S : SumOver(w, S) = w[x] + SumOver(w, S \ {x})
<1>1. \A T \in SUBSET S : IsFiniteSet(T) /\ Weighs(w, T)
  BY FS_Subset DEF Weighs
<1>2. ASSUME NEW T \in SUBSET S
      PROVE  /\ SumOver(w, T) \in Nat
             /\ T = {} => SumOver(w, T) = 0
             /\ T # {} => /\ Chosen(T) \in T
                          /\ SumOver(w, T) = w[Chosen(T)] + SumOver(w, T \ {Chosen(T)})
  <2>1. PICK it : Adds(it, w, T) /\ SumOver(w, T) = it[T]
    BY <1>1, SumIterates
  <2>2. ASSUME NEW R \in SUBSET T PROVE AddsOn(it, w, R)
    BY <2>1 DEF Adds, AddsOn
  <2>3. \A R \in SUBSET T : it[R] = SumOver(w, R) /\ it[R] \in Nat
    BY <1>1, <2>2, SumUnique
  <2>4. ASSUME T # {} PROVE it[T] = w[Chosen(T)] + it[T \ {Chosen(T)}]
    BY <2>1, <2>4 DEF Adds
  <2>5. T # {} => Chosen(T) \in T
    BY DEF Chosen
  <2>6. T = {} => it[T] = 0
    BY <2>1 DEF Adds
  <2> QED
    BY <2>1, <2>3, <2>4, <2>5, <2>6
<1> DEFINE D == {T \in SUBSET S : \E x \in T : SumOver(w, T) # w[x] + SumOver(w, T \ {x})}
<1>3. ASSUME D # {} PROVE FALSE
  <2>1. PICK T \in D : \A x \in T : T \ {x} \notin D
    <3>1. D \subseteq SUBSET S
      OBVIOUS
    <3> HIDE DEF D
    <3> QED
      BY <1>3, <3>1, LeastSet
  <2>2. PICK x \in T : SumOver(w, T) # w[x] + SumOver(w, T \ {x})
    BY <2>1
  <2> DEFINE c == Chosen(T)
             R == (T \ {x}) \ {c}
  <2>3. T \in SUBSET S /\ c \in T /\ SumOver(w, T) = w[c] + SumOver(w, T \ {c})
    BY <1>2, <2>1, <2>2
  <2> HIDE DEF c
  <2>4. c # x
    BY <2>2, <2>3
  <2>5. SumOver(w, T \ {x}) = w[c] + SumOver(w, R)
    BY <2>1, <2>3, <2>4
  <2>6. SumOver(w, T \ {c}) = w[x] + SumOver(w, R)
    <3>1. (T \ {c}) \ {x} = R
      OBVIOUS
    <3> QED
      BY <2>1, <2>2, <2>3, <2>4, <3>1
  <2>7. w[c] \in Nat /\ w[x] \in Nat /\ SumOver(w, R) \in Nat
    BY <1>2, <2>3 DEF Weighs
  <2> QED
    BY <2>2, <2>3, <2>5, <2>6, <2>7
<1> QED
  BY <1>2, <1>3

\* Weights of at least one add up to at least the number of elements.
LEMMA SumAtLeast ==
  ASSUME NEW S, IsFiniteSet(S), NEW w, Weighs(w, S), \A x \in S : w[x] >= 1
  PROVE  SumOver(w, S) >= Cardinality(S)
<1> DEFINE D == {T \in SUBSET S : ~(SumOver(w, T) >= Cardinality(T))}
<1>1. ASSUME D # {} PROVE FALSE
  <2>1. PICK T \in D : \A x \in T : T \ {x} \notin D
    <3>1. D \subseteq SUBSET S
      OBVIOUS
    <3> HIDE DEF D
    <3> QED
      BY <1>1, <3>1, LeastSet
  <2>2. T \in SUBSET S /\ ~(SumOver(w, T) >= Cardinality(T))
    BY <2>1
  <2>3. IsFiniteSet(T) /\ Weighs(w, T)
    BY <2>2, FS_Subset DEF Weighs
  <2>4. PICK x : x \in T
    BY <2>2, <2>3, SumSteps, FS_EmptySet
  <2>5. SumOver(w, T) = w[x] + SumOver(w, T \ {x})
    BY <2>3, <2>4, SumSteps
  <2>6. IsFiniteSet(T \ {x}) /\ Weighs(w, T \ {x})
    BY <2>3, FS_RemoveElement DEF Weighs
  <2>7. SumOver(w, T \ {x}) \in Nat /\ Cardinality(T \ {x}) = Cardinality(T) - 1 /\ Cardinality(T) \in Nat
    BY <2>3, <2>4, <2>6, SumSteps, FS_RemoveElement, FS_CardinalityType
  <2>8. SumOver(w, T \ {x}) >= Cardinality(T \ {x})
    BY <2>1, <2>2, <2>4
  <2>9. w[x] \in Nat /\ w[x] >= 1
    BY <2>2, <2>4 DEF Weighs
  <2> QED
    BY <2>2, <2>5, <2>7, <2>8, <2>9
<1> QED
  BY <1>1

-----------------------------------------------------------------------------
(* The measure of text. *)

AddWidth == [p \in Nat \X Chars |-> p[1] + Width[p[2]]]

\* The iteration that Size is.
Measures(it, t) ==
  it = [T \in SUBSET DOMAIN t |-> IF T = {} THEN 0 ELSE it[T \ {Max(T)}] + Width[t[Max(T)]]]

\* Every character has one to three bytes.
LEMMA Widths1to3 == \A c \in Chars : Width[c] \in 1..3
BY DEF Width, Chars

\* Its step is a function.
LEMMA AddWidthSteps ==
  /\ Steps(AddWidth, 0, Nat, Chars)
  /\ \A n \in Nat, c \in Chars : AddWidth[<<n, c>>] = n + Width[c]
BY Widths1to3 DEF Steps, AddWidth

\* Size is a fold whose step is a function.
LEMMA SizeIsFold == \A t \in Seq(Chars) : Size(t) = LeftFold(AddWidth, 0, t)
<1>0. Steps(AddWidth, 0, Nat, Chars)
  BY AddWidthSteps
<1>1. \A n \in Nat, c \in Chars : AddWidth[<<n, c>>] = n + Width[c]
  BY AddWidthSteps
<1> SUFFICES ASSUME NEW t \in Seq(Chars) PROVE Size(t) = LeftFold(AddWidth, 0, t)
  OBVIOUS
<1> DEFINE S == DOMAIN t
           F == CHOOSE it : Measures(it, t)
<1>2. \A T \in SUBSET S : T # {} => Max(T) \in S /\ t[Max(T)] \in Chars
  BY LenProperties, MaxIsGreatest
<1>3. PICK it \in [SUBSET S -> Nat] : Follows(it, AddWidth, 0, t)
  BY <1>0, LeftFoldExists
<1>4. ASSUME NEW T \in SUBSET S
      PROVE  it[T] = IF T = {} THEN 0 ELSE it[T \ {Max(T)}] + Width[t[Max(T)]]
  <2>1. it[T] = IF T = {} THEN 0 ELSE AddWidth[<<it[T \ {Max(T)}], t[Max(T)]>>]
    BY <1>3 DEF Follows
  <2> QED
    BY <2>1, <1>1, <1>2, <1>3
<1>5. Measures(it, t)
  BY <1>4 DEF Measures
<1>6. Measures(F, t)
  BY <1>5
<1>7. Size(t) = F[S]
  BY DEF Size, FoldLeft, MapThenFoldSet, Measures
<1> HIDE DEF F
<1>8. FollowsOn(F, Nat, AddWidth, 0, t)
  <2>1. ASSUME NEW T \in SUBSET S, T # {}, F[T \ {Max(T)}] \in Nat
        PROVE  F[T] = AddWidth[<<F[T \ {Max(T)}], t[Max(T)]>>]
    <3>1. F[T] = F[T \ {Max(T)}] + Width[t[Max(T)]]
      BY <1>6, <2>1 DEF Measures
    <3> QED
      BY <3>1, <1>1, <1>2, <2>1
  <2>2. F[{}] = 0
    BY <1>6 DEF Measures
  <2> QED
    BY <2>1, <2>2 DEF FollowsOn
<1> QED
  BY <1>0, <1>7, <1>8, LeftFoldUnique

\* No text has no bytes, and each further character adds its own.
LEMMA SizeSteps ==
  /\ Size(<<>>) = 0
  /\ \A t \in Seq(Chars) : Size(t) \in Nat
  /\ \A t \in Seq(Chars), c \in Chars : Size(Append(t, c)) = Size(t) + Width[c]
<1>0. Steps(AddWidth, 0, Nat, Chars)
  BY AddWidthSteps
<1>1. \A n \in Nat, c \in Chars : AddWidth[<<n, c>>] = n + Width[c]
  BY AddWidthSteps
<1>2. LeftFold(AddWidth, 0, <<>>) = 0
  BY <1>0, LeftFoldSteps
<1>3. ASSUME NEW t \in Seq(Chars) PROVE LeftFold(AddWidth, 0, t) \in Nat
  BY <1>0, LeftFoldSteps
<1>4. ASSUME NEW t \in Seq(Chars), NEW c \in Chars PROVE Size(Append(t, c)) = Size(t) + Width[c]
  <2>1. LeftFold(AddWidth, 0, Append(t, c)) = AddWidth[<<LeftFold(AddWidth, 0, t), c>>]
    BY <1>0, LeftFoldSteps
  <2>2. Append(t, c) \in Seq(Chars)
    OBVIOUS
  <2> QED
    BY <1>1, <1>3, <2>1, <2>2, SizeIsFold
<1>5. Size(<<>>) = 0
  BY <1>2, EmptySeq, SizeIsFold
<1> QED
  BY <1>3, <1>4, <1>5, SizeIsFold

\* The measure of two texts is the sum of theirs.
LEMMA SizeOfConcat == \A s, t \in Seq(Chars) : Size(s \o t) = Size(s) + Size(t)
<1> SUFFICES ASSUME NEW s \in Seq(Chars) PROVE \A t \in Seq(Chars) : Size(s \o t) = Size(s) + Size(t)
  OBVIOUS
<1> DEFINE D == {t \in Seq(Chars) : Size(s \o t) = Size(s) + Size(t)}
<1>1. <<>> \in D
  BY SizeSteps, ConcatEmptySeq
<1>2. ASSUME NEW t \in Seq(Chars), t \in D, NEW c \in Chars PROVE Append(t, c) \in D
  <2>1. s \o Append(t, c) = Append(s \o t, c)
    OBVIOUS
  <2>2. s \o t \in Seq(Chars) /\ Append(t, c) \in Seq(Chars)
    OBVIOUS
  <2>3. Width[c] \in Nat /\ Size(s) \in Nat /\ Size(t) \in Nat
    BY Widths1to3, SizeSteps
  <2>4. Size(Append(s \o t, c)) = Size(s \o t) + Width[c]
    BY <2>2, SizeSteps
  <2>5. Size(Append(t, c)) = Size(t) + Width[c]
    BY SizeSteps
  <2>6. Size(s \o Append(t, c)) = Size(s) + Size(Append(t, c))
    BY <1>2, <2>1, <2>3, <2>4, <2>5
  <2> QED
    BY <2>2, <2>6
<1>3. Seq(Chars) \subseteq D
  <2> HIDE DEF D
  <2> QED
    BY <1>1, <1>2, AllSequences
<1> QED
  BY <1>3

\* CutTo returns the longest whole characters that fit.
LEMMA CutFits ==
  ASSUME NEW t \in Seq(Chars), NEW room \in Nat
  PROVE  \E k \in 0..Len(t) :
           /\ CutTo(t, room) = SubSeq(t, 1, k)
           /\ Size(SubSeq(t, 1, k)) <= room
           /\ k = Len(t) \/ Size(SubSeq(t, 1, k + 1)) > room
<1> DEFINE Fits == {k \in 0..Len(t) : Size(SubSeq(t, 1, k)) <= room}
           Right(k) == /\ Size(SubSeq(t, 1, k)) <= room
                       /\ k = Len(t) \/ Size(SubSeq(t, 1, k + 1)) > room
<1>1. Len(t) \in Nat
  OBVIOUS
<1>2. \A k \in 0..Len(t) : Size(SubSeq(t, 1, k)) \in Nat
  <2>1. \A k \in 0..Len(t) : SubSeq(t, 1, k) \in Seq(Chars)
    OBVIOUS
  <2> QED
    BY <2>1, SizeSteps
<1>3. 0 \in Fits
  <2>1. SubSeq(t, 1, 0) = <<>>
    OBVIOUS
  <2>2. Size(SubSeq(t, 1, 0)) = 0
    BY <2>1, SizeSteps, Zenon
  <2> QED
    BY <2>2, <1>1
<1>4. PICK k \in Fits : \A j \in Fits : k >= j
  <2>1. Fits \subseteq 0..Len(t) /\ Fits # {}
    BY <1>3
  <2> HIDE DEF Fits
  <2> QED
    BY <1>1, <2>1, GreatestNumber
<1>5. k \in 0..Len(t) /\ Right(k)
  <2>1. CASE k # Len(t)
    <3>1. k + 1 \in 0..Len(t) /\ k + 1 \notin Fits
      BY <1>1, <1>4, <2>1
    <3> QED
      BY <3>1, <1>1, <1>2, <1>4
  <2> QED
    BY <2>1, <1>4
<1> DEFINE n == CHOOSE j \in 0..Len(t) : Right(j)
<1>6. n \in 0..Len(t) /\ Right(n)
  BY <1>5
<1>7. CutTo(t, room) = SubSeq(t, 1, n)
  BY DEF CutTo
<1> HIDE DEF n
<1> QED
  BY <1>6, <1>7

\* A longer prefix has no fewer bytes.
LEMMA PrefixGrows ==
  ASSUME NEW t \in Seq(Chars), NEW i \in 0..Len(t), NEW j \in i..Len(t)
  PROVE  /\ Size(SubSeq(t, 1, i)) \in Nat /\ Size(SubSeq(t, 1, j)) \in Nat
         /\ Size(SubSeq(t, 1, i)) <= Size(SubSeq(t, 1, j))
<1>1. /\ SubSeq(t, 1, i) \in Seq(Chars) /\ SubSeq(t, i + 1, j) \in Seq(Chars)
      /\ SubSeq(t, 1, j) \in Seq(Chars)
  OBVIOUS
<1>2. SubSeq(t, 1, j) = SubSeq(t, 1, i) \o SubSeq(t, i + 1, j)
  OBVIOUS
<1>3. Size(SubSeq(t, 1, j)) = Size(SubSeq(t, 1, i)) + Size(SubSeq(t, i + 1, j))
  BY <1>1, <1>2, SizeOfConcat
<1>4. Size(SubSeq(t, 1, i)) \in Nat /\ Size(SubSeq(t, i + 1, j)) \in Nat
  BY <1>1, SizeSteps
<1> QED
  BY <1>3, <1>4

\* The longest prefix that fits is what CutTo returns.
LEMMA CutIs ==
  ASSUME NEW t \in Seq(Chars), NEW room \in Nat, NEW k \in 0..Len(t),
         Size(SubSeq(t, 1, k)) <= room,
         k = Len(t) \/ Size(SubSeq(t, 1, k + 1)) > room
  PROVE  CutTo(t, room) = SubSeq(t, 1, k)
<1>1. PICK n \in 0..Len(t) :
        /\ CutTo(t, room) = SubSeq(t, 1, n)
        /\ Size(SubSeq(t, 1, n)) <= room
        /\ n = Len(t) \/ Size(SubSeq(t, 1, n + 1)) > room
  BY CutFits
<1>2. ASSUME NEW i \in 0..Len(t), NEW j \in 0..Len(t), i < j,
             Size(SubSeq(t, 1, j)) <= room,
             i = Len(t) \/ Size(SubSeq(t, 1, i + 1)) > room
      PROVE  FALSE
  <2>1. i + 1 \in 0..Len(t) /\ j \in i + 1 .. Len(t) /\ i # Len(t)
    BY <1>2
  <2>2. /\ Size(SubSeq(t, 1, i + 1)) <= Size(SubSeq(t, 1, j))
        /\ Size(SubSeq(t, 1, i + 1)) \in Nat /\ Size(SubSeq(t, 1, j)) \in Nat
    BY <2>1, PrefixGrows
  <2> QED
    BY <1>2, <2>1, <2>2
<1>3. ~(k < n) /\ ~(n < k)
  BY <1>1, <1>2
<1>4. k = n
  BY <1>3
<1> QED
  BY <1>1, <1>4

\* A text that fits is not cut.
LEMMA CutWhole ==
  ASSUME NEW t \in Seq(Chars), NEW room \in Nat, Size(t) <= room
  PROVE  CutTo(t, room) = t
<1>1. SubSeq(t, 1, Len(t)) = t /\ Len(t) \in 0..Len(t)
  BY SubSeqFull
<1> QED
  BY <1>1, CutIs

\* What is cut of a text that does not fit is what is cut of any longer text.
LEMMA CutOfMore ==
  ASSUME NEW s \in Seq(Chars), NEW t \in Seq(Chars), NEW room \in Nat, Size(s) > room
  PROVE  CutTo(s \o t, room) = CutTo(s, room) /\ Size(s \o t) > room
<1>1. PICK k \in 0..Len(s) :
        /\ CutTo(s, room) = SubSeq(s, 1, k)
        /\ Size(SubSeq(s, 1, k)) <= room
        /\ k = Len(s) \/ Size(SubSeq(s, 1, k + 1)) > room
  BY CutFits
<1>2. Size(s) \in Nat /\ Size(t) \in Nat /\ SubSeq(s, 1, Len(s)) = s
  BY SizeSteps, SubSeqFull
<1>3. k # Len(s)
  <2> SUFFICES ASSUME k = Len(s) PROVE FALSE
    OBVIOUS
  <2>1. SubSeq(s, 1, k) = s
    BY <1>2
  <2>2. Size(s) <= room
    BY <1>1, <2>1, Zenon
  <2> QED
    BY <1>2, <2>2
<1>4. s \o t \in Seq(Chars) /\ Len(s \o t) = Len(s) + Len(t) /\ Len(s) \in Nat /\ Len(t) \in Nat
  OBVIOUS
<1>5. \A i \in 0..Len(s) : SubSeq(s \o t, 1, i) = SubSeq(s, 1, i)
  OBVIOUS
<1>6. k \in 0..Len(s \o t) /\ k + 1 \in 0..Len(s)
  BY <1>3, <1>4
<1>7. /\ SubSeq(s \o t, 1, k) = SubSeq(s, 1, k)
      /\ SubSeq(s \o t, 1, k + 1) = SubSeq(s, 1, k + 1)
  BY <1>5, <1>6
<1>8. Size(SubSeq(s \o t, 1, k)) <= room /\ Size(SubSeq(s \o t, 1, k + 1)) > room
  BY <1>1, <1>3, <1>7
<1>9. CutTo(s \o t, room) = SubSeq(s \o t, 1, k)
  BY <1>4, <1>6, <1>8, CutIs
<1>10. Size(s \o t) = Size(s) + Size(t)
  BY SizeOfConcat
<1>11. Size(s \o t) > room
  BY <1>2, <1>10
<1> QED
  BY <1>1, <1>7, <1>9, <1>11

\* What is cut of a text that starts with one that fits: that one, and what fits of the rest.
LEMMA CutOfConcat ==
  ASSUME NEW s \in Seq(Chars), NEW t \in Seq(Chars), NEW room \in Nat, Size(s) <= room
  PROVE  CutTo(s \o t, room) = s \o CutTo(t, room - Size(s))
<1>1. Size(s) \in Nat /\ room - Size(s) \in Nat
  BY SizeSteps
<1>2. PICK k \in 0..Len(t) :
        /\ CutTo(t, room - Size(s)) = SubSeq(t, 1, k)
        /\ Size(SubSeq(t, 1, k)) <= room - Size(s)
        /\ k = Len(t) \/ Size(SubSeq(t, 1, k + 1)) > room - Size(s)
  BY <1>1, CutFits
<1>3. s \o t \in Seq(Chars) /\ Len(s \o t) = Len(s) + Len(t) /\ Len(s) \in Nat /\ Len(t) \in Nat
  OBVIOUS
<1>4. ASSUME NEW i \in 0..Len(t)
      PROVE  /\ SubSeq(s \o t, 1, Len(s) + i) = s \o SubSeq(t, 1, i)
             /\ Size(SubSeq(s \o t, 1, Len(s) + i)) = Size(s) + Size(SubSeq(t, 1, i))
             /\ Size(SubSeq(t, 1, i)) \in Nat
  <2>1. SubSeq(s \o t, 1, Len(s) + i) = s \o SubSeq(t, 1, i) /\ SubSeq(t, 1, i) \in Seq(Chars)
    OBVIOUS
  <2>2. Size(s \o SubSeq(t, 1, i)) = Size(s) + Size(SubSeq(t, 1, i))
    BY <2>1, SizeOfConcat
  <2>3. Size(SubSeq(t, 1, i)) \in Nat
    BY <2>1, SizeSteps
  <2> QED
    BY <2>1, <2>2, <2>3
<1>5. Len(s) + k \in 0..Len(s \o t) /\ (Len(s) + k = Len(s \o t) <=> k = Len(t))
  BY <1>3
<1>6. Size(SubSeq(s \o t, 1, Len(s) + k)) <= room
  BY <1>1, <1>2, <1>4
<1>7. k # Len(t) => Size(SubSeq(s \o t, 1, (Len(s) + k) + 1)) > room
  <2> SUFFICES ASSUME k # Len(t) PROVE Size(SubSeq(s \o t, 1, (Len(s) + k) + 1)) > room
    OBVIOUS
  <2>1. k + 1 \in 0..Len(t) /\ Len(s) + (k + 1) = (Len(s) + k) + 1
    BY <1>3
  <2>2. /\ Size(SubSeq(s \o t, 1, Len(s) + (k + 1))) = Size(s) + Size(SubSeq(t, 1, k + 1))
        /\ Size(SubSeq(t, 1, k + 1)) \in Nat
    BY <1>4, <2>1
  <2>3. Size(SubSeq(t, 1, k + 1)) > room - Size(s)
    BY <1>2
  <2> QED
    BY <1>1, <2>1, <2>2, <2>3
<1>8. CutTo(s \o t, room) = SubSeq(s \o t, 1, Len(s) + k)
  BY <1>3, <1>5, <1>6, <1>7, CutIs
<1> QED
  BY <1>2, <1>4, <1>8

=============================================================================
