--------------------------- MODULE EditTextProofs ---------------------------
(***************************************************************************)
(* Proofs about EditText: an edit changes one span and keeps a CRLF file   *)
(* one, and the hint quotes the best window, for texts over any alphabet   *)
(* that has the two line breaks.                                           *)
(***************************************************************************)
EXTENDS EditText, FoldLemmas

Upto(n) == [i \in 1..n |-> i]

\* The numbers up to n are a sequence, one longer than those up to n - 1.
LEMMA UptoIs ==
  /\ Upto(0) = <<>>
  /\ \A n \in Nat : Upto(n) \in Seq(Nat) /\ Upto(n + 1) = Append(Upto(n), n + 1)
<1>1. Upto(0) = <<>>
  BY DEF Upto
<1>2. ASSUME NEW n \in Nat PROVE Upto(n) \in Seq(Nat) /\ Len(Upto(n)) = n /\ \A i \in 1..n : Upto(n)[i] = i
  BY DEF Upto
<1>3. ASSUME NEW n \in Nat PROVE Upto(n + 1) = Append(Upto(n), n + 1)
  <2> DEFINE s == Append(Upto(n), n + 1)
             u == Upto(n + 1)
  <2>1. s \in Seq(Nat) /\ Len(s) = n + 1 /\ s[n + 1] = n + 1 /\ \A i \in 1..n : s[i] = i
    BY <1>2
  <2>2. n + 1 \in Nat /\ u \in Seq(Nat) /\ Len(u) = n + 1 /\ \A i \in 1..(n + 1) : u[i] = i
    BY <1>2
  <2> HIDE DEF s, u
  <2>3. \A i \in 1..(n + 1) : i \in 1..n \/ i = n + 1
    OBVIOUS
  <2>4. u = s
    BY <2>1, <2>2, <2>3, SeqEqual
  <2> QED
    BY <2>4 DEF s, u
<1> QED
  BY <1>1, <1>2, <1>3

-----------------------------------------------------------------------------
(* str.count. *)

Tally == [count : Nat, next : Nat]
TallyFn(places, width) == [x \in Tally \X Nat |-> CountAt(places, width, x[1], x[2])]
Tallied(places, width, s) ==
  FoldLeft(LAMBDA r, i : CountAt(places, width, r, i), [count |-> 0, next |-> 1], s)

\* The iteration that a count is.
Tallies(it, places, width, s) ==
  it = [T \in SUBSET DOMAIN s |-> IF T = {} THEN [count |-> 0, next |-> 1]
                                  ELSE CountAt(places, width, it[T \ {Max(T)}], s[Max(T)])]

\* The step of a count is a function.
LEMMA TallyFnSteps ==
  ASSUME NEW places, NEW width \in Nat
  PROVE  /\ Steps(TallyFn(places, width), [count |-> 0, next |-> 1], Tally, Nat)
         /\ \A r \in Tally, i \in Nat : TallyFn(places, width)[<<r, i>>] = CountAt(places, width, r, i)
<1>1. \A r \in Tally, i \in Nat : CountAt(places, width, r, i) \in Tally
  BY DEF Tally, CountAt
<1>2. \A x \in Tally \X Nat : CountAt(places, width, x[1], x[2]) \in Tally
  BY <1>1
<1>3. [count |-> 0, next |-> 1] \in Tally
  BY DEF Tally
<1> QED
  BY <1>2, <1>3 DEF Steps, TallyFn

\* A count is a fold.
LEMMA TalliedIsFold ==
  ASSUME NEW places, NEW width \in Nat, NEW s \in Seq(Nat)
  PROVE  Tallied(places, width, s) = LeftFold(TallyFn(places, width), [count |-> 0, next |-> 1], s)
<1> DEFINE h == TallyFn(places, width)
           z == [count |-> 0, next |-> 1]
<1>0. Steps(h, z, Tally, Nat)
  BY TallyFnSteps
<1>1. \A r \in Tally, i \in Nat : h[<<r, i>>] = CountAt(places, width, r, i)
  BY TallyFnSteps
<1>z. z = [count |-> 0, next |-> 1]
  OBVIOUS
<1> HIDE DEF h, z
<1> DEFINE S == DOMAIN s
           F == CHOOSE it : Tallies(it, places, width, s)
<1>2. \A T \in SUBSET S : T # {} => Max(T) \in S /\ s[Max(T)] \in Nat
  <2>1. S \subseteq 0..Len(s) /\ Len(s) \in Nat /\ \A i \in S : s[i] \in Nat
    BY LenProperties
  <2> QED
    BY <2>1, MaxIsGreatest
<1>3. PICK it \in [SUBSET S -> Tally] : Follows(it, h, z, s)
  BY <1>0, LeftFoldExists
<1>4. ASSUME NEW T \in SUBSET S
      PROVE  it[T] = IF T = {} THEN z ELSE CountAt(places, width, it[T \ {Max(T)}], s[Max(T)])
  <2>1. it[T] = IF T = {} THEN z ELSE h[<<it[T \ {Max(T)}], s[Max(T)]>>]
    BY <1>3 DEF Follows
  <2> QED
    BY <2>1, <1>1, <1>2, <1>3
<1>5. Tallies(it, places, width, s)
  BY <1>4, <1>z DEF Tallies
<1>6. Tallies(F, places, width, s)
  BY <1>5
<1>7. Tallied(places, width, s) = F[S]
  BY DEF Tallied, FoldLeft, MapThenFoldSet, Tallies
<1> HIDE DEF F
<1>8. FollowsOn(F, Tally, h, z, s)
  <2>1. ASSUME NEW T \in SUBSET S, T # {}, F[T \ {Max(T)}] \in Tally
        PROVE  F[T] = h[<<F[T \ {Max(T)}], s[Max(T)]>>]
    <3>1. F[T] = CountAt(places, width, F[T \ {Max(T)}], s[Max(T)])
      BY <1>6, <2>1 DEF Tallies
    <3> QED
      BY <3>1, <1>1, <1>2, <2>1
  <2>2. F[{}] = z
    BY <1>6, <1>z DEF Tallies
  <2> QED
    BY <2>1, <2>2 DEF FollowsOn
<1>9. Tallied(places, width, s) = LeftFold(h, z, s)
  BY <1>0, <1>7, <1>8, LeftFoldUnique
<1> QED
  BY <1>9, <1>z DEF h

\* One position after the other.
LEMMA TallyGrows ==
  ASSUME NEW places, NEW width \in Nat
  PROVE  /\ Tallied(places, width, Upto(0)) = [count |-> 0, next |-> 1]
         /\ \A n \in Nat : /\ Tallied(places, width, Upto(n)) \in Tally
                           /\ Tallied(places, width, Upto(n + 1))
                                = CountAt(places, width, Tallied(places, width, Upto(n)), n + 1)
<1> DEFINE h == TallyFn(places, width)
           z == [count |-> 0, next |-> 1]
<1>1. \A s \in Seq(Nat) : Tallied(places, width, s) = LeftFold(h, z, s)
  BY TalliedIsFold
<1>2. Steps(h, z, Tally, Nat) /\ \A r \in Tally, i \in Nat : h[<<r, i>>] = CountAt(places, width, r, i)
  BY TallyFnSteps
<1> HIDE DEF h, z
<1>3. /\ LeftFold(h, z, <<>>) = z
      /\ \A s \in Seq(Nat) : LeftFold(h, z, s) \in Tally
      /\ \A s \in Seq(Nat), e \in Nat : LeftFold(h, z, Append(s, e)) = h[<<LeftFold(h, z, s), e>>]
  BY <1>2, LeftFoldSteps
<1>4. Tallied(places, width, Upto(0)) = z
  BY <1>1, <1>3, UptoIs
<1>5. ASSUME NEW n \in Nat
      PROVE  /\ Tallied(places, width, Upto(n)) \in Tally
             /\ Tallied(places, width, Upto(n + 1))
                  = CountAt(places, width, Tallied(places, width, Upto(n)), n + 1)
  <2>1. Upto(n) \in Seq(Nat) /\ Upto(n + 1) \in Seq(Nat) /\ Upto(n + 1) = Append(Upto(n), n + 1) /\ n + 1 \in Nat
    <3>1. n + 1 \in Nat
      OBVIOUS
    <3> QED
      BY <3>1, UptoIs, Zenon
  <2>2. Tallied(places, width, Upto(n)) = LeftFold(h, z, Upto(n)) /\ LeftFold(h, z, Upto(n)) \in Tally
    BY <1>1, <1>3, <2>1
  <2>3. Tallied(places, width, Upto(n + 1)) = h[<<LeftFold(h, z, Upto(n)), n + 1>>]
    BY <1>1, <1>3, <2>1
  <2> QED
    BY <1>2, <2>1, <2>2, <2>3
<1> QED
  BY <1>4, <1>5 DEF z

\* The state of a count after n positions.
Counted(r, n, places, width) ==
  /\ r \in Tally
  /\ r.count = 0 => r.next = 1 /\ \A j \in places : j > n
  /\ r.count = 1 => \E i \in places : r.next = i + width /\ \A j \in places : i <= j /\ (j <= n => j < i + width)
  /\ r.count > 1 => \E i, j \in places : i + width <= j

\* The scan at one more place.
LEMMA CountedNext ==
  ASSUME NEW places, places \subseteq Nat \ {0}, NEW width \in Nat \ {0}, NEW r, NEW n \in Nat,
         Counted(r, n, places, width)
  PROVE  Counted(CountAt(places, width, r, n + 1), n + 1, places, width)
<1> DEFINE q == CountAt(places, width, r, n + 1)
<1>1. r \in Tally /\ r.count \in Nat /\ r.next \in Nat
  BY DEF Counted, Tally
<1>2. CASE n + 1 \in places /\ n + 1 >= r.next
  <2>1. q = [count |-> r.count + 1, next |-> n + 1 + width]
    BY <1>2 DEF CountAt
  <2>2. q \in Tally /\ q.count = r.count + 1 /\ q.next = n + 1 + width
    BY <1>1, <2>1 DEF Tally
  <2> HIDE DEF q
  <2>g. SUFFICES Counted(q, n + 1, places, width)
    BY DEF q
  <2>3. CASE r.count = 0
    <3>1. \A j \in places : n + 1 <= j /\ (j <= n + 1 => j < n + 1 + width)
      BY <2>3 DEF Counted
    <3>2. q.count # 0 /\ ~(q.count > 1)
      BY <2>2, <2>3
    <3>3. \E i \in places : q.next = i + width /\ \A j \in places : i <= j /\ (j <= n + 1 => j < i + width)
      BY <1>2, <2>2, <3>1
    <3> QED
      BY <2>2, <3>2, <3>3 DEF Counted
  <2>4. CASE r.count = 1
    <3>1. PICK i \in places : r.next = i + width
      BY <2>4 DEF Counted
    <3>2. q.count # 0 /\ q.count # 1
      BY <2>2, <2>4
    <3>3. \E j, k \in places : j + width <= k
      BY <1>2, <3>1
    <3> QED
      BY <2>2, <3>2, <3>3 DEF Counted
  <2>5. CASE r.count > 1
    <3>1. q.count > 1 /\ q.count # 1 /\ q.count # 0
      BY <1>1, <2>2, <2>5
    <3>2. \E j, k \in places : j + width <= k
      BY <2>5 DEF Counted
    <3> QED
      BY <2>2, <3>1, <3>2 DEF Counted
  <2>6. r.count = 0 \/ r.count = 1 \/ r.count > 1
    BY <1>1
  <2> QED
    BY <2>3, <2>4, <2>5, <2>6
<1>3. CASE ~(n + 1 \in places /\ n + 1 >= r.next)
  <2>1. q = r
    BY <1>3 DEF CountAt
  <2>2. ASSUME r.count = 0 PROVE \A j \in places : j > n + 1
    <3>1. r.next = 1 /\ \A j \in places : j > n
      BY <2>2 DEF Counted
    <3>2. n + 1 \notin places
      BY <1>3, <3>1
    <3> QED
      BY <3>1, <3>2
  <2>3. ASSUME r.count = 1
        PROVE  \E i \in places : r.next = i + width /\ \A j \in places : i <= j /\ (j <= n + 1 => j < i + width)
    <3>1. PICK i \in places : r.next = i + width /\ \A j \in places : i <= j /\ (j <= n => j < i + width)
      BY <2>3 DEF Counted
    <3>2. ASSUME NEW j \in places, j <= n + 1 PROVE j < i + width
      <4>1. CASE j <= n
        BY <3>1, <4>1
      <4>2. CASE j = n + 1
        BY <1>3, <3>1, <4>2
      <4> QED
        BY <3>2, <4>1, <4>2
    <3> QED
      BY <3>1, <3>2
  <2>4. Counted(r, n + 1, places, width)
    BY <1>1, <2>2, <2>3 DEF Counted
  <2> QED
    BY <2>1, <2>4
<1> QED
  BY <1>2, <1>3

\* The scan of the first n places has counted what is said of it.
LEMMA CountedAll ==
  ASSUME NEW places, places \subseteq Nat \ {0}, NEW width \in Nat \ {0}
  PROVE  \A n \in Nat : Counted(Tallied(places, width, Upto(n)), n, places, width)
<1> DEFINE Good == {n \in Nat : Counted(Tallied(places, width, Upto(n)), n, places, width)}
<1>1. 0 \in Good
  <2> DEFINE z == [count |-> 0, next |-> 1]
  <2>1. z \in Tally /\ z.count = 0 /\ z.next = 1
    BY DEF Tally
  <2> HIDE DEF z
  <2>2. Counted(z, 0, places, width)
    BY <2>1 DEF Counted
  <2> QED
    BY <2>2, TallyGrows DEF z
<1>2. ASSUME NEW n \in Good PROVE n + 1 \in Good
  <2> DEFINE r == Tallied(places, width, Upto(n))
  <2>1. n \in Nat /\ Counted(r, n, places, width)
    OBVIOUS
  <2>2. Tallied(places, width, Upto(n + 1)) = CountAt(places, width, r, n + 1)
    BY <2>1, TallyGrows
  <2> HIDE DEF r
  <2>3. Counted(CountAt(places, width, r, n + 1), n + 1, places, width)
    BY <2>1, CountedNext
  <2> QED
    BY <2>1, <2>2, <2>3
<1>3. Good \subseteq Nat
  OBVIOUS
<1> HIDE DEF Good
<1>4. Good = Nat
  BY <1>1, <1>2, <1>3, AllNumbers
<1> QED
  BY <1>4 DEF Good

\* What str.count says of the places that match: none, all of them together, or two apart.
LEMMA CountIs ==
  ASSUME NEW C, NEW s \in Seq(C), NEW t \in Seq(C)
  PROVE  /\ Count(s, t) \in Nat
         /\ Count(s, t) = 0 => Places(s, t) = {}
         /\ Count(s, t) = 1 => \E i \in Places(s, t) : \A j \in Places(s, t) :
                                 i <= j /\ (j # i => ~Disjoint(s, i, j))
         /\ Count(s, t) > 1 => Twice(s, t)
<1> DEFINE places == Places(s, t)
           width == IF s = <<>> THEN 1 ELSE Len(s)
           r == Tallied(places, width, Upto(Len(t) + 1))
<1>1. Count(s, t) = r.count
  BY DEF Count, Tallied, Upto
<1>2. Len(s) \in Nat /\ Len(t) \in Nat /\ Len(t) + 1 \in Nat /\ (s # <<>> => Len(s) >= 1)
  OBVIOUS
<1>0. s = <<>> => Len(s) = 0
  OBVIOUS
<1>3. /\ width \in Nat \ {0} /\ width >= Len(s) /\ (Len(s) # 0 => width = Len(s)) /\ (Len(s) = 0 => width = 1)
  BY <1>0, <1>2
<1>4. places \subseteq Nat \ {0} /\ \A j \in places : j <= Len(t) + 1
  BY <1>2 DEF Places
<1> HIDE DEF places, width
<1>5. Counted(r, Len(t) + 1, places, width)
  BY <1>2, <1>3, <1>4, CountedAll
<1> HIDE DEF r
<1>6. r.count \in Nat
  BY <1>5 DEF Counted, Tally
<1>7. r.count = 0 => places = {}
  BY <1>2, <1>4, <1>5 DEF Counted
<1>8. ASSUME r.count = 1
      PROVE  \E i \in places : \A j \in places : i <= j /\ (j # i => ~Disjoint(s, i, j))
  <2>1. PICK i \in places : \A j \in places : i <= j /\ (j <= Len(t) + 1 => j < i + width)
    BY <1>5, <1>8 DEF Counted
  <2>2. \A j \in places : i <= j /\ j < i + width
    BY <1>4, <2>1
  <2>3. ASSUME NEW j \in places, j # i PROVE ~Disjoint(s, i, j)
    <3>1. i \in Nat /\ j \in Nat
      BY <1>4
    <3>2. i < j /\ j < i + width
      BY <2>2, <2>3, <3>1
    <3> QED
      BY <1>2, <1>3, <3>1, <3>2 DEF Disjoint
  <2> QED
    BY <2>2, <2>3
<1>9. ASSUME r.count > 1 PROVE Twice(s, t)
  <2>1. PICK i \in places, j \in places : i + width <= j
    BY <1>5, <1>9 DEF Counted
  <2>2. i # j /\ Disjoint(s, i, j)
    BY <1>2, <1>3, <1>4, <2>1 DEF Disjoint
  <2> QED
    BY <2>1, <2>2 DEF Twice, places
<1> QED
  BY <1>1, <1>6, <1>7, <1>8, <1>9 DEF places

-----------------------------------------------------------------------------
(* str.replace("\n", "\r\n"). *)

CrlfFn(C) == [x \in Seq(C) \X C |-> x[1] \o CrlfOf(x[2])]

\* The iteration that it is.
Crlfs(it, s) ==
  it = [T \in SUBSET DOMAIN s |-> IF T = {} THEN <<>> ELSE it[T \ {Max(T)}] \o CrlfOf(s[Max(T)])]

\* Its step is a function.
LEMMA CrlfFnSteps ==
  ASSUME NEW C, {"cr", "lf"} \subseteq C
  PROVE  /\ Steps(CrlfFn(C), <<>>, Seq(C), C)
         /\ \A r \in Seq(C), c \in C : CrlfFn(C)[<<r, c>>] = r \o CrlfOf(c) /\ CrlfOf(c) \in Seq(C)
<1>1. \A c \in C : CrlfOf(c) \in Seq(C)
  BY DEF CrlfOf
<1>2. \A x \in Seq(C) \X C : x[1] \o CrlfOf(x[2]) \in Seq(C)
  <2> SUFFICES ASSUME NEW x \in Seq(C) \X C PROVE x[1] \o CrlfOf(x[2]) \in Seq(C)
    OBVIOUS
  <2>1. x[1] \in Seq(C) /\ CrlfOf(x[2]) \in Seq(C)
    BY <1>1
  <2> QED
    BY <2>1, ConcatProperties
<1>3. <<>> \in Seq(C)
  OBVIOUS
<1> QED
  BY <1>1, <1>2, <1>3 DEF Steps, CrlfFn

\* It is a fold.
LEMMA CrlfIsFold ==
  ASSUME NEW C, {"cr", "lf"} \subseteq C, NEW s \in Seq(C)
  PROVE  ToCrlf(s) = LeftFold(CrlfFn(C), <<>>, s)
<1> DEFINE h == CrlfFn(C)
           A == Seq(C)
<1>0. Steps(h, <<>>, A, C)
  BY CrlfFnSteps
<1>1. \A r \in A, c \in C : h[<<r, c>>] = r \o CrlfOf(c)
  BY CrlfFnSteps
<1> HIDE DEF h, A
<1> DEFINE S == DOMAIN s
           F == CHOOSE it : Crlfs(it, s)
<1>2. \A T \in SUBSET S : T # {} => Max(T) \in S /\ s[Max(T)] \in C
  <2>1. S \subseteq 0..Len(s) /\ Len(s) \in Nat /\ \A i \in S : s[i] \in C
    BY LenProperties
  <2> QED
    BY <2>1, MaxIsGreatest
<1>3. PICK it \in [SUBSET S -> A] : Follows(it, h, <<>>, s)
  BY <1>0, LeftFoldExists
<1>4. ASSUME NEW T \in SUBSET S
      PROVE  it[T] = IF T = {} THEN <<>> ELSE it[T \ {Max(T)}] \o CrlfOf(s[Max(T)])
  <2>1. it[T] = IF T = {} THEN <<>> ELSE h[<<it[T \ {Max(T)}], s[Max(T)]>>]
    BY <1>3 DEF Follows
  <2>2. it[T \ {Max(T)}] \in A
    BY <1>3
  <2> QED
    BY <2>1, <2>2, <1>1, <1>2
<1>5. Crlfs(it, s)
  <2>1. it = [T \in SUBSET S |-> it[T]]
    BY <1>3
  <2> QED
    BY <1>4, <2>1 DEF Crlfs
<1>6. Crlfs(F, s)
  BY <1>5
<1>7. ToCrlf(s) = F[S]
  BY DEF ToCrlf, FoldLeft, MapThenFoldSet, Crlfs
<1> HIDE DEF F
<1>8. FollowsOn(F, A, h, <<>>, s)
  <2>1. ASSUME NEW T \in SUBSET S, T # {}, F[T \ {Max(T)}] \in A
        PROVE  F[T] = h[<<F[T \ {Max(T)}], s[Max(T)]>>]
    <3>1. F[T] = F[T \ {Max(T)}] \o CrlfOf(s[Max(T)])
      BY <1>6, <2>1 DEF Crlfs
    <3> QED
      BY <3>1, <1>1, <1>2, <2>1
  <2>2. F[{}] = <<>>
    BY <1>6 DEF Crlfs
  <2> QED
    BY <2>1, <2>2 DEF FollowsOn
<1>9. ToCrlf(s) = LeftFold(h, <<>>, s)
  BY <1>0, <1>7, <1>8, LeftFoldUnique
<1> QED
  BY <1>9 DEF h

\* One character after the other.
LEMMA CrlfGrows ==
  ASSUME NEW C, {"cr", "lf"} \subseteq C
  PROVE  /\ ToCrlf(<<>>) = <<>>
         /\ \A s \in Seq(C) : ToCrlf(s) \in Seq(C)
         /\ \A s \in Seq(C), c \in C : ToCrlf(Append(s, c)) = ToCrlf(s) \o CrlfOf(c)
<1> DEFINE h == CrlfFn(C)
           A == Seq(C)
<1>1. \A s \in Seq(C) : ToCrlf(s) = LeftFold(h, <<>>, s)
  BY CrlfIsFold
<1>2. Steps(h, <<>>, A, C) /\ \A r \in A, c \in C : h[<<r, c>>] = r \o CrlfOf(c)
  BY CrlfFnSteps
<1>a. \A s \in Seq(C), c \in C : Append(s, c) \in Seq(C)
  OBVIOUS
<1>e. <<>> \in Seq(C)
  OBVIOUS
<1> HIDE DEF h, A
<1>3. /\ LeftFold(h, <<>>, <<>>) = <<>>
      /\ \A s \in Seq(C) : LeftFold(h, <<>>, s) \in A
      /\ \A s \in Seq(C), e \in C : LeftFold(h, <<>>, Append(s, e)) = h[<<LeftFold(h, <<>>, s), e>>]
  BY <1>2, LeftFoldSteps
<1>4. ToCrlf(<<>>) = <<>>
  BY <1>1, <1>3, <1>e
<1>5. \A s \in Seq(C) : ToCrlf(s) \in A
  BY <1>1, <1>3
<1>6. ASSUME NEW s \in Seq(C), NEW c \in C PROVE ToCrlf(Append(s, c)) = ToCrlf(s) \o CrlfOf(c)
  <2>1. ToCrlf(Append(s, c)) = h[<<ToCrlf(s), c>>]
    BY <1>1, <1>3, <1>a
  <2> QED
    BY <1>2, <1>5, <2>1
<1> QED
  BY <1>4, <1>5, <1>6 DEF A

\* Two texts whose every break is CRLF make one.
LEMMA CrlfConcat ==
  ASSUME NEW C, NEW a \in Seq(C), NEW b \in Seq(C), Crlf(a), Crlf(b)
  PROVE  Crlf(a \o b)
<1> DEFINE t == a \o b
<1>1. /\ t \in Seq(C) /\ Len(t) = Len(a) + Len(b) /\ Len(a) \in Nat /\ Len(b) \in Nat
      /\ \A i \in 1..Len(a) + Len(b) : t[i] = IF i <= Len(a) THEN a[i] ELSE b[i - Len(a)]
  BY ConcatProperties
<1> HIDE DEF t
<1>2. \A i \in 1..Len(a) : t[i] = a[i]
  BY <1>1
<1>3. \A i \in 1..Len(b) : t[Len(a) + i] = b[i]
  BY <1>1
<1>4. ASSUME NEW i \in 1..Len(a)
      PROVE  (t[i] = "lf" => i > 1 /\ t[i - 1] = "cr") /\ (t[i] = "cr" => i < Len(t) /\ t[i + 1] = "lf")
  <2>1. (a[i] = "lf" => i > 1 /\ a[i - 1] = "cr") /\ (a[i] = "cr" => i < Len(a) /\ a[i + 1] = "lf")
    BY DEF Crlf
  <2>2. i > 1 => i - 1 \in 1..Len(a)
    OBVIOUS
  <2>3. i < Len(a) => i + 1 \in 1..Len(a) /\ i < Len(t)
    BY <1>1
  <2> QED
    BY <1>2, <2>1, <2>2, <2>3
<1>5. ASSUME NEW i \in 1..Len(b)
      PROVE  LET k == Len(a) + i
             IN (t[k] = "lf" => k > 1 /\ t[k - 1] = "cr") /\ (t[k] = "cr" => k < Len(t) /\ t[k + 1] = "lf")
  <2>1. (b[i] = "lf" => i > 1 /\ b[i - 1] = "cr") /\ (b[i] = "cr" => i < Len(b) /\ b[i + 1] = "lf")
    BY DEF Crlf
  <2>2. i > 1 => i - 1 \in 1..Len(b) /\ Len(a) + i > 1 /\ Len(a) + (i - 1) = (Len(a) + i) - 1
    BY <1>1
  <2>3. i < Len(b) => i + 1 \in 1..Len(b) /\ Len(a) + i < Len(t) /\ Len(a) + (i + 1) = (Len(a) + i) + 1
    BY <1>1
  <2> QED
    BY <1>3, <2>1, <2>2, <2>3
<1>6. ASSUME NEW k \in DOMAIN t
      PROVE  (t[k] = "lf" => k > 1 /\ t[k - 1] = "cr") /\ (t[k] = "cr" => k < Len(t) /\ t[k + 1] = "lf")
  <2>1. k \in 1..Len(a) \/ (k - Len(a) \in 1..Len(b) /\ k = Len(a) + (k - Len(a)))
    BY <1>1
  <2> QED
    BY <1>4, <1>5, <2>1
<1>7. Crlf(t)
  BY <1>6 DEF Crlf
<1> QED
  BY <1>7 DEF t

\* What the CRLF form of a text is.
CrlfSays(s, r) ==
  /\ ~Contains(s, "lf") => r = s
  /\ Contains(s, "lf") => \E k \in 1..(Len(r) - 1) : r[k] = "cr" /\ r[k + 1] = "lf"
  /\ s # <<>> => r # <<>>
  /\ ~Contains(s, "cr") => Crlf(r) /\ (r # <<>> => r[1] # "lf" /\ r[Len(r)] # "cr")

\* One more character.
LEMMA CrlfSaysNext ==
  ASSUME NEW C, {"cr", "lf"} \subseteq C, NEW s \in Seq(C), NEW r \in Seq(C), NEW c \in C, CrlfSays(s, r)
  PROVE  CrlfSays(Append(s, c), r \o CrlfOf(c))
<1> DEFINE x == CrlfOf(c)
           q == r \o x
           u == Append(s, c)
<1>1. x \in Seq(C) /\ (c = "lf" => x = <<"cr", "lf">>) /\ (c # "lf" => x = <<c>>)
  BY DEF CrlfOf
<1>2. /\ Len(s) \in Nat /\ u \in Seq(C) /\ Len(u) = Len(s) + 1 /\ u[Len(s) + 1] = c
      /\ \A i \in 1..Len(s) : u[i] = s[i]
  OBVIOUS
<1>3. /\ c = "lf" => Len(x) = 2 /\ x[1] = "cr" /\ x[2] = "lf"
      /\ c # "lf" => Len(x) = 1 /\ x[1] = c
  BY <1>1
<1> HIDE DEF x
<1>4. /\ q \in Seq(C) /\ Len(q) = Len(r) + Len(x) /\ Len(r) \in Nat /\ Len(x) \in Nat
      /\ \A i \in 1..Len(r) + Len(x) : q[i] = IF i <= Len(r) THEN r[i] ELSE x[i - Len(r)]
  BY <1>1, ConcatProperties
<1>5. Len(x) \in Nat /\ Len(x) >= 1
  BY <1>3
<1> HIDE DEF q, u
<1>6. (\A i \in 1..Len(r) : q[i] = r[i]) /\ \A i \in 1..Len(x) : q[Len(r) + i] = x[i]
  <2>1. \A i \in 1..Len(r) : i \in 1..Len(r) + Len(x) /\ i <= Len(r)
    BY <1>4
  <2>2. \A i \in 1..Len(x) : /\ Len(r) + i \in 1..Len(r) + Len(x) /\ ~(Len(r) + i <= Len(r))
                            /\ (Len(r) + i) - Len(r) = i
    BY <1>4
  <2> QED
    BY <1>4, <2>1, <2>2
<1>7. \A b : Contains(u, b) <=> Contains(s, b) \/ b = c
  <2> SUFFICES ASSUME NEW b PROVE Contains(u, b) <=> Contains(s, b) \/ b = c
    OBVIOUS
  <2>1. \A i \in 1..Len(u) : i \in 1..Len(s) \/ i = Len(s) + 1
    BY <1>2
  <2>2. \A i : i \in 1..Len(s) \/ i = Len(s) + 1 => i \in 1..Len(u)
    BY <1>2
  <2> QED
    BY <1>2, <2>1, <2>2 DEF Contains
<1>8. ASSUME ~Contains(u, "lf") PROVE q = u
  <2>1. r = s /\ c # "lf"
    BY <1>7, <1>8 DEF CrlfSays
  <2>2. Len(x) = 1 /\ x[1] = c
    BY <1>3, <2>1
  <2>3. Len(q) = Len(u)
    BY <1>2, <1>4, <2>1, <2>2
  <2>4. \A i \in 1..Len(u) : i \in 1..Len(s) \/ i = Len(s) + 1
    BY <1>2
  <2>5. \A i \in 1..Len(u) : q[i] = u[i]
    BY <1>2, <1>6, <2>1, <2>2, <2>4
  <2> QED
    BY <1>2, <1>4, <2>3, <2>5, SeqEqual
<1>9. ASSUME Contains(u, "lf") PROVE \E k \in 1..(Len(q) - 1) : q[k] = "cr" /\ q[k + 1] = "lf"
  <2>1. CASE Contains(s, "lf")
    <3>1. PICK k \in 1..(Len(r) - 1) : r[k] = "cr" /\ r[k + 1] = "lf"
      BY <2>1 DEF CrlfSays
    <3>2. k \in 1..(Len(q) - 1) /\ k \in 1..Len(r) /\ k + 1 \in 1..Len(r)
      BY <1>4
    <3> QED
      BY <1>6, <3>1, <3>2
  <2>2. CASE c = "lf"
    <3>1. Len(x) = 2 /\ x[1] = "cr" /\ x[2] = "lf"
      BY <1>3, <2>2
    <3>2. q[Len(r) + 1] = "cr" /\ q[Len(r) + 2] = "lf"
      BY <1>6, <3>1
    <3>3. Len(r) + 1 \in 1..(Len(q) - 1) /\ (Len(r) + 1) + 1 = Len(r) + 2
      BY <1>4, <3>1
    <3> QED
      BY <3>2, <3>3
  <2> QED
    BY <1>7, <1>9, <2>1, <2>2
<1>10. q # <<>>
  <2>1. Len(q) > 0
    BY <1>4, <1>5
  <2>2. q = <<>> => Len(q) = 0
    OBVIOUS
  <2> QED
    BY <2>1, <2>2
<1>11. ASSUME ~Contains(u, "cr") PROVE Crlf(q) /\ q[1] # "lf" /\ q[Len(q)] # "cr"
  <2>1. ~Contains(s, "cr") /\ c # "cr"
    BY <1>7, <1>11
  <2>2. Crlf(r) /\ (r # <<>> => r[1] # "lf" /\ r[Len(r)] # "cr")
    BY <2>1 DEF CrlfSays
  <2>3. Crlf(x)
    <3>1. CASE c = "lf"
      <4>1. DOMAIN x = 1..2 /\ Len(x) = 2 /\ x[1] = "cr" /\ x[2] = "lf"
        BY <1>1, <1>3, <3>1
      <4>2. \A i \in 1..2 : i = 1 \/ i = 2
        OBVIOUS
      <4> QED
        BY <4>1, <4>2 DEF Crlf
    <3>2. CASE c # "lf"
      <4>1. DOMAIN x = 1..1 /\ x[1] = c
        BY <1>1, <1>3, <3>2
      <4>2. \A i \in 1..1 : i = 1
        OBVIOUS
      <4> QED
        BY <2>1, <3>2, <4>1, <4>2 DEF Crlf
    <3> QED
      BY <3>1, <3>2
  <2>4. Crlf(q)
    BY <1>1, <2>2, <2>3, CrlfConcat DEF q
  <2>5. q[1] # "lf"
    <3>1. CASE r = <<>>
      <4>1. Len(r) = 0
        BY <3>1
      <4>3. 1 \in 1..Len(x) /\ 0 + 1 = 1
        BY <1>5
      <4>2. q[1] = x[1]
        BY <1>6, <4>1, <4>3
      <4> QED
        BY <1>3, <4>2
    <3>2. CASE r # <<>>
      <4>1. 1 \in 1..Len(r)
        BY <3>2
      <4> QED
        BY <1>6, <2>2, <3>2, <4>1
    <3> QED
      BY <3>1, <3>2
  <2>6. q[Len(q)] # "cr"
    <3>0. Len(x) \in 1..Len(x)
      BY <1>5
    <3>1. q[Len(q)] = x[Len(x)]
      BY <1>4, <1>6, <3>0
    <3> QED
      BY <1>3, <2>1, <3>1
  <2> QED
    BY <2>4, <2>5, <2>6
<1>12. CrlfSays(u, q)
  BY <1>8, <1>9, <1>10, <1>11 DEF CrlfSays
<1> QED
  BY <1>12 DEF u, q, x

\* What the CRLF form of a text is, for every text: the least text it would fail for has a
\* last character.
LEMMA CrlfIs ==
  ASSUME NEW C, {"cr", "lf"} \subseteq C, NEW s \in Seq(C)
  PROVE  ToCrlf(s) \in Seq(C) /\ CrlfSays(s, ToCrlf(s))
<1> DEFINE D == {u \in Seq(C) : CrlfSays(u, ToCrlf(u))}
<1>1. <<>> \in D
  <2>1. CrlfSays(<<>>, <<>>)
    BY DEF CrlfSays, Contains, Crlf
  <2>2. <<>> \in Seq(C)
    OBVIOUS
  <2> QED
    BY <2>1, <2>2, CrlfGrows
<1>2. ASSUME NEW u \in Seq(C), u \in D, NEW c \in C PROVE Append(u, c) \in D
  <2>1. CrlfSays(u, ToCrlf(u)) /\ ToCrlf(u) \in Seq(C) /\ ToCrlf(Append(u, c)) = ToCrlf(u) \o CrlfOf(c)
    BY <1>2, CrlfGrows
  <2>2. CrlfSays(Append(u, c), ToCrlf(u) \o CrlfOf(c))
    BY <2>1, CrlfSaysNext
  <2>3. Append(u, c) \in Seq(C)
    OBVIOUS
  <2> QED
    BY <2>1, <2>2, <2>3
<1>3. s \in D
  <2> HIDE DEF D
  <2> QED
    BY <1>1, <1>2, AllSequences
<1> QED
  BY <1>3, CrlfGrows

-----------------------------------------------------------------------------
(* An edit. *)

\* A place that matches, character by character.
LEMMA MatchIs ==
  ASSUME NEW C, NEW s \in Seq(C), NEW t \in Seq(C), NEW i \in Places(s, t)
  PROVE  /\ i \in Nat /\ i >= 1 /\ i + Len(s) <= Len(t) + 1
         /\ \A m \in 1..Len(s) : t[i + m - 1] = s[m]
<1>1. Len(s) \in Nat /\ Len(t) \in Nat /\ i \in Nat /\ i >= 1 /\ i + Len(s) <= Len(t) + 1
  BY DEF Places
<1> DEFINE a == i + Len(s) - 1
           u == SubSeq(t, i, a)
<1>2. u = s
  BY DEF Places, OccursAt
<1>3. i \in Int /\ a \in Int /\ \A m \in i..a : t[m] \in C
  BY <1>1
<1>4. a - i + 1 = Len(s)
  BY <1>1
<1>5. \A m \in 1..(a - i + 1) : u[m] = t[i + m - 1]
  <2> HIDE DEF a
  <2> QED
    BY <1>3, SubSeqProperties
<1> HIDE DEF u, a
<1> QED
  BY <1>1, <1>2, <1>4, <1>5

\* Where something with a CRLF in it matches, there is a CRLF.
LEMMA HasCrlf ==
  ASSUME NEW C, NEW s \in Seq(C), NEW t \in Seq(C), NEW i \in Places(s, t),
         NEW k \in 1..(Len(s) - 1), s[k] = "cr", s[k + 1] = "lf"
  PROVE  Places(<<"cr", "lf">>, t) # {}
<1> DEFINE p == i + k - 1
           b == <<"cr", "lf">>
<1>1. /\ i \in Nat /\ i >= 1 /\ i + Len(s) <= Len(t) + 1 /\ Len(s) \in Nat /\ Len(t) \in Nat
      /\ \A m \in 1..Len(s) : t[i + m - 1] = s[m]
  BY MatchIs
<1>2. k \in 1..Len(s) /\ k + 1 \in 1..Len(s) /\ i + (k + 1) - 1 = p + 1
  BY <1>1
<1>3. t[p] = "cr" /\ t[p + 1] = "lf" /\ p \in Nat /\ p >= 1 /\ p + 1 <= Len(t)
  BY <1>1, <1>2
<1> HIDE DEF p
<1> DEFINE u == SubSeq(t, p, p + 1)
<1>4. p \in Int /\ p + 1 \in Int /\ (p + 1) - p + 1 = 2 /\ p <= p + 1 /\ \A m \in p..(p + 1) : t[m] \in C
  BY <1>1, <1>3
<1>5. u \in Seq(C) /\ Len(u) = 2 /\ \A m \in 1..2 : u[m] = t[p + m - 1]
  <2>1. /\ u \in Seq(C) /\ Len(u) = IF p <= p + 1 THEN (p + 1) - p + 1 ELSE 0
        /\ \A m \in 1..((p + 1) - p + 1) : u[m] = t[p + m - 1]
    BY <1>4, SubSeqProperties
  <2> QED
    BY <1>4, <2>1
<1>6. u[1] = t[p + 1 - 1] /\ u[2] = t[p + 2 - 1] /\ p + 1 - 1 = p /\ p + 2 - 1 = p + 1
  BY <1>3, <1>5
<1>7. u[1] = "cr" /\ u[2] = "lf"
  BY <1>3, <1>6
<1>8. b \in Seq({"cr", "lf"} \cup C) /\ Len(b) = 2 /\ b[1] = "cr" /\ b[2] = "lf"
  OBVIOUS
<1>9. u \in Seq({"cr", "lf"} \cup C)
  BY <1>5, SeqMonotonic
<1> HIDE DEF u, b
<1>10. \A m \in 1..2 : m = 1 \/ m = 2
  OBVIOUS
<1>11. u = b
  BY <1>5, <1>7, <1>8, <1>9, <1>10, SeqEqual
<1>12. p + Len(b) - 1 = p + 1 /\ p \in 1..(Len(t) - Len(b) + 1)
  BY <1>1, <1>3, <1>8
<1>13. p \in Places(b, t)
  BY <1>11, <1>12 DEF Places, OccursAt, u
<1> QED
  BY <1>13 DEF b

\* What replace(s, r, 1) does if s matches once.
LEMMA ReplacesOne ==
  ASSUME NEW C, NEW s \in Seq(C), NEW t \in Seq(C), NEW r, Count(s, t) = 1
  PROVE  \E i \in Places(s, t) :
           /\ ReplaceFirst(s, r, t) = SubSeq(t, 1, i - 1) \o r \o SubSeq(t, i + Len(s), Len(t))
           /\ \A j \in Places(s, t) : j # i => ~Disjoint(s, i, j)
<1>1. PICK i \in Places(s, t) : \A j \in Places(s, t) : i <= j /\ (j # i => ~Disjoint(s, i, j))
  BY CountIs
<1> DEFINE k == CHOOSE k \in Places(s, t) : \A j \in Places(s, t) : k <= j
<1>2. k \in Places(s, t) /\ \A j \in Places(s, t) : k <= j
  BY <1>1
<1>3. ReplaceFirst(s, r, t) = SubSeq(t, 1, k - 1) \o r \o SubSeq(t, k + Len(s), Len(t))
  BY DEF ReplaceFirst
<1> HIDE DEF k
<1>4. k = i
  <2>1. k <= i /\ i <= k
    BY <1>1, <1>2
  <2>2. k \in Nat /\ i \in Nat
    BY <1>2, MatchIs
  <2> QED
    BY <2>1, <2>2
<1> QED
  BY <1>1, <1>3, <1>4

\* The cases of _edit.
LEMMA EditIs ==
  ASSUME NEW text, NEW old, NEW new
  PROVE  LET e == Edit(text, old, new)
             what == IF e.crlf THEN ToCrlf(old) ELSE old
         IN /\ e.crlf \in BOOLEAN
            /\ e.crlf <=> /\ Count(old, text) = 0 /\ Places(<<"cr", "lf">>, text) # {}
                          /\ Contains(old, "lf") /\ ~Contains(old, "cr") /\ Count(ToCrlf(old), text) > 0
            /\ e.ok <=> Count(what, text) = 1
            /\ e.ok => e.text = ReplaceFirst(what, IF e.crlf THEN NewFor(new) ELSE new, text)
            /\ ~e.ok => e.text = text
<1> DEFINE again == /\ Count(old, text) = 0 /\ Places(<<"cr", "lf">>, text) # {}
                    /\ Contains(old, "lf") /\ ~Contains(old, "cr")
           crlf == again /\ Count(ToCrlf(old), text) > 0
           what == IF crlf THEN ToCrlf(old) ELSE old
           ok == MatchesOnce(Count(what, text))
           e == Edit(text, old, new)
<1>1. /\ e.crlf = crlf /\ e.ok = ok
      /\ e.text = IF ok THEN ReplaceFirst(what, IF crlf THEN NewFor(new) ELSE new, text) ELSE text
  BY DEF Edit
<1>2. ok <=> Count(what, text) = 1
  BY DEF MatchesOnce
<1>3. crlf \in BOOLEAN
  OBVIOUS
<1> HIDE DEF ok, e
<1> QED
  BY <1>1, <1>2, <1>3 DEF e

\* edit_file replaces one span, and only if it is the only one that matches.
LEMMA EditsOneSpan ==
  ASSUME NEW C, {"cr", "lf"} \subseteq C, NEW text \in Seq(C), NEW old \in Seq(C), NEW new \in Seq(C)
  PROVE  OneSpan(text, old, new)
<1> DEFINE e == Edit(text, old, new)
           what == IF e.crlf THEN ToCrlf(old) ELSE old
           put == IF e.crlf THEN NewFor(new) ELSE new
<1>1. /\ e.crlf \in BOOLEAN
      /\ e.crlf <=> /\ Count(old, text) = 0 /\ Places(<<"cr", "lf">>, text) # {}
                    /\ Contains(old, "lf") /\ ~Contains(old, "cr") /\ Count(ToCrlf(old), text) > 0
      /\ e.ok <=> Count(what, text) = 1
      /\ e.ok => e.text = ReplaceFirst(what, put, text)
      /\ ~e.ok => e.text = text
  BY EditIs
<1>o. OneSpan(text, old, new) <=>
        IF e.ok
        THEN \E i \in Places(what, text) :
               /\ e.text = SubSeq(text, 1, i - 1) \o put \o SubSeq(text, i + Len(what), Len(text))
               /\ \A j \in Places(what, text) : j # i => ~Disjoint(what, i, j)
               /\ e.crlf => Places(old, text) = {}
        ELSE /\ e.text = text
             /\ \/ Twice(what, text)
                \/ Places(old, text) = {} /\ (Contains(old, "cr") \/ Places(ToCrlf(old), text) = {})
  BY DEF OneSpan
<1>2. ToCrlf(old) \in Seq(C) /\ CrlfSays(old, ToCrlf(old))
  BY CrlfIs
<1> HIDE DEF e
<1>3. what \in Seq(C)
  BY <1>1, <1>2
<1>4. (e.crlf => what = ToCrlf(old)) /\ (~e.crlf => what = old)
  OBVIOUS
<1> HIDE DEF what, put
<1>5. e.crlf => Places(old, text) = {}
  BY <1>1, CountIs
<1>6. CASE e.ok
  <2>1. PICK i \in Places(what, text) :
          /\ ReplaceFirst(what, put, text) = SubSeq(text, 1, i - 1) \o put \o SubSeq(text, i + Len(what), Len(text))
          /\ \A j \in Places(what, text) : j # i => ~Disjoint(what, i, j)
    BY <1>1, <1>3, <1>6, ReplacesOne
  <2> QED
    BY <1>1, <1>5, <1>6, <1>o, <2>1
<1>7. CASE ~e.ok
  <2>1. Count(what, text) \in Nat /\ (Count(what, text) = 0 => Places(what, text) = {})
        /\ (Count(what, text) > 1 => Twice(what, text))
    BY <1>3, CountIs
  <2>2. CASE Count(what, text) > 1
    BY <1>1, <1>7, <1>o, <2>1, <2>2
  <2>3. CASE Count(what, text) = 0
    <3>1. ~e.crlf /\ what = old
      BY <1>1, <1>4, <2>3
    <3>2. Places(old, text) = {} /\ Count(old, text) = 0
      BY <2>1, <2>3, <3>1
    <3>3. ASSUME ~Contains(old, "cr") PROVE Places(ToCrlf(old), text) = {}
      <4>1. CASE ~Contains(old, "lf")
        BY <1>2, <3>2, <4>1 DEF CrlfSays
      <4>2. CASE Contains(old, "lf") /\ Places(<<"cr", "lf">>, text) = {}
        <5>1. PICK k \in 1..(Len(ToCrlf(old)) - 1) : ToCrlf(old)[k] = "cr" /\ ToCrlf(old)[k + 1] = "lf"
          BY <1>2, <4>2 DEF CrlfSays
        <5> QED
          BY <1>2, <4>2, <5>1, HasCrlf
      <4>3. CASE Contains(old, "lf") /\ Places(<<"cr", "lf">>, text) # {}
        <5>1. ~(Count(ToCrlf(old), text) > 0)
          BY <1>1, <3>1, <3>2, <3>3, <4>3
        <5>2. Count(ToCrlf(old), text) = 0
          BY <1>2, <5>1, CountIs
        <5> QED
          BY <1>2, <5>2, CountIs
      <4> QED
        BY <4>1, <4>2, <4>3
    <3> QED
      BY <1>1, <1>7, <1>o, <3>2, <3>3
  <2> QED
    BY <1>1, <1>7, <2>1, <2>2, <2>3
<1> QED
  BY <1>6, <1>7

\* What is before a character that is no LF, and what is after one that is no CR.
LEMMA PartsCrlf ==
  ASSUME NEW C, NEW t \in Seq(C), Crlf(t)
  PROVE  /\ \A i \in 1..Len(t) : t[i] # "lf" => Crlf(SubSeq(t, 1, i - 1))
         /\ \A i \in 1..Len(t) : t[i] # "cr" => Crlf(SubSeq(t, i + 1, Len(t)))
<1>0. /\ Len(t) \in Nat /\ DOMAIN t = 1..Len(t) /\ \A i \in 1..Len(t) : t[i] \in C
      /\ \A i \in 1..Len(t) : /\ t[i] = "lf" => i > 1 /\ t[i - 1] = "cr"
                              /\ t[i] = "cr" => i < Len(t) /\ t[i + 1] = "lf"
  BY LenProperties DEF Crlf
<1>1. ASSUME NEW i \in 1..Len(t), t[i] # "lf" PROVE Crlf(SubSeq(t, 1, i - 1))
  <2> DEFINE u == SubSeq(t, 1, i - 1)
  <2>1. i - 1 \in Int /\ i \in Nat /\ i >= 1 /\ \A m \in 1..(i - 1) : t[m] \in C
    BY <1>0
  <2>2. /\ u \in Seq(C) /\ Len(u) = IF 1 <= i - 1 THEN (i - 1) - 1 + 1 ELSE 0
        /\ \A m \in 1..((i - 1) - 1 + 1) : u[m] = t[1 + m - 1]
    BY <2>1, SubSeqProperties
  <2> HIDE DEF u
  <2>3. Len(u) = i - 1 /\ DOMAIN u = 1..(i - 1)
    BY <2>1, <2>2
  <2>4. \A m \in 1..(i - 1) : u[m] = t[m]
    <3>1. (i - 1) - 1 + 1 = i - 1 /\ \A m \in 1..(i - 1) : 1 + m - 1 = m
      BY <2>1
    <3> QED
      BY <2>2, <3>1
  <2>5. ASSUME NEW m \in 1..(i - 1)
        PROVE  (u[m] = "lf" => m > 1 /\ u[m - 1] = "cr") /\ (u[m] = "cr" => m < Len(u) /\ u[m + 1] = "lf")
    <3>1. m \in 1..Len(t) /\ (m > 1 => m - 1 \in 1..(i - 1))
      BY <1>0, <2>1
    <3>2. u[m] = "lf" => m > 1 /\ u[m - 1] = "cr"
      BY <1>0, <2>4, <3>1
    <3>3. ASSUME u[m] = "cr" PROVE m < Len(u) /\ u[m + 1] = "lf"
      <4>1. t[m + 1] = "lf"
        BY <1>0, <2>4, <3>1, <3>3
      <4>2. m + 1 # i
        BY <1>1, <4>1
      <4>3. m + 1 \in 1..(i - 1)
        BY <2>1, <4>2
      <4> QED
        BY <2>3, <2>4, <4>1, <4>3
    <3> QED
      BY <3>2, <3>3
  <2>6. Crlf(u)
    BY <2>3, <2>5 DEF Crlf
  <2> QED
    BY <2>6 DEF u
<1>2. ASSUME NEW i \in 1..Len(t), t[i] # "cr" PROVE Crlf(SubSeq(t, i + 1, Len(t)))
  <2> DEFINE u == SubSeq(t, i + 1, Len(t))
             n == Len(t) - i
  <2>1. i \in Nat /\ i >= 1 /\ i <= Len(t) /\ i + 1 \in Int /\ n \in Nat
    BY <1>0
  <2>a. \A m \in (i + 1)..Len(t) : t[m] \in C
    BY <1>0, <2>1
  <2>2. /\ u \in Seq(C) /\ Len(u) = IF i + 1 <= Len(t) THEN Len(t) - (i + 1) + 1 ELSE 0
        /\ \A m \in 1..(Len(t) - (i + 1) + 1) : u[m] = t[(i + 1) + m - 1]
    BY <1>0, <2>1, <2>a, SubSeqProperties
  <2>b. Len(t) - (i + 1) + 1 = n
    BY <1>0, <2>1
  <2> HIDE DEF u
  <2>3. Len(u) = n /\ DOMAIN u = 1..n
    <3>0. \A k, m \in Nat : k <= m /\ ~(k + 1 <= m) => m - k = 0
      OBVIOUS
    <3>1. ~(i + 1 <= Len(t)) => n = 0
      BY <1>0, <2>1, <3>0
    <3>2. Len(u) = n
      BY <2>2, <2>b, <3>1
    <3> QED
      BY <2>2, <3>2, LenProperties
  <2>4. \A m \in 1..n : u[m] = t[i + m]
    <3>1. \A m \in 1..n : (i + 1) + m - 1 = i + m
      BY <2>1
    <3> QED
      BY <2>2, <2>b, <3>1
  <2>5. ASSUME NEW m \in 1..n
        PROVE  (u[m] = "lf" => m > 1 /\ u[m - 1] = "cr") /\ (u[m] = "cr" => m < Len(u) /\ u[m + 1] = "lf")
    <3>1. /\ i + m \in 1..Len(t) /\ (m > 1 => m - 1 \in 1..n /\ i + (m - 1) = (i + m) - 1)
          /\ (i + m < Len(t) => m + 1 \in 1..n /\ i + (m + 1) = (i + m) + 1) /\ (m = 1 => (i + m) - 1 = i)
      BY <1>0, <2>1
    <3>2. ASSUME u[m] = "lf" PROVE m > 1 /\ u[m - 1] = "cr"
      <4>1. t[(i + m) - 1] = "cr"
        BY <1>0, <2>4, <3>1, <3>2
      <4>2. m # 1
        BY <1>2, <3>1, <4>1
      <4>3. m > 1
        BY <2>1, <4>2
      <4> QED
        BY <2>4, <3>1, <4>1, <4>3
    <3>3. ASSUME u[m] = "cr" PROVE m < Len(u) /\ u[m + 1] = "lf"
      <4>1. i + m < Len(t) /\ t[(i + m) + 1] = "lf"
        BY <1>0, <2>4, <3>1, <3>3
      <4>2. m < n
        BY <2>1, <4>1, <1>0
      <4> QED
        BY <2>3, <2>4, <3>1, <4>1, <4>2
    <3> QED
      BY <3>2, <3>3
  <2>6. Crlf(u)
    BY <2>3, <2>5 DEF Crlf
  <2> QED
    BY <2>6 DEF u
<1> QED
  BY <1>1, <1>2

\* The pieces of a sequence.
LEMMA PartsType ==
  ASSUME NEW C, NEW t \in Seq(C), NEW i \in Nat, NEW j \in Nat, i >= 1, j >= 1, i <= Len(t) + 1
  PROVE  SubSeq(t, 1, i - 1) \in Seq(C) /\ SubSeq(t, j, Len(t)) \in Seq(C)
<1>1. Len(t) \in Nat /\ \A m \in 1..Len(t) : t[m] \in C
  BY LenProperties
<1>2. (\A m \in 1..(i - 1) : t[m] \in C) /\ \A m \in j..Len(t) : t[m] \in C
  BY <1>1
<1>3. i - 1 \in Int /\ j \in Int /\ Len(t) \in Int /\ 1 \in Int
  BY <1>1
<1> QED
  BY <1>2, <1>3, SubSeqProperties

\* In a file of CRLF breaks, what has LF alone after its first character is nowhere.
LEMMA NotAsGiven ==
  ASSUME NEW C, NEW text \in Seq(C), NEW old \in Seq(C), Crlf(text), ~Contains(old, "cr"),
         NEW i \in 2..Len(old), old[i] = "lf"
  PROVE  Places(old, text) = {}
<1> SUFFICES ASSUME NEW k \in Places(old, text) PROVE FALSE
  OBVIOUS
<1>1. /\ k \in Nat /\ k >= 1 /\ k + Len(old) <= Len(text) + 1
      /\ \A m \in 1..Len(old) : text[k + m - 1] = old[m]
  BY MatchIs
<1>2. Len(old) \in Nat /\ Len(text) \in Nat /\ DOMAIN text = 1..Len(text)
  BY LenProperties
<1>3. i \in 1..Len(old) /\ i - 1 \in 1..Len(old) /\ k + (i - 1) - 1 = (k + i - 1) - 1 /\ k + i - 1 \in 1..Len(text)
  BY <1>1, <1>2
<1>4. text[k + i - 1] = "lf" /\ text[(k + i - 1) - 1] = old[i - 1]
  BY <1>1, <1>3
<1>5. old[i - 1] = "cr"
  BY <1>2, <1>3, <1>4 DEF Crlf
<1> QED
  BY <1>3, <1>5 DEF Contains

\* edit_file leaves a file of CRLF breaks one.
LEMMA EditKeepsCrlf ==
  ASSUME NEW C, {"cr", "lf"} \subseteq C, NEW text \in Seq(C), NEW old \in Seq(C), NEW new \in Seq(C)
  PROVE  StaysCrlf(text, old, new)
<1> SUFFICES ASSUME Crlf(text), NEW i \in 2..Len(old), old[i] = "lf",
                    ~Contains(old, "cr"), ~Contains(new, "cr")
             PROVE  Crlf(Edit(text, old, new).text)
  BY DEF StaysCrlf
<1> DEFINE e == Edit(text, old, new)
           what == IF e.crlf THEN ToCrlf(old) ELSE old
           put == IF e.crlf THEN NewFor(new) ELSE new
<1>1. /\ e.crlf \in BOOLEAN
      /\ e.ok <=> Count(what, text) = 1
      /\ e.ok => e.text = ReplaceFirst(what, put, text)
      /\ ~e.ok => e.text = text
  BY EditIs
<1> HIDE DEF e
<1>2. CASE ~e.ok
  BY <1>1, <1>2 DEF e
<1>3. CASE e.ok /\ ~e.crlf
  <2>1. Count(old, text) = 1
    BY <1>1, <1>3
  <2>2. Places(old, text) # {}
    BY <2>1, ReplacesOne
  <2> QED
    BY <2>2, NotAsGiven
<1>4. CASE e.ok /\ e.crlf
  <2> DEFINE w == ToCrlf(old)
             p == ToCrlf(new)
  <2>1. /\ w \in Seq(C) /\ CrlfSays(old, w) /\ p \in Seq(C) /\ CrlfSays(new, p)
    BY CrlfIs
  <2>2. NewFor(new) = p
    BY DEF NewFor
  <2>3. e.text = ReplaceFirst(w, p, text) /\ Count(w, text) = 1
    BY <1>1, <1>4, <2>2
  <2> HIDE DEF w, p
  <2>4. PICK k \in Places(w, text) :
          ReplaceFirst(w, p, text) = SubSeq(text, 1, k - 1) \o p \o SubSeq(text, k + Len(w), Len(text))
    BY <2>1, <2>3, ReplacesOne
  <2>5. /\ k \in Nat /\ k >= 1 /\ k + Len(w) <= Len(text) + 1
        /\ \A m \in 1..Len(w) : text[k + m - 1] = w[m]
    BY <2>1, MatchIs
  <2>6. w # <<>> /\ w[1] # "lf" /\ w[Len(w)] # "cr" /\ Crlf(p)
    <3>1. old # <<>>
      OBVIOUS
    <3> QED
      BY <2>1, <3>1 DEF CrlfSays
  <2>7. Len(w) \in Nat /\ Len(w) >= 1 /\ Len(text) \in Nat
    BY <2>1, <2>6
  <2>8. text[k] # "lf" /\ k \in 1..Len(text)
    <3>1. 1 \in 1..Len(w) /\ k + 1 - 1 = k
      BY <2>5, <2>7
    <3> QED
      BY <2>5, <2>6, <2>7, <3>1
  <2>9. text[k + Len(w) - 1] # "cr" /\ k + Len(w) - 1 \in 1..Len(text) /\ (k + Len(w) - 1) + 1 = k + Len(w)
    <3>1. Len(w) \in 1..Len(w)
      BY <2>7
    <3> QED
      BY <2>5, <2>6, <2>7, <3>1
  <2> DEFINE a == SubSeq(text, 1, k - 1)
             b == SubSeq(text, k + Len(w), Len(text))
  <2>10. Crlf(a)
    BY <2>8, PartsCrlf
  <2>11. Crlf(b)
    <3>1. Crlf(SubSeq(text, (k + Len(w) - 1) + 1, Len(text)))
      BY <2>9, PartsCrlf
    <3> QED
      BY <2>9, <3>1
  <2>12. a \in Seq(C) /\ b \in Seq(C)
    <3>1. k + Len(w) \in Nat /\ k + Len(w) >= 1 /\ k <= Len(text) + 1
      BY <2>5, <2>7
    <3> QED
      BY <2>5, <3>1, PartsType
  <2>13. e.text = (a \o p) \o b
    BY <2>3, <2>4
  <2> HIDE DEF a, b
  <2>14. a \o p \in Seq(C) /\ Crlf(a \o p)
    BY <2>1, <2>6, <2>10, <2>12, CrlfConcat, ConcatProperties
  <2>15. Crlf((a \o p) \o b)
    BY <2>11, <2>12, <2>14, CrlfConcat
  <2> QED
    BY <2>13, <2>15 DEF e
<1> QED
  BY <1>1, <1>2, <1>3, <1>4

\* edit_file: one span changes, and it is the only one that matches.
THEOREM EditChangesOneSpan ==
  ASSUME NEW C, {"cr", "lf"} \subseteq C,
         call \in [tool : {"edit"}, text : Seq(C), old : Seq(C), new : Seq(C)]
  PROVE  OnlySpanChanges
<1>1. call.text \in Seq(C) /\ call.old \in Seq(C) /\ call.new \in Seq(C)
  OBVIOUS
<1> QED
  BY <1>1, EditsOneSpan DEF OnlySpanChanges

\* edit_file: a file of CRLF breaks stays one.
THEOREM EditStaysCrlf ==
  ASSUME NEW C, {"cr", "lf"} \subseteq C,
         call \in [tool : {"edit"}, text : Seq(C), old : Seq(C), new : Seq(C)]
  PROVE  CrlfKept
<1>1. call.text \in Seq(C) /\ call.old \in Seq(C) /\ call.new \in Seq(C)
  OBVIOUS
<1> QED
  BY <1>1, EditKeepsCrlf DEF CrlfKept

-----------------------------------------------------------------------------
(* Similarities. *)

\* Products are monotone.
LEMMA Times == \A a, b, c \in Nat : a <= b => a * c <= b * c
OBVIOUS

\* And strictly so for what is not 0.
LEMMA TimesLess == \A a, b \in Nat, c \in Nat \ {0} : a < b => a * c < b * c
OBVIOUS

\* What is more than a similarity is more than one that is no more than it.
LEMMA MoreTrans ==
  ASSUME NEW a \in Nat, NEW c \in Nat, NEW e \in Nat, NEW b \in Nat \ {0}, NEW d \in Nat \ {0},
         NEW f \in Nat \ {0}, More(<<a, b>>, <<c, d>>), ~More(<<e, f>>, <<c, d>>)
  PROVE  More(<<a, b>>, <<e, f>>)
<1>1. c * b < a * d /\ e * d <= c * f
  BY DEF More
<1>2. (c * b) * f < (a * d) * f
  BY <1>1, TimesLess
<1>3. (e * d) * b <= (c * f) * b
  BY <1>1, Times
<1>4. (c * b) * f = (c * f) * b /\ (e * d) * b = (e * b) * d /\ (a * d) * f = (a * f) * d
  OBVIOUS
<1>5. (e * b) * d < (a * f) * d
  BY <1>2, <1>3, <1>4
<1>6. a * f > e * b
  BY <1>5, Times
<1> QED
  BY <1>6 DEF More

\* No two similarities are more than each other.
LEMMA MoreNot ==
  ASSUME NEW a \in Nat, NEW c \in Nat, NEW b \in Nat, NEW d \in Nat, More(<<a, b>>, <<c, d>>)
  PROVE  ~More(<<c, d>>, <<a, b>>)
<1>1. a * d > c * b /\ a * d \in Nat /\ c * b \in Nat
  BY DEF More
<1> QED
  BY <1>1 DEF More

\* A higher bound is more than what a similarity is more than.
LEMMA MoreBound ==
  ASSUME NEW a \in Nat, NEW k \in Nat, NEW b \in Nat, NEW c \in Nat, NEW d \in Nat, a <= k,
         More(<<a, b>>, <<c, d>>)
  PROVE  More(<<k, b>>, <<c, d>>)
<1>1. a * d > c * b /\ a * d <= k * d /\ a * d \in Nat /\ k * d \in Nat /\ c * b \in Nat
  BY Times DEF More
<1> QED
  BY <1>1 DEF More

\* What is good enough is more than what is not.
LEMMA GoodMore ==
  ASSUME NEW a \in Nat, NEW c \in Nat, NEW b \in Nat \ {0}, NEW d \in Nat \ {0},
         GoodEnough(<<a, b>>), ~GoodEnough(<<c, d>>)
  PROVE  More(<<a, b>>, <<c, d>>)
<1>0. 4 * a >= b /\ ~(4 * c >= d)
  BY DEF GoodEnough
<1>1. b * c <= (4 * a) * c
  BY <1>0, Times
<1>2. (4 * c) * a < d * a
  <2>1. a \in Nat \ {0}
    BY <1>0
  <2> QED
    BY <1>0, <2>1, TimesLess
<1>3. (4 * a) * c = (4 * c) * a /\ b * c = c * b /\ d * a = a * d
  OBVIOUS
<1>4. a * d > c * b
  BY <1>1, <1>2, <1>3
<1> QED
  BY <1>4 DEF More

-----------------------------------------------------------------------------
(* The best of the windows. *)

BestFn(old, windows) == [x \in Nat \X Nat |-> Better(old, windows, x[1], x[2])]
BestOf(old, windows, s) == FoldLeft(LAMBDA b, i : Better(old, windows, b, i), 0, s)

\* The iteration that it is.
Bests(it, old, windows, s) ==
  it = [T \in SUBSET DOMAIN s |-> IF T = {} THEN 0 ELSE Better(old, windows, it[T \ {Max(T)}], s[Max(T)])]

\* Its step is a function.
LEMMA BestFnSteps ==
  ASSUME NEW old, NEW windows
  PROVE  /\ Steps(BestFn(old, windows), 0, Nat, Nat)
         /\ \A b, i \in Nat : BestFn(old, windows)[<<b, i>>] = Better(old, windows, b, i)
<1>1. \A b, i \in Nat : Better(old, windows, b, i) \in Nat
  <2> SUFFICES ASSUME NEW b \in Nat, NEW i \in Nat PROVE Better(old, windows, b, i) \in Nat
    OBVIOUS
  <2>1. Better(old, windows, b, i) = i \/ Better(old, windows, b, i) = b
    BY Zenon DEF Better
  <2> QED
    BY <2>1
<1>2. \A x \in Nat \X Nat : Better(old, windows, x[1], x[2]) \in Nat
  BY <1>1
<1> QED
  BY <1>2 DEF Steps, BestFn

\* It is a fold.
LEMMA BestIsFold ==
  ASSUME NEW old, NEW windows, NEW s \in Seq(Nat)
  PROVE  BestOf(old, windows, s) = LeftFold(BestFn(old, windows), 0, s)
<1> DEFINE h == BestFn(old, windows)
<1>0. Steps(h, 0, Nat, Nat)
  BY BestFnSteps
<1>1. \A b, i \in Nat : h[<<b, i>>] = Better(old, windows, b, i)
  BY BestFnSteps
<1> HIDE DEF h
<1> DEFINE S == DOMAIN s
           F == CHOOSE it : Bests(it, old, windows, s)
<1>2. \A T \in SUBSET S : T # {} => Max(T) \in S /\ s[Max(T)] \in Nat
  <2>1. S \subseteq 0..Len(s) /\ Len(s) \in Nat /\ \A i \in S : s[i] \in Nat
    BY LenProperties
  <2> QED
    BY <2>1, MaxIsGreatest
<1>3. PICK it \in [SUBSET S -> Nat] : Follows(it, h, 0, s)
  BY <1>0, LeftFoldExists
<1>4. ASSUME NEW T \in SUBSET S
      PROVE  it[T] = IF T = {} THEN 0 ELSE Better(old, windows, it[T \ {Max(T)}], s[Max(T)])
  <2>1. it[T] = IF T = {} THEN 0 ELSE h[<<it[T \ {Max(T)}], s[Max(T)]>>]
    BY <1>3 DEF Follows
  <2> QED
    BY <2>1, <1>1, <1>2, <1>3
<1>5. Bests(it, old, windows, s)
  BY <1>4 DEF Bests
<1>6. Bests(F, old, windows, s)
  BY <1>5
<1>7. BestOf(old, windows, s) = F[S]
  BY DEF BestOf, FoldLeft, MapThenFoldSet, Bests
<1> HIDE DEF F
<1>8. FollowsOn(F, Nat, h, 0, s)
  <2>1. ASSUME NEW T \in SUBSET S, T # {}, F[T \ {Max(T)}] \in Nat
        PROVE  F[T] = h[<<F[T \ {Max(T)}], s[Max(T)]>>]
    <3>1. F[T] = Better(old, windows, F[T \ {Max(T)}], s[Max(T)])
      BY <1>6, <2>1 DEF Bests
    <3> QED
      BY <3>1, <1>1, <1>2, <2>1
  <2>2. F[{}] = 0
    BY <1>6 DEF Bests
  <2> QED
    BY <2>1, <2>2 DEF FollowsOn
<1>9. BestOf(old, windows, s) = LeftFold(h, 0, s)
  BY <1>0, <1>7, <1>8, LeftFoldUnique
<1> QED
  BY <1>9 DEF h

\* One window after the other.
LEMMA BestGrows ==
  ASSUME NEW old, NEW windows
  PROVE  /\ BestOf(old, windows, Upto(0)) = 0
         /\ \A n \in Nat : /\ BestOf(old, windows, Upto(n)) \in Nat
                           /\ BestOf(old, windows, Upto(n + 1))
                                = Better(old, windows, BestOf(old, windows, Upto(n)), n + 1)
<1> DEFINE h == BestFn(old, windows)
<1>1. \A s \in Seq(Nat) : BestOf(old, windows, s) = LeftFold(h, 0, s)
  BY BestIsFold
<1>2. Steps(h, 0, Nat, Nat) /\ \A b, i \in Nat : h[<<b, i>>] = Better(old, windows, b, i)
  BY BestFnSteps
<1> HIDE DEF h
<1>3. /\ LeftFold(h, 0, <<>>) = 0
      /\ \A s \in Seq(Nat) : LeftFold(h, 0, s) \in Nat
      /\ \A s \in Seq(Nat), e \in Nat : LeftFold(h, 0, Append(s, e)) = h[<<LeftFold(h, 0, s), e>>]
  BY <1>2, LeftFoldSteps
<1>4. BestOf(old, windows, Upto(0)) = 0
  <2>1. <<>> \in Seq(Nat) /\ Upto(0) = <<>>
    BY UptoIs
  <2> QED
    BY <1>1, <1>3, <2>1
<1>5. ASSUME NEW n \in Nat
      PROVE  /\ BestOf(old, windows, Upto(n)) \in Nat
             /\ BestOf(old, windows, Upto(n + 1)) = Better(old, windows, BestOf(old, windows, Upto(n)), n + 1)
  <2>1. Upto(n) \in Seq(Nat) /\ Upto(n + 1) \in Seq(Nat) /\ Upto(n + 1) = Append(Upto(n), n + 1) /\ n + 1 \in Nat
    <3>1. n + 1 \in Nat
      OBVIOUS
    <3> QED
      BY <3>1, UptoIs, Zenon
  <2>2. BestOf(old, windows, Upto(n)) = LeftFold(h, 0, Upto(n)) /\ LeftFold(h, 0, Upto(n)) \in Nat
    BY <1>1, <1>3, <2>1
  <2>3. BestOf(old, windows, Upto(n + 1)) = h[<<LeftFold(h, 0, Upto(n)), n + 1>>]
    BY <1>1, <1>3, <2>1
  <2> QED
    BY <1>2, <2>1, <2>2, <2>3
<1> QED
  BY <1>4, <1>5

\* A window of a text that is compared with one of length old: difflib matches no more
\* characters than either has, and quick_ratio is a bound on these.
Window(old) ==
  {w \in [len : Nat, common : Nat, bound : Nat] : w.common <= w.bound /\ w.common <= old /\ w.common <= w.len}

Short(old, w) == w.len <= MaxWindow(old)

\* The best of the first n windows, of those that are not too long.
IsBest(b, n, old, windows) ==
  /\ b \in 0..n
  /\ b = 0 => \A i \in 1..n : Short(old, windows[i]) => windows[i].common = 0
  /\ b # 0 => /\ Short(old, windows[b])
              /\ \A i \in 1..n : Short(old, windows[i]) =>
                   /\ ~More(Similarity(old, windows[i]), Similarity(old, windows[b]))
                   /\ i < b => More(Similarity(old, windows[b]), Similarity(old, windows[i]))

\* The numbers of a similarity.
LEMMA WindowIs ==
  ASSUME NEW old \in Nat \ {0}, NEW w \in Window(old)
  PROVE  /\ w.common \in Nat /\ w.len \in Nat /\ w.bound \in Nat /\ old + w.len \in Nat \ {0}
         /\ w.common <= w.bound /\ w.common <= old /\ w.common <= w.len
         /\ Similarity(old, w) = <<w.common, old + w.len>>
<1>1. w.common \in Nat /\ w.len \in Nat /\ w.bound \in Nat
  BY DEF Window
<1> QED
  BY <1>1 DEF Window, Similarity

\* One window more.
LEMMA BestNext ==
  ASSUME NEW old \in Nat \ {0}, NEW windows \in Seq(Window(old)), NEW n \in Nat, n + 1 <= Len(windows),
         NEW b, IsBest(b, n, old, windows)
  PROVE  IsBest(Better(old, windows, b, n + 1), n + 1, old, windows)
<1> DEFINE i == n + 1
           w == windows[i]
           s(j) == Similarity(old, windows[j])
           known == IF b = 0 THEN <<0, 1>> ELSE s(b)
           q == Better(old, windows, b, i)
<1>1. \A j \in 1..i : windows[j] \in Window(old)
  BY LenProperties
<1>2. b \in Nat /\ b <= n /\ i \in 1..i
  BY DEF IsBest
<1>3. \A j \in 1..i : j \in 1..n \/ j = i
  OBVIOUS
<1>w. /\ w.common \in Nat /\ w.len \in Nat /\ w.bound \in Nat /\ old + w.len \in Nat \ {0}
      /\ w.common <= w.bound /\ s(i) = <<w.common, old + w.len>>
  BY <1>1, <1>2, WindowIs
<1>4. CASE Short(old, w) /\ More(<<w.bound, old + w.len>>, known) /\ More(s(i), known)
  <2>1. q = i
    BY <1>4 DEF Better, Short
  <2>2. ASSUME NEW j \in 1..n, Short(old, windows[j]) PROVE More(s(i), s(j)) /\ ~More(s(j), s(i))
    <3> DEFINE v == windows[j]
    <3>v. /\ v.common \in Nat /\ v.len \in Nat /\ old + v.len \in Nat \ {0} /\ s(j) = <<v.common, old + v.len>>
      <4>1. j \in 1..i
        OBVIOUS
      <4> QED
        BY <1>1, <4>1, WindowIs
    <3>1. CASE b = 0
      <4>1. v.common = 0
        BY <2>2, <3>1 DEF IsBest
      <4>2. w.common \in Nat \ {0}
        BY <1>4, <1>w, <3>1 DEF More
      <4>3. w.common * (old + v.len) > 0 /\ v.common * (old + w.len) = 0
        <5>1. 0 * (old + v.len) < w.common * (old + v.len)
          BY <3>v, <4>2, TimesLess
        <5> QED
          BY <1>w, <3>v, <4>1, <5>1
      <4>4. More(<<w.common, old + w.len>>, <<v.common, old + v.len>>)
        BY <4>3 DEF More
      <4> QED
        BY <1>w, <3>v, <4>4, MoreNot
    <3>2. CASE b # 0
      <4> DEFINE k == windows[b]
      <4>k. /\ k.common \in Nat /\ k.len \in Nat /\ old + k.len \in Nat \ {0} /\ s(b) = <<k.common, old + k.len>>
        <5>1. b \in 1..i
          BY <1>2, <3>2
        <5> QED
          BY <1>1, <5>1, WindowIs
      <4>1. ~More(s(j), s(b))
        BY <2>2, <3>2 DEF IsBest
      <4>2. More(s(i), s(b))
        BY <1>4, <3>2
      <4> HIDE DEF k, v, w, s
      <4>3. More(<<w.common, old + w.len>>, <<v.common, old + v.len>>)
        BY <1>w, <3>v, <4>k, <4>1, <4>2, MoreTrans
      <4> QED
        BY <1>w, <3>v, <4>3, MoreNot
    <3> QED
      BY <3>1, <3>2
  <2>3. ~More(s(i), s(i))
    BY <1>w, MoreNot
  <2>4. Short(old, windows[i])
    BY <1>4
  <2>5. i # 0 /\ i \in 0..i
    OBVIOUS
  <2>6. \A j \in 1..i : Short(old, windows[j]) => ~More(s(j), s(i)) /\ (j < i => More(s(i), s(j)))
    BY <1>3, <2>2, <2>3
  <2>7. IsBest(i, i, old, windows)
    BY <2>4, <2>5, <2>6 DEF IsBest
  <2> QED
    BY <2>1, <2>7
<1>5. CASE ~(Short(old, w) /\ More(<<w.bound, old + w.len>>, known) /\ More(s(i), known))
  <2>1. q = b
    BY <1>5 DEF Better, Short
  <2>2. Short(old, w) => ~More(s(i), known)
    <3>1. CASE b = 0
      <4>1. More(<<w.common, old + w.len>>, <<0, 1>>) => More(<<w.bound, old + w.len>>, <<0, 1>>)
        BY <1>w, MoreBound
      <4> QED
        BY <1>5, <1>w, <3>1, <4>1
    <3>2. CASE b # 0
      <4> DEFINE k == windows[b]
      <4>k. /\ k.common \in Nat /\ k.len \in Nat /\ old + k.len \in Nat \ {0} /\ s(b) = <<k.common, old + k.len>>
        <5>1. b \in 1..i
          BY <1>2, <3>2
        <5> QED
          BY <1>1, <5>1, WindowIs
      <4>1. More(s(i), s(b)) => More(<<w.bound, old + w.len>>, s(b))
        <5> HIDE DEF k, w, s
        <5>1. More(<<w.common, old + w.len>>, <<k.common, old + k.len>>)
                => More(<<w.bound, old + w.len>>, <<k.common, old + k.len>>)
          BY <1>w, <4>k, MoreBound
        <5> QED
          BY <1>w, <4>k, <5>1
      <4> QED
        BY <1>5, <3>2, <4>1
    <3> QED
      BY <3>1, <3>2
  <2>3. CASE b = 0
    <3>1. ASSUME Short(old, w) PROVE w.common = 0
      <4>1. ~More(<<w.common, old + w.len>>, <<0, 1>>)
        BY <1>w, <2>2, <2>3, <3>1
      <4> QED
        BY <1>w, <4>1 DEF More
    <3>2. \A j \in 1..i : Short(old, windows[j]) => windows[j].common = 0
      BY <1>3, <2>3, <3>1 DEF IsBest
    <3>3. IsBest(b, i, old, windows)
      BY <1>2, <2>3, <3>2 DEF IsBest
    <3> QED
      BY <2>1, <3>3
  <2>4. CASE b # 0
    <3>1. Short(old, w) => ~More(s(i), s(b))
      BY <2>2, <2>4
    <3>2. b < i /\ b \in 0..i
      BY <1>2
    <3>3. /\ Short(old, windows[b])
          /\ \A j \in 1..n : Short(old, windows[j]) => ~More(s(j), s(b)) /\ (j < b => More(s(b), s(j)))
      BY <2>4 DEF IsBest
    <3>4. ~(i < b)
      BY <1>2
    <3>5. \A j \in 1..i : Short(old, windows[j]) => ~More(s(j), s(b)) /\ (j < b => More(s(b), s(j)))
      BY <1>3, <3>1, <3>3, <3>4
    <3>6. IsBest(b, i, old, windows)
      BY <2>4, <3>2, <3>3, <3>5 DEF IsBest
    <3> QED
      BY <2>1, <3>6
  <2> QED
    BY <2>3, <2>4
<1> QED
  BY <1>4, <1>5

\* The scan of the first n windows has the best of these.
LEMMA BestAll ==
  ASSUME NEW old \in Nat \ {0}, NEW windows \in Seq(Window(old)), NEW n \in Nat, n <= Len(windows)
  PROVE  IsBest(BestOf(old, windows, Upto(n)), n, old, windows)
<1> DEFINE Good == {m \in Nat : m <= Len(windows) => IsBest(BestOf(old, windows, Upto(m)), m, old, windows)}
<1>1. 0 \in Good
  <2>1. IsBest(0, 0, old, windows)
    BY DEF IsBest
  <2> QED
    BY <2>1, BestGrows
<1>2. ASSUME NEW m \in Good PROVE m + 1 \in Good
  <2> SUFFICES ASSUME m + 1 <= Len(windows)
               PROVE  IsBest(BestOf(old, windows, Upto(m + 1)), m + 1, old, windows)
    OBVIOUS
  <2> DEFINE b == BestOf(old, windows, Upto(m))
  <2>0. Len(windows) \in Nat /\ m \in Nat
    BY LenProperties
  <2>1. IsBest(b, m, old, windows)
    BY <2>0
  <2>2. BestOf(old, windows, Upto(m + 1)) = Better(old, windows, b, m + 1)
    BY <2>0, BestGrows
  <2> HIDE DEF b
  <2>3. IsBest(Better(old, windows, b, m + 1), m + 1, old, windows)
    BY <2>0, <2>1, BestNext
  <2> QED
    BY <2>2, <2>3
<1>3. Good \subseteq Nat
  OBVIOUS
<1> HIDE DEF Good
<1>4. Good = Nat
  BY <1>1, <1>2, <1>3, AllNumbers
<1> QED
  BY <1>4 DEF Good

\* A window that is too long is not good enough.
LEMMA TooLong ==
  ASSUME NEW old \in Nat \ {0}, NEW w \in Window(old), ~Short(old, w)
  PROVE  ~GoodEnough(Similarity(old, w))
<1>1. /\ w.common \in Nat /\ w.len \in Nat /\ w.common <= old /\ Similarity(old, w) = <<w.common, old + w.len>>
  BY WindowIs
<1>2. w.len > 3 * old
  BY <1>1 DEF Short, MaxWindow
<1>3. ~(4 * w.common >= old + w.len)
  BY <1>1, <1>2
<1> QED
  BY <1>1, <1>3 DEF GoodEnough

\* _closest_match quotes the best window there is.
LEMMA QuotesBest ==
  ASSUME NEW old \in Nat \ {0}, NEW windows \in Seq(Window(old)), NEW late \in Nat
  PROVE  BestHint(old, windows, late)
<1> DEFINE n == Len(windows)
           s(i) == Similarity(old, windows[i])
           b == BestOf(old, windows, Upto(n))
           hint == Closest(old, windows, late)
           inTime == old <= MaxOld /\ late > n
<1>1. n \in Nat /\ DOMAIN windows = 1..n /\ \A i \in 1..n : windows[i] \in Window(old)
  BY LenProperties
<1>2. IsBest(b, n, old, windows)
  BY <1>1, BestAll
<1>3. hint = IF old > MaxOld \/ late <= n \/ b = 0 THEN 0 ELSE IF GoodEnough(s(b)) THEN b ELSE 0
  <2>1. Upto(n) = [i \in DOMAIN windows |-> i]
    BY <1>1 DEF Upto
  <2> QED
    BY <2>1 DEF Closest, BestOf
<1>4. ASSUME NEW i \in 1..n
      PROVE  /\ windows[i].common \in Nat /\ old + windows[i].len \in Nat \ {0}
             /\ s(i) = <<windows[i].common, old + windows[i].len>>
             /\ ~Short(old, windows[i]) => ~GoodEnough(s(i))
  BY <1>1, TooLong, WindowIs
<1>5. inTime <=> ~(old > MaxOld \/ late <= n)
  BY <1>1, MaxOldOK
<1>6. \A i, j \in 1..n : GoodEnough(s(i)) /\ ~GoodEnough(s(j)) => More(s(i), s(j))
  <2> SUFFICES ASSUME NEW i \in 1..n, NEW j \in 1..n, GoodEnough(s(i)), ~GoodEnough(s(j))
               PROVE  More(s(i), s(j))
    OBVIOUS
  <2> HIDE DEF s
  <2> QED
    BY <1>4, GoodMore
<1>7. \A i, j \in 1..n : More(s(i), s(j)) => ~More(s(j), s(i))
  <2> SUFFICES ASSUME NEW i \in 1..n, NEW j \in 1..n, More(s(i), s(j)) PROVE ~More(s(j), s(i))
    OBVIOUS
  <2> HIDE DEF s
  <2> QED
    BY <1>4, MoreNot
<1>b. BestHint(old, windows, late) <=>
        IF hint = 0
        THEN ~inTime \/ \A i \in 1..n : ~GoodEnough(s(i))
        ELSE /\ inTime /\ GoodEnough(s(hint))
             /\ \A i \in 1..n : ~More(s(i), s(hint)) /\ (i < hint => More(s(hint), s(i)))
  BY <1>1 DEF BestHint
<1> HIDE DEF b, hint, inTime
<1>8. CASE inTime /\ b # 0 /\ GoodEnough(s(b))
  <2>1. hint = b /\ b \in 1..n
    BY <1>1, <1>2, <1>3, <1>5, <1>8 DEF IsBest
  <2>2. ASSUME NEW i \in 1..n PROVE ~More(s(i), s(b)) /\ (i < b => More(s(b), s(i)))
    <3>1. CASE Short(old, windows[i])
      BY <1>2, <1>8, <3>1 DEF IsBest
    <3>2. CASE ~Short(old, windows[i])
      <4>1. More(s(b), s(i))
        BY <1>4, <1>6, <1>8, <2>1, <3>2
      <4> QED
        BY <1>7, <2>1, <4>1
    <3> QED
      BY <3>1, <3>2
  <2> QED
    BY <1>8, <1>b, <2>1, <2>2
<1>9. CASE inTime /\ ~(b # 0 /\ GoodEnough(s(b)))
  <2>1. hint = 0
    BY <1>3, <1>9
  <2>2. ASSUME NEW i \in 1..n, GoodEnough(s(i)) PROVE FALSE
    <3>1. Short(old, windows[i])
      BY <1>4, <2>2
    <3>2. CASE b = 0
      <4>1. windows[i].common = 0
        BY <1>2, <3>1, <3>2 DEF IsBest
      <4>2. 4 * 0 >= old + windows[i].len
        BY <1>4, <2>2, <4>1 DEF GoodEnough
      <4> QED
        BY <1>4, <4>2
    <3>3. CASE b # 0
      <4>1. b \in 1..n /\ ~GoodEnough(s(b))
        BY <1>1, <1>2, <1>9, <3>3 DEF IsBest
      <4>2. More(s(i), s(b))
        BY <1>6, <2>2, <4>1
      <4> QED
        BY <1>2, <3>1, <3>3, <4>2 DEF IsBest
    <3> QED
      BY <3>2, <3>3
  <2> QED
    BY <1>b, <2>1, <2>2
<1>10. CASE ~inTime
  <2>1. hint = 0
    BY <1>3, <1>5, <1>10
  <2> QED
    BY <1>10, <1>b, <2>1
<1> QED
  BY <1>8, <1>9, <1>10

\* _closest_match: neither the length limit nor the quick bound skips the best window.
\* (An empty old_str occurs everywhere, and never gets a hint.)
THEOREM HintQuotesBest ==
  ASSUME call.tool = "hint", call.old \in Nat \ {0}, call.windows \in Seq(Window(call.old)), call.late \in Nat
  PROVE  HintIsBest
BY QuotesBest DEF HintIsBest

=============================================================================
