----------------------------- MODULE TreeProofs -----------------------------
(***************************************************************************)
(* Proofs about Trees, PathResolve and ReadDirectory.                      *)
(***************************************************************************)
EXTENDS PathResolve, ReadDirectory, FoldLemmas

-----------------------------------------------------------------------------
(* Sequences. *)

\* A prefix agrees as far as it goes.
LEMMA PrefixIs ==
  ASSUME NEW B, NEW s \in Seq(B), NEW u \in Seq(B)
  PROVE  IsPrefix(s, u) <=> Len(s) <= Len(u) /\ \A i \in 1..Len(s) : s[i] = u[i]
<1>1. SubSeq(s, 1, Len(s)) = s
  OBVIOUS
<1>2. CASE Len(s) <= Len(u)
  <2> DEFINE v == SubSeq(u, 1, Len(s))
  <2>1. v \in Seq(B) /\ Len(v) = Len(s) /\ \A i \in 1..Len(s) : v[i] = u[i]
    BY <1>2
  <2> HIDE DEF v
  <2>2. s = v <=> \A i \in 1..Len(s) : s[i] = v[i]
    BY <2>1, SeqEqual
  <2>3. IsPrefix(s, u) <=> s = v
    BY <1>1, <1>2 DEF IsPrefix, v
  <2> QED
    BY <1>2, <2>1, <2>2, <2>3
<1>3. CASE ~(Len(s) <= Len(u))
  BY <1>3 DEF IsPrefix
<1> QED
  BY <1>2, <1>3

-----------------------------------------------------------------------------
(* One component. *)

\* The links met are places.
LEMMA MetType == \A r \in Reached : r.met \in Seq(Seq(Parts)) /\ Len(r.met) \in Nat
<1> SUFFICES ASSUME NEW r \in Reached PROVE r.met \in Seq(Seq(Parts))
  OBVIOUS
<1> QED
  BY DEF Reached

Links == [Reached \X Seq(Parts) -> Reached]

\* Every component leads somewhere.
LEMMA StepType ==
  ASSUME NEW t, TreeOK(t), NEW links \in Links, NEW r \in Reached, NEW name \in Parts
  PROVE  Step(t, links, r, name) \in Reached
<1>1. ASSUME NEW m \in Seq(Seq(Parts)), NEW p \in Seq(Parts)
      PROVE  At(p, m) \in Reached /\ New(p, m) \in Reached
  BY DEF At, New, Reached
<1>2. ASSUME NEW m \in Seq(Seq(Parts)), NEW why \in {"denied", "notdir", "missing", "loop"},
             NEW above \in BOOLEAN
      PROVE  Stop(why, above, m) \in Reached
  BY DEF Stop, Reached
<1>3. r.met \in Seq(Seq(Parts)) /\ r.ok \in BOOLEAN /\ (r.ok => r.place \in Seq(Parts) /\ r.new \in BOOLEAN)
  BY DEF Reached
<1>4. CASE ~r.ok
  BY <1>4 DEF Step
<1>5. CASE r.ok /\ r.new
  <2>1. Append(r.place, name) \in Seq(Parts)
    BY <1>3, <1>5
  <2> QED
    BY <2>1, <1>1, <1>2, <1>3, <1>5 DEF Step
<1>6. CASE r.ok /\ ~r.new
  <2>1. CASE ~Searchable(t, r.place)
    BY <2>1, <1>2, <1>3, <1>6, Zenon DEF Step
  <2>2. CASE Searchable(t, r.place) /\ name = ".."
    <3>1. Parent(r.place) \in Seq(Parts)
      BY <1>3, <1>6 DEF Parent, Front
    <3> QED
      BY <3>1, <2>2, <1>1, <1>3, <1>6 DEF Step
  <2>3. CASE Searchable(t, r.place) /\ name # ".."
    <3> DEFINE here == Append(r.place, name)
    <3>1. here \in Seq(Parts)
      BY <1>3, <1>6
    <3>2. CASE here \notin DOMAIN t
      BY <3>1, <3>2, <2>3, <1>1, <1>3, <1>6 DEF Step
    <3>3. CASE here \in DOMAIN t /\ t[here].kind # "link"
      BY <3>1, <3>3, <2>3, <1>1, <1>3, <1>6 DEF Step
    <3>4. CASE here \in DOMAIN t /\ t[here].kind = "link"
      <4>1. t[here].parts \in Seq(Parts)
        BY <3>4 DEF TreeOK, NodeOK
      <4>2. Append(r.met, here) \in Seq(Seq(Parts)) /\ <<>> \in Seq(Parts)
        BY <1>3, <3>1
      <4> DEFINE b == IF t[here].abs THEN <<>> ELSE r.place
      <4>3. b \in Seq(Parts)
        BY <1>3, <1>6, <4>2
      <4>4. <<At(b, Append(r.met, here)), t[here].parts>> \in Reached \X Seq(Parts)
        BY <1>1, <4>1, <4>2, <4>3
      <4>5. links[<<At(b, Append(r.met, here)), t[here].parts>>] \in Reached
        BY <4>4 DEF Links
      <4> QED
        BY <4>5, <3>4, <2>3, <1>2, <1>3, <1>6 DEF Step
    <3> QED
      BY <3>2, <3>3, <3>4
  <2> QED
    BY <2>1, <2>2, <2>3
<1> QED
  BY <1>3, <1>4, <1>5, <1>6

-----------------------------------------------------------------------------
(* All of a path. *)

StepFn(t, links) == [x \in Reached \X Parts |-> Step(t, links, x[1], x[2])]

\* The iteration that a walk is.
Walks(it, t, links, r, s) ==
  it = [T \in SUBSET DOMAIN s |-> IF T = {} THEN r ELSE Step(t, links, it[T \ {Max(T)}], s[Max(T)])]

\* The step of a walk is a function.
LEMMA StepFnSteps ==
  ASSUME NEW t, TreeOK(t), NEW links \in Links, NEW r \in Reached
  PROVE  /\ Steps(StepFn(t, links), r, Reached, Parts)
         /\ \A q \in Reached, n \in Parts : StepFn(t, links)[<<q, n>>] = Step(t, links, q, n)
<1>1. \A x \in Reached \X Parts : Step(t, links, x[1], x[2]) \in Reached
  BY StepType
<1> QED
  BY <1>1 DEF Steps, StepFn

\* A walk is a fold.
LEMMA WalkIsFold ==
  ASSUME NEW t, TreeOK(t), NEW links \in Links, NEW r \in Reached, NEW s \in Seq(Parts)
  PROVE  Walk(t, links)[<<r, s>>] = LeftFold(StepFn(t, links), r, s)
<1> DEFINE h == StepFn(t, links)
<1>0. Steps(h, r, Reached, Parts)
  BY StepFnSteps
<1>1. \A q \in Reached, n \in Parts : h[<<q, n>>] = Step(t, links, q, n)
  BY StepFnSteps
<1> HIDE DEF h
<1> DEFINE S == DOMAIN s
           F == CHOOSE it : Walks(it, t, links, r, s)
<1>2. \A T \in SUBSET S : T # {} => Max(T) \in S /\ s[Max(T)] \in Parts
  BY LenProperties, MaxIsGreatest
<1>3. PICK it \in [SUBSET S -> Reached] : Follows(it, h, r, s)
  BY <1>0, LeftFoldExists
<1>4. ASSUME NEW T \in SUBSET S
      PROVE  it[T] = IF T = {} THEN r ELSE Step(t, links, it[T \ {Max(T)}], s[Max(T)])
  <2>1. it[T] = IF T = {} THEN r ELSE h[<<it[T \ {Max(T)}], s[Max(T)]>>]
    BY <1>3 DEF Follows
  <2> QED
    BY <2>1, <1>1, <1>2, <1>3
<1>5. Walks(it, t, links, r, s)
  BY <1>4 DEF Walks
<1>6. Walks(F, t, links, r, s)
  BY <1>5
<1>7. Walk(t, links)[<<r, s>>] = F[S]
  BY DEF Walk, FoldLeft, MapThenFoldSet, Walks
<1> HIDE DEF F
<1>8. FollowsOn(F, Reached, h, r, s)
  <2>1. ASSUME NEW T \in SUBSET S, T # {}, F[T \ {Max(T)}] \in Reached
        PROVE  F[T] = h[<<F[T \ {Max(T)}], s[Max(T)]>>]
    <3>1. F[T] = Step(t, links, F[T \ {Max(T)}], s[Max(T)])
      BY <1>6, <2>1 DEF Walks
    <3> QED
      BY <3>1, <1>1, <1>2, <2>1
  <2>2. F[{}] = r
    BY <1>6 DEF Walks
  <2> QED
    BY <2>1, <2>2 DEF FollowsOn
<1>9. Walk(t, links)[<<r, s>>] = LeftFold(h, r, s)
  BY <1>0, <1>7, <1>8, LeftFoldUnique
<1> QED
  BY <1>9 DEF h

\* No component leads nowhere else, and each further one is a step.
LEMMA WalkSteps ==
  ASSUME NEW t, TreeOK(t), NEW links \in Links
  PROVE  /\ Walk(t, links) \in Links
         /\ \A r \in Reached : Walk(t, links)[<<r, <<>>>>] = r
         /\ \A r \in Reached, s \in Seq(Parts), n \in Parts :
              Walk(t, links)[<<r, Append(s, n)>>] = Step(t, links, Walk(t, links)[<<r, s>>], n)
<1> DEFINE h == StepFn(t, links)
           w == Walk(t, links)
<1>1. \A r \in Reached, s \in Seq(Parts) : w[<<r, s>>] = LeftFold(h, r, s)
  BY WalkIsFold
<1>2. ASSUME NEW r \in Reached
      PROVE  /\ Steps(h, r, Reached, Parts)
             /\ \A q \in Reached, n \in Parts : h[<<q, n>>] = Step(t, links, q, n)
  BY StepFnSteps
<1>d. w = [x \in Reached \X Seq(Parts) |-> w[x]]
  BY Zenon DEF Walk
<1> HIDE DEF h, w
<1>3. ASSUME NEW r \in Reached, NEW s \in Seq(Parts) PROVE LeftFold(h, r, s) \in Reached
  BY <1>2, LeftFoldSteps
<1>4. ASSUME NEW r \in Reached PROVE LeftFold(h, r, <<>>) = r
  BY <1>2, LeftFoldSteps
<1>5. ASSUME NEW r \in Reached, NEW s \in Seq(Parts), NEW n \in Parts
      PROVE  LeftFold(h, r, Append(s, n)) = Step(t, links, LeftFold(h, r, s), n)
  <2>1. LeftFold(h, r, Append(s, n)) = h[<<LeftFold(h, r, s), n>>]
    BY <1>2, LeftFoldSteps
  <2> QED
    BY <2>1, <1>2, <1>3
<1>6. w \in Links
  <2>1. \A x \in Reached \X Seq(Parts) : w[x] \in Reached
    BY <1>1, <1>3
  <2>2. [x \in Reached \X Seq(Parts) |-> w[x]] \in Links
    BY <2>1 DEF Links
  <2> QED
    BY <1>d, <2>2, Zenon
<1>7. \A s \in Seq(Parts), n \in Parts : Append(s, n) \in Seq(Parts)
  OBVIOUS
<1>8. <<>> \in Seq(Parts)
  OBVIOUS
<1>9. \A r \in Reached : w[<<r, <<>>>>] = r
  BY <1>1, <1>4, <1>8
<1>10. ASSUME NEW r \in Reached, NEW s \in Seq(Parts), NEW n \in Parts
       PROVE  w[<<r, Append(s, n)>>] = Step(t, links, w[<<r, s>>], n)
  BY <1>1, <1>5, <1>7
<1> QED
  BY <1>6, <1>9, <1>10 DEF w

\* What every step keeps, a walk keeps.
LEMMA WalkKeeps ==
  ASSUME NEW t, TreeOK(t), NEW links \in Links, NEW Q, Q \subseteq Reached,
         \A r \in Q, n \in Parts : Step(t, links, r, n) \in Q
  PROVE  \A r \in Q, s \in Seq(Parts) : Walk(t, links)[<<r, s>>] \in Q
<1> SUFFICES ASSUME NEW r \in Q PROVE \A s \in Seq(Parts) : Walk(t, links)[<<r, s>>] \in Q
  OBVIOUS
<1> DEFINE D == {s \in Seq(Parts) : Walk(t, links)[<<r, s>>] \in Q}
<1>1. <<>> \in D
  BY WalkSteps
<1>2. ASSUME NEW s \in Seq(Parts), s \in D, NEW n \in Parts PROVE Append(s, n) \in D
  <2>1. Append(s, n) \in Seq(Parts)
    OBVIOUS
  <2>2. Walk(t, links)[<<r, Append(s, n)>>] = Step(t, links, Walk(t, links)[<<r, s>>], n)
    BY WalkSteps
  <2> QED
    BY <1>2, <2>1, <2>2
<1>3. Seq(Parts) \subseteq D
  <2> HIDE DEF D
  <2> QED
    BY <1>1, <1>2, AllSequences
<1> QED
  BY <1>3

-----------------------------------------------------------------------------
(* Links in links. *)

\* The levels of Kernel.
Levels(to, t) == to = [d \in 0..MaxHops |-> Walk(t, IF d = 0 THEN NoLinks ELSE to[d - 1])]

\* There are such levels.
LEMMA LevelsExist == ASSUME NEW t PROVE \E to : Levels(to, t)
<1> DEFINE L(to, d) == Walk(t, IF d = 0 THEN NoLinks ELSE to[d - 1])
           Good == {n \in Nat : \E to : \A d \in 0..n : to[d] = L(to, d)}
<1>1. 0 \in Good
  <2> DEFINE to == [d \in {0} |-> Walk(t, NoLinks)]
  <2>1. \A d \in 0..0 : to[d] = L(to, d)
    OBVIOUS
  <2> QED
    BY <2>1
<1>2. ASSUME NEW n \in Good PROVE n + 1 \in Good
  <2>1. PICK to : \A d \in 0..n : to[d] = L(to, d)
    BY <1>2
  <2> DEFINE up == [d \in 0..(n + 1) |-> IF d <= n THEN to[d] ELSE Walk(t, to[n])]
  <2>2. up[n + 1] = Walk(t, to[n]) /\ \A d \in 0..n : up[d] = to[d]
    OBVIOUS
  <2> HIDE DEF up
  <2>3. ASSUME NEW d \in 0..(n + 1) PROVE up[d] = L(up, d)
    <3>1. CASE d = 0
      BY <3>1, <2>1, <2>2
    <3>2. CASE d \in 1..n
      <4>1. up[d] = to[d] /\ up[d - 1] = to[d - 1] /\ to[d] = L(to, d)
        BY <3>2, <2>1, <2>2
      <4> QED
        BY <4>1, <3>2
    <3>3. CASE d = n + 1
      <4>1. up[d - 1] = to[n] /\ d # 0
        BY <3>3, <2>2
      <4> QED
        BY <4>1, <3>3, <2>2
    <3> QED
      BY <3>1, <3>2, <3>3
  <2> QED
    BY <2>3
<1>3. Good = Nat
  <2>1. Good \subseteq Nat
    OBVIOUS
  <2> HIDE DEF Good
  <2> QED
    BY <1>1, <1>2, <2>1, AllNumbers
<1>4. PICK to : \A d \in 0..MaxHops : to[d] = L(to, d)
  BY <1>3, HopsOK
<1> DEFINE up == [d \in 0..MaxHops |-> to[d]]
<1>5. ASSUME NEW d \in 0..MaxHops PROVE up[d] = L(up, d)
  <2>1. d # 0 => d - 1 \in 0..MaxHops
    BY HopsOK
  <2> QED
    BY <2>1, <1>4
<1>6. up = [d \in 0..MaxHops |-> L(up, d)]
  BY <1>5
<1>7. Levels(up, t)
  BY <1>6, Zenon DEF Levels
<1> QED
  BY <1>7

\* Where links lead that are not followed.
LEMMA NoLinksType ==
  /\ NoLinks \in Links
  /\ \A r \in Reached, s \in Seq(Parts) : NoLinks[<<r, s>>] = Stop("loop", FALSE, r.met)
<1>1. \A x \in Reached \X Seq(Parts) : Stop("loop", FALSE, x[1].met) \in Reached
  BY DEF Stop, Reached
<1> QED
  BY <1>1 DEF NoLinks, Links

\* Kernel is the last of them.
LEMMA KernelLevels ==
  ASSUME NEW t, TreeOK(t)
  PROVE  \E to : /\ Kernel(t) = to[MaxHops]
                 /\ \A d \in 0..MaxHops : to[d] \in Links
                 /\ to[0] = Walk(t, NoLinks)
                 /\ \A d \in 1..MaxHops : to[d] = Walk(t, to[d - 1])
<1> DEFINE to == CHOOSE f : Levels(f, t)
<1>1. Levels(to, t)
  BY LevelsExist
<1>2. Kernel(t) = to[MaxHops]
  BY DEF Kernel, Levels
<1> HIDE DEF to
<1>3. \A d \in 0..MaxHops : to[d] = Walk(t, IF d = 0 THEN NoLinks ELSE to[d - 1])
  BY <1>1 DEF Levels
<1>5. to[0] = Walk(t, NoLinks)
  BY <1>3, HopsOK
<1>6. \A d \in 1..MaxHops : to[d] = Walk(t, to[d - 1])
  BY <1>3
<1> DEFINE Good == {d \in Nat : d <= MaxHops => to[d] \in Links}
<1>7. 0 \in Good
  BY <1>5, NoLinksType, WalkSteps
<1>8. ASSUME NEW d \in Good PROVE d + 1 \in Good
  <2> SUFFICES ASSUME d + 1 <= MaxHops PROVE to[d + 1] \in Links
    OBVIOUS
  <2>1. to[d] \in Links /\ d + 1 \in 1..MaxHops /\ (d + 1) - 1 = d
    BY HopsOK
  <2>2. Walk(t, to[d]) \in Links
    BY <2>1, WalkSteps
  <2> QED
    BY <2>1, <2>2, <1>6
<1>9. Good = Nat
  <2>1. Good \subseteq Nat
    OBVIOUS
  <2> HIDE DEF Good
  <2> QED
    BY <1>7, <1>8, <2>1, AllNumbers
<1> QED
  BY <1>2, <1>5, <1>6, <1>9, HopsOK

\* What every step keeps if links keep it, all levels keep.
LEMMA LevelsKeep ==
  ASSUME NEW t, TreeOK(t), NEW to, \A d \in 0..MaxHops : to[d] \in Links,
         to[0] = Walk(t, NoLinks), \A d \in 1..MaxHops : to[d] = Walk(t, to[d - 1]),
         NEW Q, Q \subseteq Reached,
         \A r \in Q, s \in Seq(Parts) : NoLinks[<<r, s>>] \in Q,
         \A links \in Links : (\A r \in Q, s \in Seq(Parts) : links[<<r, s>>] \in Q)
                                => \A r \in Q, n \in Parts : Step(t, links, r, n) \in Q
  PROVE  \A d \in 0..MaxHops : \A r \in Q, s \in Seq(Parts) : to[d][<<r, s>>] \in Q
<1> DEFINE Keeps(links) == \A r \in Q, s \in Seq(Parts) : links[<<r, s>>] \in Q
           Good == {d \in Nat : d <= MaxHops => Keeps(to[d])}
<1>1. ASSUME NEW links \in Links, Keeps(links) PROVE Keeps(Walk(t, links))
  <2>1. \A r \in Q, n \in Parts : Step(t, links, r, n) \in Q
    BY <1>1
  <2> QED
    BY <2>1, WalkKeeps
<1> HIDE DEF Keeps
<1>2. 0 \in Good
  <2>1. Keeps(NoLinks)
    BY DEF Keeps
  <2> QED
    BY <2>1, <1>1, NoLinksType
<1>3. ASSUME NEW d \in Good PROVE d + 1 \in Good
  <2> SUFFICES ASSUME d + 1 <= MaxHops PROVE Keeps(to[d + 1])
    OBVIOUS
  <2>1. to[d] \in Links /\ Keeps(to[d]) /\ to[d + 1] = Walk(t, to[d])
    <3>1. d \in 0..MaxHops /\ d + 1 \in 1..MaxHops /\ (d + 1) - 1 = d
      BY HopsOK
    <3> QED
      BY <3>1
  <2> QED
    BY <2>1, <1>1
<1>4. Good = Nat
  <2>1. Good \subseteq Nat
    OBVIOUS
  <2> HIDE DEF Good
  <2> QED
    BY <1>2, <1>3, <2>1, AllNumbers
<1>5. \A d \in 0..MaxHops : Keeps(to[d])
  BY <1>4, HopsOK
<1> QED
  BY <1>5 DEF Keeps

\* What every step keeps if links keep it, the kernel keeps.
LEMMA KernelKeeps ==
  ASSUME NEW t, TreeOK(t), NEW Q, Q \subseteq Reached,
         \A r \in Q, s \in Seq(Parts) : NoLinks[<<r, s>>] \in Q,
         \A links \in Links : (\A r \in Q, s \in Seq(Parts) : links[<<r, s>>] \in Q)
                                => \A r \in Q, n \in Parts : Step(t, links, r, n) \in Q
  PROVE  \A r \in Q, s \in Seq(Parts) : Kernel(t)[<<r, s>>] \in Q
<1>1. PICK to : /\ Kernel(t) = to[MaxHops]
                /\ \A d \in 0..MaxHops : to[d] \in Links
                /\ to[0] = Walk(t, NoLinks)
                /\ \A d \in 1..MaxHops : to[d] = Walk(t, to[d - 1])
  BY KernelLevels
<1>2. \A d \in 0..MaxHops : \A r \in Q, s \in Seq(Parts) : to[d][<<r, s>>] \in Q
  BY <1>1, LevelsKeep
<1>3. MaxHops \in 0..MaxHops
  BY HopsOK
<1>4. \A r \in Q, s \in Seq(Parts) : to[MaxHops][<<r, s>>] \in Q
  BY <1>2, <1>3
<1> QED
  BY <1>1, <1>4

\* The places whose way there begins with certain links.
Past(met) == {r \in Reached : IsPrefix(met, r.met)}

\* The links met on the way are never fewer.
LEMMA PastKept ==
  ASSUME NEW t, TreeOK(t), NEW met \in Seq(Seq(Parts))
  PROVE  /\ Past(met) \subseteq Reached
         /\ \A r \in Past(met), s \in Seq(Parts) : NoLinks[<<r, s>>] \in Past(met)
         /\ \A links \in Links :
              (\A r \in Past(met), s \in Seq(Parts) : links[<<r, s>>] \in Past(met))
                 => \A r \in Past(met), n \in Parts : Step(t, links, r, n) \in Past(met)
<1>1. Past(met) \subseteq Reached
  BY DEF Past
<1>2. ASSUME NEW r \in Past(met), NEW s \in Seq(Parts) PROVE NoLinks[<<r, s>>] \in Past(met)
  <2>1. NoLinks[<<r, s>>] = Stop("loop", FALSE, r.met) /\ NoLinks[<<r, s>>] \in Reached
    BY <1>1, NoLinksType DEF Links
  <2> QED
    BY <2>1 DEF Past, Stop
<1>3. ASSUME NEW links \in Links, \A r \in Past(met), s \in Seq(Parts) : links[<<r, s>>] \in Past(met),
             NEW r \in Past(met), NEW n \in Parts
      PROVE  Step(t, links, r, n) \in Past(met)
  <2>1. r \in Reached /\ r.met \in Seq(Seq(Parts)) /\ IsPrefix(met, r.met)
    BY DEF Past, Reached
  <2>2. Step(t, links, r, n) \in Reached
    BY <2>1, StepType
  <2> DEFINE here == Append(r.place, n)
             q == At(IF t[here].abs THEN <<>> ELSE r.place, Append(r.met, here))
  <2>3. CASE Step(t, links, r, n).met = r.met
    BY <2>1, <2>2, <2>3 DEF Past
  <2>4. CASE r.ok /\ here \in DOMAIN t /\ t[here].kind = "link" /\ ~r.new
             /\ Step(t, links, r, n) = links[<<q, t[here].parts>>]
    <3>1. r.place \in Seq(Parts) /\ here \in Seq(Parts) /\ t[here].parts \in Seq(Parts)
      BY <2>1, <2>4 DEF Reached, TreeOK, NodeOK
    <3>2. Append(r.met, here) \in Seq(Seq(Parts)) /\ IsPrefix(met, Append(r.met, here))
      <4>1. Append(r.met, here) \in Seq(Seq(Parts))
        BY <2>1, <3>1
      <4>2. Len(met) <= Len(r.met) /\ \A i \in 1..Len(met) : met[i] = r.met[i]
        BY <2>1, PrefixIs
      <4>3. /\ Len(met) <= Len(Append(r.met, here))
            /\ \A i \in 1..Len(met) : met[i] = Append(r.met, here)[i]
        BY <2>1, <3>1, <4>2
      <4> QED
        BY <4>1, <4>3, PrefixIs
    <3>3. q \in Past(met)
      <4>1. q \in Reached /\ q.met = Append(r.met, here)
        BY <3>1, <3>2 DEF At, Reached
      <4> QED
        BY <3>2, <4>1 DEF Past
    <3> QED
      BY <1>3, <2>4, <3>1, <3>3
  <2>5. \/ Step(t, links, r, n).met = r.met
        \/ r.ok /\ here \in DOMAIN t /\ t[here].kind = "link" /\ ~r.new
             /\ Step(t, links, r, n) = links[<<q, t[here].parts>>]
    <3>1. CASE ~r.ok
      BY <3>1 DEF Step
    <3>2. CASE r.ok /\ r.new
      BY <3>2, <2>1 DEF Step, Stop, New, Reached
    <3>3. CASE r.ok /\ ~r.new /\ ~(Searchable(t, r.place) /\ n # "..")
      BY <3>3, <2>1 DEF Step, Stop, At
    <3>4. CASE r.ok /\ ~r.new /\ Searchable(t, r.place) /\ n # ".."
      BY <3>4, <2>1 DEF Step, Stop, At, New
    <3> QED
      BY <2>1, <3>1, <3>2, <3>3, <3>4 DEF Reached
  <2> QED
    BY <2>3, <2>4, <2>5
<1> QED
  BY <1>1, <1>2, <1>3

\* Links are asked only for the way that has one more of them, and only if that is
\* not one too many.
LEMMA StepAgrees ==
  ASSUME NEW t, TreeOK(t), NEW links, NEW more, NEW r \in Reached, NEW n \in Parts,
         Len(r.met) < MaxHops =>
           \A q \in Reached, s \in Seq(Parts) :
             Len(q.met) = Len(r.met) + 1 => links[<<q, s>>] = more[<<q, s>>]
  PROVE  Step(t, links, r, n) = Step(t, more, r, n)
<1>1. r.met \in Seq(Seq(Parts)) /\ r.ok \in BOOLEAN /\ (r.ok => r.place \in Seq(Parts) /\ r.new \in BOOLEAN)
  BY DEF Reached
<1> DEFINE here == Append(r.place, n)
           q == At(IF t[here].abs THEN <<>> ELSE r.place, Append(r.met, here))
<1>2. CASE r.ok /\ ~r.new /\ Searchable(t, r.place) /\ n # ".." /\ here \in DOMAIN t
           /\ t[here].kind = "link" /\ ~(Len(r.met) >= MaxHops)
  <2>1. here \in Seq(Parts) /\ t[here].parts \in Seq(Parts)
    BY <1>1, <1>2 DEF TreeOK, NodeOK
  <2>2. q \in Reached /\ Len(q.met) = Len(r.met) + 1
    BY <1>1, <1>2, <2>1 DEF At, Reached
  <2>3. links[<<q, t[here].parts>>] = more[<<q, t[here].parts>>]
    BY <1>1, <1>2, <2>1, <2>2, HopsOK
  <2>4. /\ Step(t, links, r, n) = links[<<q, t[here].parts>>]
        /\ Step(t, more, r, n) = more[<<q, t[here].parts>>]
    BY <1>2, Zenon DEF Step
  <2> QED
    BY <2>3, <2>4
<1>3. CASE ~(r.ok /\ ~r.new /\ Searchable(t, r.place) /\ n # ".." /\ here \in DOMAIN t
             /\ t[here].kind = "link" /\ ~(Len(r.met) >= MaxHops))
  BY <1>3 DEF Step
<1> QED
  BY <1>2, <1>3

\* Two levels agree where so many links are met that neither needs a lower one.
LEMMA LevelsAgree ==
  ASSUME NEW t, TreeOK(t), NEW to, \A d \in 0..MaxHops : to[d] \in Links,
         to[0] = Walk(t, NoLinks), \A d \in 1..MaxHops : to[d] = Walk(t, to[d - 1])
  PROVE  \A d \in 1..MaxHops : \A r \in Reached, s \in Seq(Parts) :
           Len(r.met) >= MaxHops - d + 1 => to[d - 1][<<r, s>>] = to[d][<<r, s>>]
<1> DEFINE Agree(k, links, more) ==
             \A r \in Reached, s \in Seq(Parts) : Len(r.met) >= k => links[<<r, s>>] = more[<<r, s>>]
           Good == {d \in Nat : d + 1 <= MaxHops => Agree(MaxHops - d, to[d], to[d + 1])}
<1>0. ASSUME NEW d \in 0..MaxHops, NEW r \in Reached, NEW s \in Seq(Parts)
      PROVE  to[d][<<r, s>>] \in Reached /\ Len(to[d][<<r, s>>].met) >= Len(r.met)
  <2>1. r \in Past(r.met) /\ r.met \in Seq(Seq(Parts))
    BY MetType DEF Past, IsPrefix
  <2>2. to[d][<<r, s>>] \in Past(r.met)
    <3> DEFINE Q == Past(r.met)
    <3>1. /\ Q \subseteq Reached
          /\ \A q \in Q, u \in Seq(Parts) : NoLinks[<<q, u>>] \in Q
          /\ \A links \in Links : (\A q \in Q, u \in Seq(Parts) : links[<<q, u>>] \in Q)
                                 => \A q \in Q, n \in Parts : Step(t, links, q, n) \in Q
      BY <2>1, PastKept
    <3>2. r \in Q
      BY <2>1
    <3> HIDE DEF Q
    <3>3. \A e \in 0..MaxHops : \A q \in Q, u \in Seq(Parts) : to[e][<<q, u>>] \in Q
      BY <3>1, LevelsKeep
    <3>4. to[d][<<r, s>>] \in Q
      BY <3>2, <3>3
    <3> QED
      BY <3>4 DEF Q
  <2> QED
    BY <2>2 DEF Past, IsPrefix
\* One level up, one link fewer is enough.
<1>1. ASSUME NEW links \in Links, NEW more \in Links, NEW k \in Nat,
             \A r \in Reached, s \in Seq(Parts) :
               /\ Walk(t, links)[<<r, s>>] \in Reached
               /\ Len(Walk(t, links)[<<r, s>>].met) >= Len(r.met),
             k >= MaxHops \/ Agree(k + 1, links, more)
      PROVE  Agree(k, Walk(t, links), Walk(t, more))
  <2> SUFFICES ASSUME NEW r \in Reached, Len(r.met) >= k
               PROVE  \A s \in Seq(Parts) : Walk(t, links)[<<r, s>>] = Walk(t, more)[<<r, s>>]
    OBVIOUS
  <2> DEFINE D == {s \in Seq(Parts) : Walk(t, links)[<<r, s>>] = Walk(t, more)[<<r, s>>]}
  <2>1. <<>> \in D
    BY WalkSteps
  <2>2. ASSUME NEW s \in Seq(Parts), s \in D, NEW n \in Parts PROVE Append(s, n) \in D
    <3> DEFINE q == Walk(t, links)[<<r, s>>]
    <3>1. q \in Reached /\ Len(q.met) \in Nat /\ Len(q.met) >= k
      <4>1. q \in Reached /\ Len(q.met) >= Len(r.met)
        BY <1>1
      <4> QED
        BY <4>1, MetType
    <3>2. /\ Walk(t, links)[<<r, Append(s, n)>>] = Step(t, links, q, n)
          /\ Walk(t, more)[<<r, Append(s, n)>>] = Step(t, more, q, n)
      BY <2>2, WalkSteps
    <3> HIDE DEF q
    <3>3. ASSUME Len(q.met) < MaxHops, NEW p \in Reached, NEW u \in Seq(Parts), Len(p.met) = Len(q.met) + 1
          PROVE  links[<<p, u>>] = more[<<p, u>>]
      BY <1>1, <3>1, <3>3, HopsOK
    <3>4. Step(t, links, q, n) = Step(t, more, q, n)
      BY <3>1, <3>3, StepAgrees
    <3>5. Append(s, n) \in Seq(Parts)
      OBVIOUS
    <3> QED
      BY <3>2, <3>4, <3>5
  <2>3. Seq(Parts) \subseteq D
    <3> HIDE DEF D
    <3> QED
      BY <2>1, <2>2, AllSequences
  <2> QED
    BY <2>3
<1> HIDE DEF Agree
<1>2. 0 \in Good
  <2> SUFFICES ASSUME 1 <= MaxHops PROVE Agree(MaxHops, to[0], to[1])
    BY HopsOK
  <2>1. to[0] = Walk(t, NoLinks) /\ to[1] = Walk(t, to[0]) /\ 0 \in 0..MaxHops
    BY HopsOK
  <2> QED
    BY <1>0, <1>1, <2>1, NoLinksType, HopsOK
<1>3. ASSUME NEW d \in Good PROVE d + 1 \in Good
  <2> SUFFICES ASSUME d + 2 <= MaxHops PROVE Agree(MaxHops - (d + 1), to[d + 1], to[d + 2])
    BY HopsOK
  <2>1. /\ d \in 0..MaxHops /\ d + 1 \in 0..MaxHops
        /\ to[d + 1] = Walk(t, to[d]) /\ to[d + 2] = Walk(t, to[d + 1])
    <3>1. d \in Nat /\ d + 1 \in 1..MaxHops /\ d + 2 \in 1..MaxHops /\ (d + 1) - 1 = d /\ (d + 2) - 1 = d + 1
      BY HopsOK
    <3>2. to[d + 1] = Walk(t, to[(d + 1) - 1]) /\ to[d + 2] = Walk(t, to[(d + 2) - 1])
      BY <3>1
    <3> QED
      BY <3>1, <3>2, HopsOK
  <2>2. Agree(MaxHops - d, to[d], to[d + 1])
    BY HopsOK
  <2>3. MaxHops - (d + 1) \in Nat /\ (MaxHops - (d + 1)) + 1 = MaxHops - d
    BY HopsOK
  <2>4. \A r \in Reached, s \in Seq(Parts) :
          /\ Walk(t, to[d])[<<r, s>>] \in Reached
          /\ Len(Walk(t, to[d])[<<r, s>>].met) >= Len(r.met)
    BY <1>0, <2>1
  <2>5. Agree(MaxHops - (d + 1), Walk(t, to[d]), Walk(t, to[d + 1]))
    BY <1>1, <2>1, <2>2, <2>3, <2>4
  <2> QED
    BY <2>1, <2>5
<1>4. Good = Nat
  <2>1. Good \subseteq Nat
    OBVIOUS
  <2> HIDE DEF Good
  <2> QED
    BY <1>2, <1>3, <2>1, AllNumbers
<1>5. ASSUME NEW d \in 1..MaxHops PROVE Agree(MaxHops - d + 1, to[d - 1], to[d])
  <2>1. d - 1 \in Nat /\ (d - 1) + 1 = d /\ MaxHops - (d - 1) = MaxHops - d + 1 /\ d <= MaxHops
    BY HopsOK
  <2>2. d - 1 \in Good
    BY <1>4, <2>1
  <2>3. Agree(MaxHops - (d - 1), to[d - 1], to[(d - 1) + 1])
    BY <2>1, <2>2
  <2> QED
    BY <2>1, <2>3
<1> QED
  BY <1>5 DEF Agree

\* The kernel takes one component after the other, and links lead where it goes itself.
LEMMA KernelSteps ==
  ASSUME NEW t, TreeOK(t)
  PROVE  /\ Kernel(t) \in Links
         /\ \A r \in Reached : Kernel(t)[<<r, <<>>>>] = r
         /\ \A r \in Reached, s \in Seq(Parts), n \in Parts :
              Kernel(t)[<<r, Append(s, n)>>] = Step(t, Kernel(t), Kernel(t)[<<r, s>>], n)
<1>1. PICK to : /\ Kernel(t) = to[MaxHops]
                /\ \A d \in 0..MaxHops : to[d] \in Links
                /\ to[0] = Walk(t, NoLinks)
                /\ \A d \in 1..MaxHops : to[d] = Walk(t, to[d - 1])
  BY KernelLevels
<1> DEFINE k == Kernel(t)
           links == IF MaxHops = 0 THEN NoLinks ELSE to[MaxHops - 1]
<1>2. links \in Links /\ k \in Links /\ k = Walk(t, links)
  BY <1>1, NoLinksType, HopsOK
<1> HIDE DEF links, k
<1>3. ASSUME NEW r \in Reached, NEW n \in Parts PROVE Step(t, links, r, n) = Step(t, k, r, n)
  <2>1. ASSUME Len(r.met) < MaxHops, NEW q \in Reached, NEW s \in Seq(Parts), Len(q.met) = Len(r.met) + 1
        PROVE  links[<<q, s>>] = k[<<q, s>>]
    <3>1. Len(r.met) \in Nat
      BY DEF Reached
    <3>2. MaxHops \in 1..MaxHops /\ Len(q.met) >= MaxHops - MaxHops + 1
      BY <2>1, <3>1, HopsOK
    <3>3. to[MaxHops - 1][<<q, s>>] = to[MaxHops][<<q, s>>]
      BY <1>1, <3>2, LevelsAgree
    <3> QED
      BY <1>1, <3>2, <3>3 DEF links, k
  <2> QED
    BY <2>1, StepAgrees
<1>4. \A r \in Reached : k[<<r, <<>>>>] = r
  BY <1>2, WalkSteps
<1>5. ASSUME NEW r \in Reached, NEW s \in Seq(Parts), NEW n \in Parts
      PROVE  k[<<r, Append(s, n)>>] = Step(t, k, k[<<r, s>>], n)
  <2>1. k[<<r, s>>] \in Reached
    BY <1>2 DEF Links
  <2>2. k[<<r, Append(s, n)>>] = Step(t, links, k[<<r, s>>], n)
    BY <1>2, WalkSteps
  <2> QED
    BY <2>1, <2>2, <1>3
<1> QED
  BY <1>2, <1>4, <1>5 DEF k

\* Where a path leads from somewhere.
From(t, r, s) == Kernel(t)[<<r, s>>]

\* The same of it.
LEMMA FromSteps ==
  ASSUME NEW t, TreeOK(t)
  PROVE  /\ \A r \in Reached, s \in Seq(Parts) : From(t, r, s) \in Reached
         /\ \A r \in Reached : From(t, r, <<>>) = r
         /\ \A r \in Reached, s \in Seq(Parts), n \in Parts :
              From(t, r, Append(s, n)) = Step(t, Kernel(t), From(t, r, s), n)
BY KernelSteps DEF From, Links

\* It goes on from where it is.
LEMMA FromConcat ==
  ASSUME NEW t, TreeOK(t), NEW r \in Reached, NEW p \in Seq(Parts), NEW q \in Seq(Parts)
  PROVE  From(t, r, p \o q) = From(t, From(t, r, p), q)
<1> DEFINE at == From(t, r, p)
           D == {s \in Seq(Parts) : From(t, r, p \o s) = From(t, at, s)}
<1>1. at \in Reached
  BY FromSteps
<1> HIDE DEF at
<1>2. <<>> \in D
  BY <1>1, FromSteps, ConcatEmptySeq DEF at
<1>3. ASSUME NEW s \in Seq(Parts), s \in D, NEW n \in Parts PROVE Append(s, n) \in D
  <2> DEFINE ps == p \o s
  <2>1. p \o Append(s, n) = Append(ps, n) /\ ps \in Seq(Parts) /\ Append(s, n) \in Seq(Parts)
    OBVIOUS
  <2>2. From(t, r, ps) = From(t, at, s)
    BY <1>3
  <2> HIDE DEF ps
  <2>3. From(t, r, Append(ps, n)) = Step(t, Kernel(t), From(t, r, ps), n)
    BY <2>1, FromSteps
  <2>4. From(t, at, Append(s, n)) = Step(t, Kernel(t), From(t, at, s), n)
    BY <1>1, FromSteps
  <2> QED
    BY <2>1, <2>2, <2>3, <2>4
<1>4. Seq(Parts) \subseteq D
  <2> HIDE DEF D
  <2> QED
    BY <1>2, <1>3, AllSequences
<1> QED
  BY <1>4 DEF at

\* The first component, and then the others.
LEMMA FromFront ==
  ASSUME NEW t, TreeOK(t), NEW r \in Reached, NEW s \in Seq(Parts), s # <<>>
  PROVE  From(t, r, s) = From(t, Step(t, Kernel(t), r, Head(s)), Tail(s))
<1>1. Head(s) \in Parts /\ Tail(s) \in Seq(Parts) /\ <<>> \in Seq(Parts)
  OBVIOUS
<1> DEFINE front == Append(<<>>, Head(s))
           rest == Tail(s)
<1>2. front \in Seq(Parts) /\ rest \in Seq(Parts) /\ s = front \o rest
  BY <1>1
<1>3. From(t, r, front) = Step(t, Kernel(t), r, Head(s))
  <2>1. From(t, r, front) = Step(t, Kernel(t), From(t, r, <<>>), Head(s))
    BY <1>1, FromSteps
  <2> QED
    BY <2>1, FromSteps
<1> HIDE DEF front, rest
<1>4. From(t, r, front \o rest) = From(t, From(t, r, front), rest)
  BY <1>2, FromConcat, Zenon
<1> QED
  BY <1>2, <1>3, <1>4 DEF rest

\* Where the kernel has stopped it stays.
LEMMA FromStopped ==
  ASSUME NEW t, TreeOK(t), NEW r \in Reached, ~r.ok, NEW s \in Seq(Parts)
  PROVE  From(t, r, s) = r
<1> DEFINE D == {u \in Seq(Parts) : From(t, r, u) = r}
<1>1. <<>> \in D
  BY FromSteps
<1>2. ASSUME NEW u \in Seq(Parts), u \in D, NEW n \in Parts PROVE Append(u, n) \in D
  <2>1. Append(u, n) \in Seq(Parts) /\ From(t, r, Append(u, n)) = Step(t, Kernel(t), r, n)
    BY <1>2, FromSteps
  <2> QED
    BY <2>1 DEF Step
<1>3. Seq(Parts) \subseteq D
  <2> HIDE DEF D
  <2> QED
    BY <1>1, <1>2, AllSequences
<1> QED
  BY <1>3

\* What leads below a place that does not exist.
Beyond(here, u, met) == IF Contains(u, "..") THEN Stop("missing", FALSE, met) ELSE New(here \o u, met)

\* Below what does not exist the path is joined, unless it goes up.
LEMMA FromNew ==
  ASSUME NEW t, TreeOK(t), NEW here \in Seq(Parts), NEW met \in Seq(Seq(Parts)), NEW s \in Seq(Parts)
  PROVE  From(t, New(here, met), s) = Beyond(here, s, met)
<1> DEFINE D == {u \in Seq(Parts) : From(t, New(here, met), u) = Beyond(here, u, met)}
<1>n. New(here, met) \in Reached
  BY DEF New, Reached
<1>1. <<>> \in D
  <2>1. ~Contains(<<>>, "..") /\ here \o <<>> = here
    BY ConcatEmptySeq DEF Contains
  <2>2. Beyond(here, <<>>, met) = New(here, met)
    BY <2>1 DEF Beyond
  <2> QED
    BY <2>2, <1>n, FromSteps
<1>2. ASSUME NEW u \in Seq(Parts), u \in D, NEW n \in Parts PROVE Append(u, n) \in D
  <2>1. /\ Append(u, n) \in Seq(Parts)
        /\ From(t, New(here, met), Append(u, n)) = Step(t, Kernel(t), Beyond(here, u, met), n)
    <3>1. Append(u, n) \in Seq(Parts) /\ From(t, New(here, met), u) = Beyond(here, u, met)
      BY <1>2
    <3>2. From(t, New(here, met), Append(u, n)) =
            Step(t, Kernel(t), From(t, New(here, met), u), n)
      BY <1>n, FromSteps
    <3> QED
      BY <3>1, <3>2
  <2>2. Contains(Append(u, n), "..") <=> Contains(u, "..") \/ n = ".."
    <3>1. Len(Append(u, n)) = Len(u) + 1 /\ Len(u) \in Nat
      OBVIOUS
    <3>2. \A i \in 1..Len(u) : Append(u, n)[i] = u[i]
      OBVIOUS
    <3>3. Append(u, n)[Len(u) + 1] = n
      OBVIOUS
    <3>4. \A i \in 1..Len(u) + 1 : i \in 1..Len(u) \/ i = Len(u) + 1
      BY <3>1
    <3>5. 1..Len(u) \subseteq 1..Len(u) + 1 /\ Len(u) + 1 \in 1..Len(u) + 1
      BY <3>1
    <3> QED
      BY <3>1, <3>2, <3>3, <3>4, <3>5, Zenon DEF Contains
  <2>3. here \o Append(u, n) = Append(here \o u, n)
    OBVIOUS
  <2>4. Step(t, Kernel(t), Beyond(here, u, met), n) = Beyond(here, Append(u, n), met)
    <3>1. CASE Contains(u, "..")
      BY <3>1, <2>2 DEF Step, Stop, Beyond
    <3>2. CASE ~Contains(u, "..")
      <4>1. Beyond(here, u, met) = New(here \o u, met)
        BY <3>2 DEF Beyond
      <4>2. Step(t, Kernel(t), New(here \o u, met), n) =
              IF n = ".." THEN Stop("missing", FALSE, met) ELSE New(Append(here \o u, n), met)
        BY DEF Step, New
      <4> QED
        BY <4>1, <4>2, <2>2, <2>3, <3>2 DEF Beyond
    <3> QED
      BY <3>1, <3>2
  <2> QED
    BY <2>1, <2>4
<1>3. Seq(Parts) \subseteq D
  <2> HIDE DEF D
  <2> QED
    BY <1>1, <1>2, AllSequences
<1> QED
  BY <1>3

\* Links met stay met.
LEMMA FromMet ==
  ASSUME NEW t, TreeOK(t), NEW r \in Reached, NEW s \in Seq(Parts)
  PROVE  From(t, r, s) \in Reached /\ IsPrefix(r.met, From(t, r, s).met)
<1> DEFINE Q == Past(r.met)
<1>1. r \in Q /\ r.met \in Seq(Seq(Parts))
  BY MetType DEF Past, IsPrefix
<1>2. /\ Q \subseteq Reached
      /\ \A q \in Q, u \in Seq(Parts) : NoLinks[<<q, u>>] \in Q
      /\ \A links \in Links : (\A q \in Q, u \in Seq(Parts) : links[<<q, u>>] \in Q)
                                => \A q \in Q, n \in Parts : Step(t, links, q, n) \in Q
  BY <1>1, PastKept
<1> HIDE DEF Q
<1>3. From(t, r, s) \in Q
  BY <1>1, <1>2, KernelKeeps DEF From
<1> QED
  BY <1>3 DEF Q, Past

\* Where the kernel gets to is there, and no link, unless it can be made.
Ends(t) == {r \in Reached : r.ok /\ ~r.new => r.place \in DOMAIN t /\ t[r.place].kind # "link"}

\* No path ends at a link.
LEMMA KernelEnds ==
  ASSUME NEW t, TreeOK(t), NEW s \in Seq(Parts)
  PROVE  Physical(t, s) \in Ends(t)
<1> DEFINE Q == Ends(t)
<1>1. Q \subseteq Reached
  BY DEF Ends
<1>a. ASSUME NEW p \in Seq(Parts), p \in DOMAIN t, t[p].kind # "link", NEW m \in Seq(Seq(Parts))
      PROVE  At(p, m) \in Q
  BY <1>a DEF Ends, At, Reached
<1>s. ASSUME NEW why \in {"denied", "notdir", "missing", "loop"}, NEW above \in BOOLEAN,
             NEW m \in Seq(Seq(Parts))
      PROVE  Stop(why, above, m) \in Q
  BY DEF Ends, Stop, Reached
<1>2. ASSUME NEW r \in Q, NEW u \in Seq(Parts) PROVE NoLinks[<<r, u>>] \in Q
  BY <1>1, <1>s, NoLinksType, MetType
<1>3. ASSUME NEW links \in Links, \A r \in Q, u \in Seq(Parts) : links[<<r, u>>] \in Q,
             NEW r \in Q, NEW n \in Parts
      PROVE  Step(t, links, r, n) \in Q
  <2>1. r \in Reached /\ Step(t, links, r, n) \in Reached /\ r.met \in Seq(Seq(Parts))
    BY <1>1, StepType, MetType
  <2>2. CASE ~(r.ok /\ ~r.new)
    <3>1. Step(t, links, r, n) = r \/ ~Step(t, links, r, n).ok \/ Step(t, links, r, n).new
      BY <2>1, <2>2 DEF Step, Stop, New, Reached
    <3> QED
      BY <3>1, <2>1, <2>2 DEF Ends
  <2>3. CASE r.ok /\ ~r.new
    <3>1. r.place \in Seq(Parts) /\ r.place \in DOMAIN t /\ t[r.place].kind # "link"
      BY <2>1, <2>3 DEF Ends, Reached
    <3>2. CASE ~Searchable(t, r.place)
      BY <2>1, <2>3, <3>2, <1>s, Zenon DEF Step
    <3>3. CASE Searchable(t, r.place) /\ n = ".."
      <4>1. IsDir(t, Parent(r.place)) /\ Parent(r.place) \in Seq(Parts)
        BY <3>1 DEF TreeOK, IsDir
      <4>2. At(Parent(r.place), r.met) \in Q
        BY <4>1, <2>1, <1>a DEF IsDir
      <4> QED
        BY <4>2, <2>3, <3>3 DEF Step
    <3>4. CASE Searchable(t, r.place) /\ n # ".."
      <4> DEFINE here == Append(r.place, n)
                 b == IF t[here].abs THEN <<>> ELSE r.place
      <4>1. here \in Seq(Parts)
        BY <3>1
      <4>2. CASE here \notin DOMAIN t
        <5>1. Step(t, links, r, n) = New(here, r.met)
          BY <4>2, <2>3, <3>4 DEF Step
        <5>2. Step(t, links, r, n).new
          BY <5>1 DEF New
        <5> QED
          BY <5>2, <2>1 DEF Ends
      <4>3. CASE here \in DOMAIN t /\ t[here].kind # "link"
        <5>1. Step(t, links, r, n) = At(here, r.met)
          BY <4>3, <2>3, <3>4 DEF Step
        <5> QED
          BY <5>1, <4>1, <4>3, <2>1, <1>a
      <4>4. CASE here \in DOMAIN t /\ t[here].kind = "link"
        <5>1. t[here].parts \in Seq(Parts) /\ Append(r.met, here) \in Seq(Seq(Parts))
          BY <4>1, <4>4, <2>1 DEF TreeOK, NodeOK
        <5>2. b \in Seq(Parts) /\ b \in DOMAIN t /\ t[b].kind # "link"
          BY <3>1 DEF TreeOK, IsDir
        <5>3. At(b, Append(r.met, here)) \in Q
          BY <5>1, <5>2, <1>a
        <5>4. links[<<At(b, Append(r.met, here)), t[here].parts>>] \in Q
          BY <5>1, <5>3, <1>3
        <5> QED
          BY <5>4, <4>4, <2>1, <2>3, <3>4, <1>s DEF Step
      <4> QED
        BY <4>2, <4>3, <4>4
    <3> QED
      BY <3>2, <3>3, <3>4
  <2> QED
    BY <2>2, <2>3
<1>4. At(<<>>, <<>>) \in Q
  <2>1. <<>> \in Seq(Parts) /\ <<>> \in Seq(Seq(Parts)) /\ <<>> \in DOMAIN t /\ t[<<>>].kind # "link"
    BY DEF TreeOK, IsDir
  <2> QED
    BY <2>1, <1>a
<1> HIDE DEF Q
<1>5. From(t, At(<<>>, <<>>), s) \in Q
  BY <1>1, <1>2, <1>3, <1>4, KernelKeeps DEF From
<1> QED
  BY <1>5 DEF Q, Physical, From

-----------------------------------------------------------------------------
(* The loop of _checked_resolve: what is left of the path leads from the    *)
(* place reached to where the kernel gets, unless the loop has gone up from *)
(* where the kernel cannot.                                                 *)

PathTypeOK ==
  /\ disk \in Disks /\ wanted \in Paths
  /\ parts \in Seq(Parts) /\ resolved \in Seq(Parts) /\ hops \in Nat

Agrees(met) ==
  /\ Len(met) = hops /\ \A i \in DOMAIN met : Allowed(met[i])
  /\ ByKernel = From(disk, At(resolved, met), parts)

\* Only ".." after a file or a closed directory is taken as it stands.
Lenient == ~ByKernel.ok /\ ByKernel.above

PathInv ==
  /\ PathTypeOK
  /\ stage = "start" => parts = wanted.parts /\ resolved = <<>> /\ hops = 0
  /\ stage = "walk" => Lenient \/ \E met \in Seq(Seq(Parts)) : Agrees(met)
  /\ ResolvesAsKernel /\ EveryLinkChecked

\* The tree and the path are of the kinds the lemmas above are about.
LEMMA PathTypes == PathTypeOK => TreeOK(disk) /\ wanted.parts \in Seq(Parts)
BY PathsOK DEF PathTypeOK

\* The loop has not begun.
LEMMA PathInitInv == PathInit => PathInv
<1> SUFFICES ASSUME PathInit PROVE PathInv
  OBVIOUS
<1>1. PathTypeOK
  BY PathsOK DEF PathInit, PathTypeOK
<1> QED
  BY <1>1 DEF PathInit, PathInv, ResolvesAsKernel, EveryLinkChecked

\* What the kernel finds does not change.
LEMMA SameKernel ==
  ASSUME UNCHANGED <<disk, wanted>>
  PROVE  ByKernel' = ByKernel /\ Refused' = Refused /\ \A l : Allowed(l)' = Allowed(l)
BY DEF ByKernel, Refused, Allowed, HopAllowed

\* A step to the next component keeps agreement if it is the kernel's.
LEMMA GoOn ==
  ASSUME PathInv, stage = "walk", NEW rest \in Seq(Parts), NEW place \in Seq(Parts), NEW n \in Nat,
         Goes(rest, place, n),
         Lenient \/ \E met \in Seq(Seq(Parts)) :
                      /\ Len(met) = n /\ \A i \in DOMAIN met : Allowed(met[i])
                      /\ ByKernel = From(disk, At(place, met), rest)
  PROVE  PathInv'
<1>1. disk' = disk /\ wanted' = wanted /\ stage' = "walk" /\ parts' = rest /\ resolved' = place /\ hops' = n
  BY DEF Goes
<1>2. PathTypeOK'
  BY <1>1 DEF PathInv, PathTypeOK
<1>3. ByKernel' = ByKernel /\ \A l : Allowed(l)' = Allowed(l)
  BY <1>1, SameKernel
<1>4. Lenient' = Lenient
  BY <1>3 DEF Lenient
<1>5. ASSUME NEW met \in Seq(Seq(Parts)), Len(met) = n, \A i \in DOMAIN met : Allowed(met[i]),
             ByKernel = From(disk, At(place, met), rest)
      PROVE  Agrees(met)'
  BY <1>1, <1>3, <1>5 DEF Agrees
<1>6. Lenient' \/ \E met \in Seq(Seq(Parts)) : Agrees(met)'
  BY <1>4, <1>5
<1>7. ResolvesAsKernel' /\ EveryLinkChecked'
  BY <1>1 DEF ResolvesAsKernel, EveryLinkChecked
<1> QED
  BY <1>1, <1>2, <1>6, <1>7 DEF PathInv

\* An outcome keeps the invariant if it is right.
LEMMA FinishRight ==
  ASSUME PathInv, NEW result, Finish(result),
         Lenient
         \/ /\ result.found /\ ByKernel.ok => result.place = ByKernel.place
            /\ ~result.found /\ ByKernel.ok => result.why \in {"refused", "unsafe"}
            /\ ~ByKernel.ok => ~result.found
            /\ ~Refused /\ result.found => \A i \in DOMAIN ByKernel.met : Allowed(ByKernel.met[i])
            /\ ~Refused /\ ~result.found /\ result.why = "unsafe" =>
                 \E i \in DOMAIN ByKernel.met : ~Allowed(ByKernel.met[i])
  PROVE  PathInv'
<1>1. /\ disk' = disk /\ wanted' = wanted /\ stage' = "done" /\ parts' = parts
      /\ resolved' = resolved /\ hops' = hops /\ outcome' = result
  BY DEF Finish
<1>2. PathTypeOK'
  BY <1>1 DEF PathInv, PathTypeOK
<1>3. ByKernel' = ByKernel /\ Refused' = Refused /\ \A l : Allowed(l)' = Allowed(l)
  BY <1>1, SameKernel
<1>4. ResolvesAsKernel'
  BY <1>1, <1>3, Zenon DEF ResolvesAsKernel, Lenient
<1>5. EveryLinkChecked'
  BY <1>1, <1>3, Zenon DEF EveryLinkChecked, Lenient
<1> QED
  BY <1>1, <1>2, <1>4, <1>5 DEF PathInv

\* A path that is not refused is walked from the root, with no link met.
LEMMA ValidateInv == PathInv /\ Validate => PathInv'
<1> SUFFICES ASSUME PathInv, Validate PROVE PathInv'
  OBVIOUS
<1>1. stage = "start" /\ parts = wanted.parts /\ resolved = <<>> /\ hops = 0 /\ PathTypeOK
  BY DEF PathInv, Validate
<1>2. CASE Refused
  <2>1. Finish(Failed("refused"))
    BY <1>2 DEF Validate
  <2>2. ~Failed("refused").found /\ Failed("refused").why = "refused"
    BY DEF Failed
  <2> QED
    BY <1>2, <2>1, <2>2, FinishRight
<1>3. CASE ~Refused
  <2>1. stage' = "walk" /\ UNCHANGED <<disk, wanted, parts, resolved, hops, outcome>>
    BY <1>3 DEF Validate
  <2>2. PathTypeOK'
    BY <1>1, <2>1 DEF PathTypeOK
  <2>3. Agrees(<<>>)
    <3>1. <<>> \in Seq(Seq(Parts)) /\ Len(<<>>) = 0 /\ DOMAIN <<>> = {}
      OBVIOUS
    <3>2. ByKernel = From(disk, At(resolved, <<>>), parts)
      BY <1>1 DEF ByKernel, Physical, From
    <3> QED
      BY <1>1, <3>1, <3>2 DEF Agrees
  <2>4. Agrees(<<>>)'
    BY <2>1, <2>3, SameKernel DEF Agrees
  <2>5. ResolvesAsKernel' /\ EveryLinkChecked'
    BY <2>1 DEF ResolvesAsKernel, EveryLinkChecked
  <2>6. <<>> \in Seq(Seq(Parts))
    OBVIOUS
  <2>7. \E met \in Seq(Seq(Parts)) : Agrees(met)'
    BY <2>4, <2>6
  <2> QED
    BY <2>1, <2>2, <2>5, <2>7 DEF PathInv
<1> QED
  BY <1>2, <1>3

\* With nothing left, the kernel is where the loop is.
LEMMA ArriveInv == PathInv /\ Arrive => PathInv'
<1> SUFFICES ASSUME PathInv, Arrive PROVE PathInv'
  OBVIOUS
<1>1. stage = "walk" /\ parts = <<>> /\ Finish(Found(resolved)) /\ PathTypeOK /\ TreeOK(disk)
  BY PathTypes DEF PathInv, Arrive
<1>2. Found(resolved).found /\ Found(resolved).place = resolved
  BY DEF Found
<1>3. CASE Lenient
  BY <1>1, <1>3, FinishRight
<1>4. CASE \E met \in Seq(Seq(Parts)) : Agrees(met)
  <2>1. PICK met \in Seq(Seq(Parts)) : Agrees(met)
    BY <1>4
  <2>2. At(resolved, met) \in Reached
    BY <1>1 DEF PathTypeOK, At, Reached
  <2>3. ByKernel = At(resolved, met)
    BY <1>1, <2>1, <2>2, FromSteps DEF Agrees
  <2>4. ByKernel.ok /\ ByKernel.place = resolved /\ ByKernel.met = met
    BY <2>3 DEF At
  <2>5. \A i \in DOMAIN ByKernel.met : Allowed(ByKernel.met[i])
    BY <2>1, <2>4 DEF Agrees
  <2> QED
    BY <1>1, <1>2, <2>4, <2>5, FinishRight
<1> QED
  BY <1>1, <1>3, <1>4 DEF PathInv

\* What the next component is for the kernel.
LEMMA KernelNext ==
  ASSUME PathInv, stage = "walk", parts # <<>>, NEW met \in Seq(Seq(Parts)), Agrees(met)
  PROVE  /\ At(resolved, met) \in Reached
         /\ Head(parts) \in Parts /\ Tail(parts) \in Seq(Parts) /\ TreeOK(disk)
         /\ resolved \in Seq(Parts) /\ hops \in Nat /\ Len(met) = hops
         /\ Here \in Seq(Parts) /\ Parent(Here) = resolved
         /\ ByKernel = From(disk, Step(disk, Kernel(disk), At(resolved, met), Head(parts)), Tail(parts))
<1>1. PathTypeOK /\ TreeOK(disk)
  BY PathTypes DEF PathInv
<1>2. At(resolved, met) \in Reached
  BY <1>1 DEF PathTypeOK, At, Reached
<1>3. Head(parts) \in Parts /\ Tail(parts) \in Seq(Parts) /\ resolved \in Seq(Parts) /\ hops \in Nat
  BY <1>1 DEF PathTypeOK
<1>4. Here \in Seq(Parts) /\ Parent(Here) = resolved
  <2>1. Here = Append(resolved, Head(parts)) /\ Here \in Seq(Parts) /\ Here # <<>>
    <3>1. Append(resolved, Head(parts)) \in Seq(Parts) /\ Len(Append(resolved, Head(parts))) = Len(resolved) + 1
      BY <1>3
    <3>2. Len(resolved) \in Nat /\ Len(<<>>) = 0
      BY <1>3
    <3> QED
      BY <3>1, <3>2 DEF Here
  <2>2. Front(Append(resolved, Head(parts))) = resolved
    BY <1>3 DEF Front
  <2> QED
    BY <2>1, <2>2 DEF Parent
<1>5. From(disk, At(resolved, met), parts)
        = From(disk, Step(disk, Kernel(disk), At(resolved, met), Head(parts)), Tail(parts))
  BY <1>1, <1>2, FromFront DEF PathTypeOK
<1> QED
  BY <1>1, <1>2, <1>3, <1>4, <1>5 DEF Agrees

\* What stops the kernel for a reason of its own stops it for good.
LEMMA StopsThere ==
  ASSUME NEW t, TreeOK(t), NEW why \in {"denied", "notdir", "missing", "loop"}, NEW above \in BOOLEAN,
         NEW met \in Seq(Seq(Parts)), NEW s \in Seq(Parts)
  PROVE  From(t, Stop(why, above, met), s) = Stop(why, above, met)
<1>1. Stop(why, above, met) \in Reached /\ ~Stop(why, above, met).ok
  BY DEF Stop, Reached
<1> QED
  BY <1>1, FromStopped

\* ".." of a directory that can be searched is its parent for both; of anything else it is
\* the leniency.
LEMMA ClimbInv == PathInv /\ Climb => PathInv'
<1> SUFFICES ASSUME PathInv, Climb PROVE PathInv'
  OBVIOUS
<1>1. /\ stage = "walk" /\ parts # <<>> /\ Head(parts) = ".." /\ Goes(Tail(parts), Parent(resolved), hops)
      /\ PathTypeOK /\ TreeOK(disk)
  BY PathTypes DEF PathInv, Climb
<1>2. Tail(parts) \in Seq(Parts) /\ Parent(resolved) \in Seq(Parts) /\ hops \in Nat
  <2>1. Front(resolved) \in Seq(Parts) \/ resolved = <<>>
    BY <1>1 DEF PathTypeOK, Front
  <2> QED
    BY <1>1, <2>1 DEF PathTypeOK, Parent
<1>3. CASE Lenient
  BY <1>1, <1>2, <1>3, GoOn
<1>4. CASE \E met \in Seq(Seq(Parts)) : Agrees(met)
  <2>1. PICK met \in Seq(Seq(Parts)) : Agrees(met)
    BY <1>4
  <2> DEFINE r == Step(disk, Kernel(disk), At(resolved, met), "..")
  <2>2. ByKernel = From(disk, r, Tail(parts))
    BY <1>1, <2>1, KernelNext
  <2>3. CASE Searchable(disk, resolved)
    <3>1. r = At(Parent(resolved), met)
      BY <2>3 DEF Step, At
    <3> QED
      BY <1>1, <1>2, <2>1, <2>2, <3>1, GoOn DEF Agrees
  <2>4. CASE ~Searchable(disk, resolved)
    <3>1. \E why \in {"denied", "notdir", "missing", "loop"} : r = Stop(why, TRUE, met)
      BY <2>4 DEF Step, At
    <3>2. PICK why \in {"denied", "notdir", "missing", "loop"} : r = Stop(why, TRUE, met)
      BY <3>1
    <3>3. ByKernel = Stop(why, TRUE, met)
      <4>1. From(disk, Stop(why, TRUE, met), Tail(parts)) = Stop(why, TRUE, met)
        BY <1>1, <1>2, StopsThere
      <4> QED
        BY <2>2, <3>2, <4>1
    <3>4. Lenient
      BY <3>3 DEF Lenient, Stop
    <3> QED
      BY <1>1, <1>2, <3>4, GoOn
  <2> QED
    BY <2>3, <2>4
<1> QED
  BY <1>1, <1>3, <1>4 DEF PathInv

\* A component by name, in a directory that can be searched or not.
LEMMA StepNamed ==
  ASSUME Named, NEW met, TreeOK(disk)
  PROVE  LET r == Step(disk, Kernel(disk), At(resolved, met), Head(parts))
         IN /\ HereIs = "notdir" => r = Stop("notdir", FALSE, met)
            /\ HereIs = "denied" => r = Stop("denied", FALSE, met)
            /\ HereIs = "missing" => r = New(Here, met)
            /\ HereIs \in {"file", "dir"} => r = At(Here, met)
            /\ HereIs = "link" =>
                 /\ Here \in DOMAIN disk /\ disk[Here].kind = "link"
                 /\ r = IF Len(met) >= MaxHops THEN Stop("loop", FALSE, met)
                        ELSE From(disk, At(IF disk[Here].abs THEN <<>> ELSE resolved, Append(met, Here)),
                                  disk[Here].parts)
<1>1. Head(parts) # ".."
  BY DEF Named
<1>2. \A l \in DOMAIN disk : disk[l].kind \in {"dir", "file", "link"}
  BY DEF TreeOK, NodeOK
<1> QED
  BY <1>1, <1>2 DEF HereIs, LStat, Here, Step, At, From, Searchable

\* Where lstat is refused, so is the kernel.
LEMMA CannotLookInv == PathInv /\ CannotLook => PathInv'
<1> SUFFICES ASSUME PathInv, CannotLook PROVE PathInv'
  OBVIOUS
<1>1. Named /\ stage = "walk" /\ parts # <<>> /\ HereIs \in {"notdir", "denied"} /\ Finish(Failed(HereIs))
  BY DEF CannotLook, Named
<1>2. ~Failed(HereIs).found /\ Failed(HereIs).why = HereIs
  BY DEF Failed
<1>3. CASE Lenient
  BY <1>1, <1>3, FinishRight
<1>4. CASE \E met \in Seq(Seq(Parts)) : Agrees(met)
  <2>1. PICK met \in Seq(Seq(Parts)) : Agrees(met)
    BY <1>4
  <2> DEFINE r == Step(disk, Kernel(disk), At(resolved, met), Head(parts))
  <2>2. ByKernel = From(disk, r, Tail(parts)) /\ TreeOK(disk) /\ Tail(parts) \in Seq(Parts)
    BY <1>1, <2>1, KernelNext
  <2>3. r = Stop(HereIs, FALSE, met)
    BY <1>1, <2>2, StepNamed
  <2>4. From(disk, Stop(HereIs, FALSE, met), Tail(parts)) = Stop(HereIs, FALSE, met)
    <3>1. ASSUME NEW why \in {"notdir", "denied"}
          PROVE  From(disk, Stop(why, FALSE, met), Tail(parts)) = Stop(why, FALSE, met)
      <4>1. TreeOK(disk) /\ Tail(parts) \in Seq(Parts)
        BY <2>2
      <4>2. why \in {"denied", "notdir", "missing", "loop"} /\ FALSE \in BOOLEAN
        OBVIOUS
      <4> QED
        BY <4>1, <4>2, StopsThere, Zenon
    <3> QED
      BY <1>1, <3>1
  <2>5. ByKernel = Stop(HereIs, FALSE, met)
    BY <2>2, <2>3, <2>4
  <2>6. ~ByKernel.ok
    BY <2>5 DEF Stop
  <2> QED
    BY <1>1, <1>2, <2>6, FinishRight
<1> QED
  BY <1>1, <1>3, <1>4 DEF PathInv

\* Below what is missing, the kernel joins as well, or stops at "..".
LEMMA JoinMissingInv == PathInv /\ JoinMissing => PathInv'
<1> SUFFICES ASSUME PathInv, JoinMissing PROVE PathInv'
  OBVIOUS
<1> DEFINE rest == Tail(parts)
           result == JoinRest(Here, rest)
<1>1. Named /\ stage = "walk" /\ parts # <<>> /\ HereIs = "missing" /\ Finish(result)
  BY DEF JoinMissing, Named
<1>2. CASE Lenient
  BY <1>1, <1>2, FinishRight
<1>3. CASE \E met \in Seq(Seq(Parts)) : Agrees(met)
  <2>1. PICK met \in Seq(Seq(Parts)) : Agrees(met)
    BY <1>3
  <2> DEFINE r == Step(disk, Kernel(disk), At(resolved, met), Head(parts))
  <2>2. ByKernel = From(disk, r, rest) /\ TreeOK(disk) /\ rest \in Seq(Parts) /\ Here \in Seq(Parts)
    BY <1>1, <2>1, KernelNext
  <2>3. r = New(Here, met)
    BY <1>1, <2>2, StepNamed
  <2>4. From(disk, New(Here, met), rest) = Beyond(Here, rest, met)
    BY <2>2, FromNew
  <2>5. ByKernel = Beyond(Here, rest, met)
    BY <2>2, <2>3, <2>4
  <2>6. CASE Contains(rest, "..")
    <3>1. result = Failed("missing") /\ ByKernel = Stop("missing", FALSE, met)
      BY <2>5, <2>6 DEF JoinRest, Beyond
    <3>2. ~result.found /\ result.why = "missing" /\ ~ByKernel.ok
      BY <3>1 DEF Failed, Stop
    <3> QED
      BY <1>1, <3>2, FinishRight
  <2>7. CASE ~Contains(rest, "..")
    <3>1. result = Found(Here \o rest) /\ ByKernel = New(Here \o rest, met)
      BY <2>5, <2>7 DEF JoinRest, Beyond
    <3>2. result.found /\ result.place = ByKernel.place /\ ByKernel.ok /\ ByKernel.met = met
      BY <3>1 DEF Found, New
    <3>3. \A i \in DOMAIN ByKernel.met : Allowed(ByKernel.met[i])
      BY <2>1, <3>2 DEF Agrees
    <3> QED
      BY <1>1, <3>2, <3>3, FinishRight
  <2> QED
    BY <2>6, <2>7
<1> QED
  BY <1>1, <1>2, <1>3 DEF PathInv

\* A component that is no link is one step for both.
LEMMA PassInv == PathInv /\ Pass => PathInv'
<1> SUFFICES ASSUME PathInv, Pass PROVE PathInv'
  OBVIOUS
<1>1. /\ Named /\ stage = "walk" /\ parts # <<>> /\ HereIs \in {"file", "dir"}
      /\ Goes(Tail(parts), Here, hops) /\ PathTypeOK
  BY DEF Pass, Named, PathInv
<1>2. Tail(parts) \in Seq(Parts) /\ Here \in Seq(Parts) /\ hops \in Nat
  BY <1>1 DEF PathTypeOK, Here
<1>3. CASE Lenient
  BY <1>1, <1>2, <1>3, GoOn
<1>4. CASE \E met \in Seq(Seq(Parts)) : Agrees(met)
  <2>1. PICK met \in Seq(Seq(Parts)) : Agrees(met)
    BY <1>4
  <2> DEFINE r == Step(disk, Kernel(disk), At(resolved, met), Head(parts))
  <2>2. ByKernel = From(disk, r, Tail(parts)) /\ TreeOK(disk)
    BY <1>1, <2>1, KernelNext
  <2>3. r = At(Here, met)
    BY <1>1, <2>2, StepNamed
  <2>4. ByKernel = From(disk, At(Here, met), Tail(parts))
    BY <2>2, <2>3
  <2> QED
    BY <1>1, <1>2, <2>1, <2>4, GoOn DEF Agrees
<1> QED
  BY <1>1, <1>3, <1>4 DEF PathInv

\* A link the rule allows is one more that was met; one it does not allow is on the
\* kernel's way too; and both have the same limit.
LEMMA HopInv == PathInv /\ Hop => PathInv'
<1> SUFFICES ASSUME PathInv, Hop PROVE PathInv'
  OBVIOUS
<1> DEFINE rest == Tail(parts)
           link == disk[Here]
           base == IF link.abs THEN <<>> ELSE resolved
<1>1. /\ Named /\ stage = "walk" /\ parts # <<>> /\ HereIs = "link" /\ PathTypeOK /\ TreeOK(disk)
      /\ IF hops >= MaxHops THEN Finish(Failed("loop"))
         ELSE IF ~HopAllowed(link, Holder(disk, resolved)) THEN Finish(Failed("unsafe"))
         ELSE Goes(link.parts \o rest, base, hops + 1)
  BY PathTypes DEF Hop, Named, PathInv
<1>t. rest \in Seq(Parts) /\ Here \in Seq(Parts) /\ hops \in Nat /\ resolved \in Seq(Parts)
  BY <1>1 DEF PathTypeOK, Here
<1>k. link.parts \in Seq(Parts) /\ base \in Seq(Parts) /\ link.parts \o rest \in Seq(Parts)
  <2>1. Here \in DOMAIN disk /\ link.kind = "link"
    BY <1>1, StepNamed
  <2> QED
    BY <1>1, <1>t, <2>1 DEF TreeOK, NodeOK
<1>f. \A why : ~Failed(why).found /\ Failed(why).why = why
  BY DEF Failed
<1>2. CASE Lenient
  <2>1. CASE \E why : Finish(Failed(why))
    BY <1>2, <2>1, FinishRight
  <2>2. CASE Goes(link.parts \o rest, base, hops + 1)
    <3>1. hops + 1 \in Nat
      BY <1>t
    <3> HIDE DEF link, rest, base
    <3> QED
      BY <1>1, <1>2, <1>k, <2>2, <3>1, GoOn
  <2> QED
    BY <1>1, <2>1, <2>2
<1>3. CASE \E met \in Seq(Seq(Parts)) : Agrees(met)
  <2>1. PICK met \in Seq(Seq(Parts)) : Agrees(met)
    BY <1>3
  <2> DEFINE r == Step(disk, Kernel(disk), At(resolved, met), Head(parts))
             more == Append(met, Here)
  <2>2. ByKernel = From(disk, r, rest) /\ Len(met) = hops /\ Parent(Here) = resolved
    BY <1>1, <2>1, KernelNext
  <2>3. r = IF Len(met) >= MaxHops THEN Stop("loop", FALSE, met)
            ELSE From(disk, At(base, more), link.parts)
    BY <1>1, StepNamed
  <2>4. /\ more \in Seq(Seq(Parts)) /\ Len(more) = hops + 1 /\ more[hops + 1] = Here
        /\ \A i \in 1..hops : more[i] = met[i]
    BY <1>t, <2>2
  <2>5. At(base, more) \in Reached /\ At(base, more).met = more
    BY <1>k, <2>4 DEF At, Reached
  <2> HIDE DEF r, more
  <2>6. CASE hops >= MaxHops
    <3>1. r = Stop("loop", FALSE, met) /\ Finish(Failed("loop"))
      BY <1>1, <2>2, <2>3, <2>6
    <3>2. From(disk, Stop("loop", FALSE, met), rest) = Stop("loop", FALSE, met)
      BY <1>1, <1>t, StopsThere
    <3>3. ByKernel = Stop("loop", FALSE, met)
      BY <2>2, <3>1, <3>2
    <3>4. ~ByKernel.ok
      BY <3>3 DEF Stop
    <3> QED
      BY <1>f, <3>1, <3>4, FinishRight
  <2>7. CASE ~(hops >= MaxHops)
    <3>1. ByKernel = From(disk, At(base, more), link.parts \o rest)
      <4>1. r = From(disk, At(base, more), link.parts)
        BY <2>2, <2>3, <2>7
      <4>2. From(disk, At(base, more), link.parts \o rest)
              = From(disk, From(disk, At(base, more), link.parts), rest)
        <5> HIDE DEF link, rest, base
        <5> QED
          BY <1>1, <1>t, <1>k, <2>5, FromConcat, Zenon
      <4> QED
        BY <2>2, <4>1, <4>2
    <3>2. Allowed(Here) <=> HopAllowed(link, Holder(disk, resolved))
      BY <2>2 DEF Allowed, Holder
    <3>3. CASE Allowed(Here)
      <4>1. \A i \in DOMAIN more : Allowed(more[i])
        <5>1. DOMAIN more = 1..(hops + 1) /\ DOMAIN met = 1..hops
          BY <1>t, <2>2, <2>4
        <5>2. \A i \in 1..(hops + 1) : i \in 1..hops \/ i = hops + 1
          BY <1>t
        <5> QED
          BY <2>1, <2>4, <3>3, <5>1, <5>2 DEF Agrees
      <4>2. Goes(link.parts \o rest, base, hops + 1) /\ hops + 1 \in Nat
        BY <1>1, <1>t, <2>7, <3>2, <3>3
      <4> HIDE DEF link, rest, base
      <4> QED
        BY <1>1, <1>k, <2>4, <3>1, <4>1, <4>2, GoOn
    <3>4. CASE ~Allowed(Here)
      <4>1. Finish(Failed("unsafe"))
        BY <1>1, <2>7, <3>2, <3>4
      <4>2. ByKernel \in Reached /\ IsPrefix(more, ByKernel.met)
        <5>1. IsPrefix(At(base, more).met, From(disk, At(base, more), link.parts \o rest).met)
              /\ From(disk, At(base, more), link.parts \o rest) \in Reached
          BY <1>1, <1>k, <2>5, FromMet
        <5> QED
          BY <2>5, <3>1, <5>1
      <4>3. hops + 1 \in DOMAIN ByKernel.met /\ ByKernel.met[hops + 1] = Here
        <5>1. ByKernel.met \in Seq(Seq(Parts))
          BY <4>2, MetType
        <5>2. Len(more) <= Len(ByKernel.met) /\ \A i \in 1..Len(more) : more[i] = ByKernel.met[i]
          BY <2>4, <4>2, <5>1, PrefixIs
        <5> QED
          BY <1>t, <2>4, <5>1, <5>2
      <4> QED
        BY <1>f, <3>4, <4>1, <4>3, FinishRight
    <3> QED
      BY <3>3, <3>4
  <2> QED
    BY <2>6, <2>7
<1> QED
  BY <1>1, <1>2, <1>3 DEF PathInv

\* One lemma for each branch of the loop; a stutter changes nothing.
LEMMA PathStepInv == PathInv /\ [PathNext]_pathVars => PathInv'
<1> SUFFICES ASSUME PathInv, [PathNext]_pathVars PROVE PathInv'
  OBVIOUS
<1>1. CASE UNCHANGED pathVars
  <2>1. /\ stage' = stage /\ disk' = disk /\ wanted' = wanted /\ parts' = parts
        /\ resolved' = resolved /\ hops' = hops /\ outcome' = outcome
    BY <1>1 DEF pathVars
  <2>2. ByKernel' = ByKernel /\ Refused' = Refused /\ \A l : Allowed(l)' = Allowed(l)
    BY <2>1, SameKernel
  <2>3. \A met : Agrees(met)' <=> Agrees(met)
    BY <2>1, <2>2 DEF Agrees
  <2>4. PathTypeOK' /\ (Lenient' <=> Lenient)
    BY <2>1, <2>2 DEF PathInv, PathTypeOK, Lenient
  <2>5. ResolvesAsKernel' /\ EveryLinkChecked'
    BY <2>1, <2>2, Zenon DEF PathInv, ResolvesAsKernel, EveryLinkChecked
  <2> QED
    BY <2>1, <2>3, <2>4, <2>5 DEF PathInv
<1> QED
  BY <1>1, ValidateInv, ArriveInv, ClimbInv, JoinMissingInv, CannotLookInv, PassInv, HopInv DEF PathNext

\* _checked_resolve gets where the kernel gets, or refuses.
THEOREM AsKernel == PathSpec => []ResolvesAsKernel
<1>1. PathInv => ResolvesAsKernel
  BY DEF PathInv
<1> QED
  BY <1>1, PathInitInv, PathStepInv, PTL DEF PathSpec

\* And it has applied the rule to every link on the way.
THEOREM LinksChecked == PathSpec => []EveryLinkChecked
<1>1. PathInv => EveryLinkChecked
  BY DEF PathInv
<1> QED
  BY <1>1, PathInitInv, PathStepInv, PTL DEF PathSpec

-----------------------------------------------------------------------------
(* The calls of _list: every directory on the stack is below the one before, *)
(* and what is left in it was found in it.                                   *)

Frame == [dir : Seq(Parts), names : SUBSET Range(Names)]

\* A place n levels below the path asked for.
Down(p, n) ==
  /\ p \in Seq(Parts) /\ Len(p) = Len(Asked) + n
  /\ \A i \in 1..Len(Asked) : p[i] = Asked[i]
  /\ \A i \in Len(Asked) + 1 .. Len(p) : p[i] \in Range(Names)

FrameOK(f, i) ==
  /\ Down(f.dir, i - 1)
  /\ i > 1 => \E t \in Trees : StatIn(t, f.dir) = "dir"
  /\ \A n \in f.names : \E t \in Trees : EntryIn(t, Append(f.dir, n))

StackOK(frames) ==
  /\ frames \in Seq(Frame) /\ Len(frames) <= Limit
  /\ \A i \in DOMAIN frames : FrameOK(frames[i], i)

\* The loop is where its program counter says.
AtHand ==
  /\ pc \in {"exists", "isdir"} => stack = <<>> /\ listed = {} /\ marks = {}
  /\ pc = "list" => stack # <<>>
  /\ pc \in {"look", "size", "enter"} => stack # <<>> /\ Top.names # {}
  /\ pc \in {"size", "enter"} => \E t \in Trees : kind = TypeOf(StatIn(t, Item))
  /\ pc = "enter" => recursive
  /\ pc = "done" => stack = <<>>
  /\ answer # "none" => pc = "done"

ListTypeOK ==
  /\ recursive \in BOOLEAN /\ maxDepth \in Int
  /\ was \in Seq(Range(was)) /\ tree \in Trees /\ \A t \in Trees : TreeOK(t)
  /\ pc \in {"exists", "isdir", "list", "look", "size", "enter", "done"}

\* The premise of ListsWhatStays.
Stays(path, k) ==
  /\ \A t \in Trees : EntryIn(t, path) /\ (StatIn(t, path) = k \/ (k = "file" /\ StatIn(t, path) = "gone"))
  /\ \A i \in Len(Asked)..(Len(path) - 1) :
       /\ SubSeq(path, 1, i) \notin marks
       /\ \A t \in Trees : StatIn(t, SubSeq(path, 1, i)) = "dir"

\* It is still to come: it, or a directory above it, is among the names left, or in
\* the directory that is about to be listed.
Inside(path, dir) == Len(path) > Len(dir) /\ \A i \in 1..Len(dir) : path[i] = dir[i]
Waits(path, frames) ==
  \E i \in DOMAIN frames :
    Inside(path, frames[i].dir) /\ path[Len(frames[i].dir) + 1] \in frames[i].names
Opens(path) == pc = "list" /\ Inside(path, Top.dir)

Covered ==
  answer # "error" =>
    \A path \in Below : \A k \in {"dir", "file"} :
      Stays(path, k) => \/ [path |-> path, kind |-> k] \in listed
                        \/ pc \in {"exists", "isdir"} \/ Waits(path, stack) \/ Opens(path)

ListInv == ListTypeOK /\ StackOK(stack) /\ AtHand /\ Covered /\ SaysWhatWas

-----------------------------------------------------------------------------
(* Names and places. *)

\* Names are parts other than "..", and so is what a path asked for is made of.
LEMMA NamesType == Range(Names) \subseteq Parts /\ ".." \notin Range(Names) /\ Asked \in Seq(Parts)
BY ListOK DEF Range

\* The next name is one of those left.
LEMMA FirstIsLeft == ASSUME NEW S, S \subseteq Range(Names), S # {} PROVE FirstOf(S) \in S
<1> DEFINE at == {i \in DOMAIN Names : Names[i] \in S}
<1>1. DOMAIN Names = 1..Len(Names) /\ Len(Names) \in Nat
  BY ListOK, LenProperties
<1>2. at \subseteq Nat /\ at # {}
  BY <1>1 DEF Range
<1>3. PICK i \in at : \A j \in at : i <= j
  <2> HIDE DEF at
  <2> QED
    BY <1>2, LeastNumber
<1>4. \A j \in 1..(i - 1) : Names[j] \notin S
  <2>1. ASSUME NEW j \in 1..(i - 1), Names[j] \in S PROVE FALSE
    <3>1. j \in at /\ j < i
      BY <1>1, <2>1
    <3> QED
      BY <1>1, <1>3, <3>1
  <2> QED
    BY <2>1
<1> QED
  BY <1>3, <1>4 DEF FirstOf

\* A place below one is that one and another name, or below these.
LEMMA InsideIs ==
  ASSUME NEW path \in Seq(Parts), NEW dir \in Seq(Parts), Inside(path, dir)
  PROVE  /\ SubSeq(path, 1, Len(dir)) = dir
         /\ path[Len(dir) + 1] \in Parts
         /\ \/ path = Append(dir, path[Len(dir) + 1])
            \/ Inside(path, Append(dir, path[Len(dir) + 1]))
<1> DEFINE n == path[Len(dir) + 1]
           d == SubSeq(path, 1, Len(dir))
           e == Append(dir, n)
<1>1. Len(path) > Len(dir) /\ Len(path) \in Nat /\ Len(dir) \in Nat /\ \A i \in 1..Len(dir) : path[i] = dir[i]
  BY DEF Inside
<1>2. d \in Seq(Parts) /\ Len(d) = Len(dir) /\ \A i \in 1..Len(dir) : d[i] = path[i]
  BY <1>1
<1>3. d = dir
  <2> HIDE DEF d
  <2> QED
    BY <1>1, <1>2, SeqEqual
<1>4. n \in Parts
  BY <1>1
<1>5. /\ e \in Seq(Parts) /\ Len(e) = Len(dir) + 1 /\ e[Len(dir) + 1] = n
      /\ \A i \in 1..Len(dir) : e[i] = dir[i]
  BY <1>4
<1> HIDE DEF e
<1>6. \A i \in 1..Len(e) : i \in 1..Len(dir) \/ i = Len(dir) + 1
  BY <1>1, <1>5
<1>7. \A i \in 1..Len(e) : path[i] = e[i]
  BY <1>1, <1>5, <1>6
<1>8. CASE Len(path) = Len(dir) + 1
  <2>1. path = e
    BY <1>5, <1>7, <1>8, SeqEqual
  <2> QED
    BY <1>3, <1>4, <2>1 DEF e
<1>9. CASE Len(path) # Len(dir) + 1
  <2>1. Inside(path, e)
    BY <1>1, <1>5, <1>7, <1>9 DEF Inside
  <2> QED
    BY <1>3, <1>4, <2>1 DEF e
<1> QED
  BY <1>8, <1>9

\* What has an entry below it is a place one level deeper.
LEMMA DownAgain ==
  ASSUME NEW d, NEW m \in Nat, Down(d, m), NEW n \in Range(Names)
  PROVE  /\ Down(Append(d, n), m + 1) /\ Depth(Append(d, n)) = m + 1
         /\ Front(Append(d, n)) = d /\ Last(Append(d, n)) = n
<1> DEFINE e == Append(d, n)
<1>1. d \in Seq(Parts) /\ n \in Parts /\ Len(d) = Len(Asked) + m /\ Len(Asked) \in Nat /\ Len(d) \in Nat
  BY NamesType DEF Down
<1>2. e \in Seq(Parts) /\ Len(e) = Len(d) + 1 /\ e[Len(d) + 1] = n /\ \A i \in 1..Len(d) : e[i] = d[i]
  BY <1>1
<1>3. SubSeq(e, 1, Len(d)) = d
  BY <1>1
<1> HIDE DEF e
<1>4. \A i \in 1..Len(Asked) : e[i] = Asked[i]
  BY <1>1, <1>2 DEF Down
<1>5. ASSUME NEW i \in Len(Asked) + 1 .. Len(e) PROVE e[i] \in Range(Names)
  <2>1. i \in Len(Asked) + 1 .. Len(d) \/ i = Len(d) + 1
    BY <1>1, <1>2
  <2>2. i \in Len(Asked) + 1 .. Len(d) => i \in 1..Len(d)
    BY <1>1
  <2> QED
    BY <1>2, <2>1, <2>2 DEF Down
<1>6. Down(e, m + 1)
  BY <1>1, <1>2, <1>4, <1>5 DEF Down
<1>7. Depth(e) = m + 1
  BY <1>1, <1>2 DEF Depth
<1>8. Front(e) = d /\ Last(e) = n
  BY <1>1, <1>2, <1>3 DEF Front, Last
<1> QED
  BY <1>6, <1>7, <1>8 DEF e

\* The directory asked for is the first one listed.
LEMMA DownAsked == Down(Asked, 0)
BY NamesType DEF Down

\* The limit is at least one level.
LEMMA LimitType ==
  ASSUME recursive \in BOOLEAN, maxDepth \in Int
  PROVE  Limit \in Nat /\ Limit >= 1 /\ (~recursive => Limit = 1)
         /\ (recursive => (Limit = 1 /\ maxDepth <= 1) \/ Limit = maxDepth)
BY DEF Limit

\* The names an answer may have.
LEMMA BelowIs ==
  ASSUME recursive \in BOOLEAN, maxDepth \in Int
  PROVE  /\ \A path \in Below : \E n \in 1..Limit : Down(path, n)
         /\ \A d : \A n \in 1..Limit : Down(d, n) => d \in Below
<1>0. Len(Asked) \in Nat /\ Asked \in Seq(Parts) /\ Limit \in Nat
  BY NamesType, LimitType
<1>1. ASSUME NEW path \in Below PROVE \E n \in 1..Limit : Down(path, n)
  <2>0. PICK n \in 1..Limit : \E q \in [1..n -> Range(Names)] : path = Asked \o q
    BY DEF Below
  <2>1. PICK q \in [1..n -> Range(Names)] : path = Asked \o q
    BY <2>0
  <2>2. n \in Nat
    BY <1>0
  <2>3. q \in Seq(Range(Names)) /\ Len(q) = n
    BY <2>2, IsASeq
  <2>4. q \in Seq(Parts) /\ \A i \in 1..n : q[i] \in Range(Names)
    BY <2>1, <2>3, NamesType
  <2>c. /\ Asked \o q \in Seq(Parts) /\ Len(Asked \o q) = Len(Asked) + Len(q)
        /\ \A i \in 1..Len(Asked) + Len(q) :
             (Asked \o q)[i] = IF i <= Len(Asked) THEN Asked[i] ELSE q[i - Len(Asked)]
    BY <1>0, <2>4, ConcatProperties
  <2>5. path \in Seq(Parts) /\ Len(path) = Len(Asked) + n
    BY <2>1, <2>3, <2>c
  <2>6. \A i \in 1..Len(Asked) : path[i] = Asked[i]
    BY <1>0, <2>1, <2>2, <2>3, <2>c
  <2>7. \A i \in Len(Asked) + 1 .. Len(path) : path[i] = q[i - Len(Asked)] /\ i - Len(Asked) \in 1..n
    BY <1>0, <2>1, <2>2, <2>3, <2>5, <2>c
  <2> QED
    BY <2>4, <2>5, <2>6, <2>7 DEF Down
<1>2. ASSUME NEW d, NEW n \in 1..Limit, Down(d, n) PROVE d \in Below
  <2> DEFINE q == [i \in 1..n |-> d[Len(Asked) + i]]
             e == Asked \o q
  <2>1. d \in Seq(Parts) /\ Len(d) = Len(Asked) + n /\ n \in Nat
    BY <1>0, <1>2 DEF Down
  <2>2. \A i \in 1..n : Len(Asked) + i \in Len(Asked) + 1 .. Len(d)
    BY <1>0, <2>1
  <2>3. q \in [1..n -> Range(Names)]
    BY <1>2, <2>2 DEF Down
  <2>4. q \in Seq(Range(Names)) /\ Len(q) = n
    BY <2>1, <2>3, IsASeq
  <2>5. q \in Seq(Parts) /\ \A i \in 1..n : q[i] = d[Len(Asked) + i]
    BY <2>4, <2>3, NamesType
  <2> HIDE DEF q
  <2>6. e \in Seq(Parts) /\ Len(e) = Len(d)
    BY <1>0, <2>1, <2>4, <2>5
  <2>7. ASSUME NEW i \in 1..Len(d) PROVE e[i] = d[i]
    <3>1. CASE i <= Len(Asked)
      <4>1. i \in 1..Len(Asked)
        BY <1>0, <2>1, <3>1
      <4> QED
        BY <4>1, <1>0, <1>2, <2>4, <2>5 DEF Down
    <3>2. CASE ~(i <= Len(Asked))
      <4>1. i - Len(Asked) \in 1..n /\ Len(Asked) + (i - Len(Asked)) = i
        BY <1>0, <2>1, <3>2
      <4>2. e[i] = q[i - Len(Asked)]
        BY <1>0, <2>1, <2>4, <2>5, <3>2
      <4> QED
        BY <2>5, <4>1, <4>2
    <3> QED
      BY <3>1, <3>2
  <2>8. d = e
    <3> HIDE DEF e
    <3> QED
      BY <2>1, <2>6, <2>7, SeqEqual
  <2> QED
    BY <2>3, <2>8 DEF Below
<1> QED
  BY <1>1, <1>2

\* stat follows links.
LEMMA StatType ==
  ASSUME NEW t, TreeOK(t), NEW path \in Seq(Parts)
  PROVE  StatIn(t, path) \in {"gone", "denied", "dir", "file"}
<1> DEFINE k == Physical(t, path)
<1>1. k \in Ends(t)
  BY KernelEnds
<1> HIDE DEF k
<1>2. k.ok /\ ~k.new => t[k.place].kind \in {"dir", "file"}
  BY <1>1 DEF Ends, TreeOK, NodeOK
<1>3. StatIn(t, path) = IF k.ok THEN IF k.new THEN "gone" ELSE t[k.place].kind
                        ELSE IF k.why = "denied" THEN "denied" ELSE "gone"
  BY DEF StatIn, k
<1> QED
  BY <1>2, <1>3

\* What is a directory under a name of its own is an entry of the one above.
LEMMA DirIsEntry ==
  ASSUME NEW t, TreeOK(t), NEW d \in Seq(Parts), NEW n \in Range(Names), StatIn(t, Append(d, n)) = "dir"
  PROVE  n \in NamesIn(t, d)
<1> DEFINE root == At(<<>>, <<>>)
           k == Physical(t, d)
           e == Physical(t, Append(d, n))
<1>1. n \in Parts /\ n # ".."
  BY NamesType
<1>2. root \in Reached
  BY DEF At, Reached
<1>3. k \in Reached /\ e = Step(t, Kernel(t), k, n)
  <2>1. k = From(t, root, d) /\ e = From(t, root, Append(d, n))
    BY DEF Physical, From
  <2>2. From(t, root, d) \in Reached /\ From(t, root, Append(d, n)) = Step(t, Kernel(t), From(t, root, d), n)
    <3> HIDE DEF root
    <3> QED
      BY <1>1, <1>2, FromSteps
  <2> QED
    BY <2>1, <2>2
<1>4. e.ok /\ ~e.new
  <2>1. StatIn(t, Append(d, n)) = IF e.ok THEN IF e.new THEN "gone" ELSE t[e.place].kind
                                  ELSE IF e.why = "denied" THEN "denied" ELSE "gone"
    BY DEF StatIn
  <2>2. e \in Reached
    BY <1>1, <1>3, StepType, KernelSteps
  <2> HIDE DEF e
  <2>3. e.ok \in BOOLEAN /\ (e.ok => e.new \in BOOLEAN)
    BY <2>2 DEF Reached
  <2> QED
    BY <2>1, <2>3
<1> HIDE DEF k, e
<1>5. Append(k.place, n) \in DOMAIN t
  <2>1. k.ok \in BOOLEAN /\ (k.ok => k.new \in BOOLEAN)
    BY <1>3 DEF Reached
  <2> QED
    BY <1>1, <1>3, <1>4, <2>1 DEF Step, Stop, New, At
<1> QED
  BY <1>5 DEF NamesIn, k

\* Without an entry at hand there is none of these.
LEMMA EntryIs ==
  ASSUME NEW d, NEW m \in Nat, Down(d, m), NEW n \in Range(Names), NEW t
  PROVE  EntryIn(t, Append(d, n)) <=> n \in NamesIn(t, d) /\ StatIn(t, d) = "dir"
BY DownAgain DEF EntryIn, EntriesOf

-----------------------------------------------------------------------------
(* Parts of SaysWhatWas. *)

Said(e) ==
  /\ Depth(e.path) \in 1..Limit
  /\ \E t \in Trees : EntryIn(t, e.path)
  /\ \E t \in Trees : (StatIn(t, e.path) = "dir") = (e.kind = "dir")

Excused(d) ==
  \E t \in Trees : \/ StatIn(t, d) = "denied" \/ Locked(t, d)
                   \/ \E n \in Range(Names) : StatIn(t, Append(d, n)) = "denied"

Lost ==
  \E d \in Below \cup {Asked} :
    /\ d = Asked \/ \E t \in Trees : StatIn(t, d) = "dir"
    /\ \E t \in Trees : StatIn(t, d) \in {"gone", "file"} \/ (d = Asked /\ StatIn(t, d) = "denied")

\* SaysWhatWas, part by part.
LEMMA SaysIs ==
  SaysWhatWas <=> /\ \A e \in listed : Said(e)
                  /\ \A d \in marks : Excused(d)
                  /\ answer = "error" => Lost
BY DEF SaysWhatWas, Said, Excused, Lost

\* A step of the call: what is said, and what is still to come.
LEMMA Moves ==
  ASSUME ListInv, UNCHANGED env, AtHand', StackOK(stack'), Covered',
         pc' \in {"exists", "isdir", "list", "look", "size", "enter", "done"},
         \A e \in listed' : Said(e), \A d \in marks' : Excused(d), answer' = "error" => Lost
  PROVE  ListInv'
<1>1. tree' = tree /\ recursive' = recursive /\ maxDepth' = maxDepth /\ was' = was
  BY DEF env
<1>2. Trees' = Trees /\ Limit' = Limit /\ Below' = Below
  BY <1>1 DEF Trees, Limit, Below
<1>3. ListTypeOK'
  BY <1>1, <1>2 DEF ListInv, ListTypeOK
<1>4. StackOK(stack)'
  BY <1>2 DEF StackOK, FrameOK
<1>5. SaysWhatWas'
  <2>1. (\A e : Said(e)' <=> Said(e)) /\ (\A d : Excused(d)' <=> Excused(d)) /\ (Lost' <=> Lost)
    BY <1>2, Zenon DEF Said, Excused, Lost
  <2>2. SaysWhatWas' <=> /\ \A e \in listed' : Said(e)'
                         /\ \A d \in marks' : Excused(d)'
                         /\ answer' = "error" => Lost'
    BY DEF SaysWhatWas, Said, Excused, Lost
  <2> QED
    BY <2>1, <2>2
<1> QED
  BY <1>3, <1>4, <1>5 DEF ListInv

\* The call of _list at work.
LEMMA TopIs ==
  ASSUME ListInv, stack # <<>>
  PROVE  /\ Len(stack) \in Nat /\ Len(stack) >= 1 /\ Len(stack) <= Limit /\ Limit \in Nat
         /\ stack \in Seq(Frame) /\ DOMAIN stack = 1..Len(stack)
         /\ Top = stack[Len(stack)] /\ Top \in Frame /\ FrameOK(Top, Len(stack))
         /\ Top.dir \in Seq(Parts) /\ Top.names \subseteq Range(Names)
         /\ Down(Top.dir, Len(stack) - 1) /\ Len(stack) - 1 \in Nat
         /\ Len(Top.dir) = Len(Asked) + Len(stack) - 1 /\ Len(Asked) \in Nat
<1>1. stack \in Seq(Frame) /\ Len(stack) <= Limit /\ \A i \in DOMAIN stack : FrameOK(stack[i], i)
  BY DEF ListInv, StackOK
<1>2. Limit \in Nat /\ Len(Asked) \in Nat
  BY LimitType, NamesType DEF ListInv, ListTypeOK
<1>3. Len(stack) \in Nat /\ Len(stack) >= 1 /\ DOMAIN stack = 1..Len(stack) /\ Len(stack) - 1 \in Nat
  BY <1>1
<1>4. Len(stack) \in DOMAIN stack /\ Top = stack[Len(stack)] /\ Top \in Frame
  BY <1>1, <1>3 DEF Top, Last
<1>5. Top.dir \in Seq(Parts) /\ Top.names \subseteq Range(Names)
  BY <1>4 DEF Frame
<1>6. FrameOK(Top, Len(stack))
  BY <1>1, <1>4
<1>7. Down(Top.dir, Len(stack) - 1)
  BY <1>6 DEF FrameOK
<1>8. Len(Top.dir) = Len(Asked) + Len(stack) - 1
  BY <1>2, <1>3, <1>7 DEF Down
<1> QED
  BY <1>1, <1>2, <1>3, <1>4, <1>5, <1>6, <1>7, <1>8

\* With other names left in it.
LEMMA LeaveIs ==
  ASSUME ListInv, stack # <<>>, NEW names, names \subseteq Range(Names),
         \A n \in names : \E t \in Trees : EntryIn(t, Append(Top.dir, n))
  PROVE  /\ StackOK(Leave(names)) /\ Len(Leave(names)) = Len(stack)
         /\ Leave(names)[Len(stack)] = [dir |-> Top.dir, names |-> names]
         /\ \A i \in 1..Len(stack) : i # Len(stack) => Leave(names)[i] = stack[i]
<1> DEFINE n == Len(stack)
           f == [dir |-> Top.dir, names |-> names]
           l == Leave(names)
<1>1. /\ n \in Nat /\ n >= 1 /\ n <= Limit /\ stack \in Seq(Frame) /\ DOMAIN stack = 1..n
      /\ Top = stack[n] /\ Top \in Frame /\ FrameOK(Top, n) /\ Top.dir \in Seq(Parts)
  BY TopIs
<1>2. f \in Frame /\ f.dir = Top.dir /\ f.names = names
  BY <1>1 DEF Frame
<1>3. [stack[n] EXCEPT !.names = names] = f
  BY <1>1 DEF Frame
<1>4. l = [stack EXCEPT ![n] = f]
  BY <1>3 DEF Leave
<1>5. /\ l \in Seq(Frame) /\ Len(l) = n /\ l[n] = f /\ DOMAIN l = 1..n
      /\ \A i \in 1..n : i # n => l[i] = stack[i]
  <2> HIDE DEF f, l
  <2>1. n \in 1..n
    BY <1>1
  <2>2. l \in Seq(Frame) /\ Len(l) = n
    BY <1>1, <1>2, <1>4, <2>1, ExceptSeq
  <2> QED
    BY <1>1, <1>4, <2>1, <2>2
<1>6. FrameOK(f, n)
  BY <1>1, <1>2 DEF FrameOK
<1>7. \A i \in 1..n : FrameOK(l[i], i)
  <2>1. \A i \in 1..n : FrameOK(stack[i], i)
    BY <1>1 DEF ListInv, StackOK
  <2> QED
    BY <1>5, <1>6, <2>1
<1>8. StackOK(l)
  BY <1>1, <1>5, <1>7 DEF StackOK
<1> QED
  BY <1>5, <1>8

\* The calls that have nothing left return, and nothing that waits is lost.
LEMMA Continues ==
  ASSUME NEW frames, StackOK(frames), Continue(frames), Limit \in Nat
  PROVE  /\ StackOK(stack')
         /\ \/ pc' = "look" /\ stack' # <<>> /\ Last(stack').names # {} /\ answer' = answer
            \/ pc' = "done" /\ stack' = <<>> /\ answer' = "entries"
         /\ \A path : Waits(path, frames) => Waits(path, stack')
<1> DEFINE live == {i \in DOMAIN frames : frames[i].names # {}}
           m == CHOOSE i \in live : \A j \in live : j <= i
<1>1. /\ frames \in Seq(Frame) /\ Len(frames) <= Limit /\ \A i \in DOMAIN frames : FrameOK(frames[i], i)
      /\ DOMAIN frames = 1..Len(frames) /\ Len(frames) \in Nat
  BY DEF StackOK
<1>w. ASSUME NEW path, Waits(path, frames) PROVE \E i \in live : Inside(path, frames[i].dir)
                                                  /\ path[Len(frames[i].dir) + 1] \in frames[i].names
  BY <1>w DEF Waits
<1>2. CASE live = {}
  <2>1. stack' = <<>> /\ pc' = "done" /\ answer' = "entries"
    BY <1>2 DEF Continue
  <2>2. <<>> \in Seq(Frame) /\ Len(<<>>) = 0 /\ DOMAIN <<>> = {}
    OBVIOUS
  <2>3. 0 <= Limit
    OBVIOUS
  <2>4. StackOK(stack')
    BY <2>1, <2>2, <2>3 DEF StackOK
  <2> QED
    BY <1>2, <1>w, <2>1, <2>4
<1>3. CASE live # {}
  <2>1. stack' = SubSeq(frames, 1, m) /\ pc' = "look" /\ answer' = answer
    BY <1>3 DEF Continue
  <2>2. m \in live /\ \A j \in live : j <= m
    <3>1. live \subseteq 0..Len(frames)
      BY <1>1
    <3>2. \E i \in live : \A j \in live : i >= j
      <4> HIDE DEF live
      <4> QED
        BY <1>1, <1>3, <3>1, GreatestNumber
    <3>3. \E i \in live : \A j \in live : j <= i
      BY <3>2, <3>1
    <3> QED
      BY <3>3
  <2> HIDE DEF m
  <2>3. /\ m \in 1..Len(frames) /\ stack' \in Seq(Frame) /\ Len(stack') = m /\ DOMAIN stack' = 1..m
        /\ \A i \in 1..m : stack'[i] = frames[i]
    BY <1>1, <2>1, <2>2
  <2>4. stack' # <<>> /\ Last(stack').names # {}
    BY <2>2, <2>3 DEF Last
  <2>5. m <= Limit
    BY <1>1, <2>3
  <2>6. StackOK(stack')
    BY <1>1, <2>3, <2>5 DEF StackOK
  <2>7. ASSUME NEW path, Waits(path, frames) PROVE Waits(path, stack')
    <3>1. PICK i \in live : Inside(path, frames[i].dir) /\ path[Len(frames[i].dir) + 1] \in frames[i].names
      BY <1>w, <2>7
    <3>2. i \in 1..m
      BY <1>1, <2>2, <2>3
    <3> QED
      BY <2>3, <3>1, <3>2 DEF Waits
  <2> QED
    BY <2>1, <2>4, <2>6, <2>7
<1> QED
  BY <1>2, <1>3

\* What has been so all the time was so before.
LEMMA StayedBefore ==
  ASSUME UNCHANGED was, marks \subseteq marks', NEW path, NEW k, Stays(path, k)'
  PROVE  /\ Stays(path, k)
         /\ \A i \in Len(Asked)..(Len(path) - 1) : SubSeq(path, 1, i) \notin marks'
<1>1. Trees' = Trees
  BY DEF Trees
<1> QED
  BY <1>1 DEF Stays

\* A step that goes on with the names left.
LEMMA GoesOn ==
  ASSUME ListInv, stack # <<>>, answer = "none", UNCHANGED env, marks \subseteq marks',
         NEW names, names \subseteq Range(Names), Continue(Leave(names)),
         \A n \in names : \E t \in Trees : EntryIn(t, Append(Top.dir, n)),
         \A e \in listed' : Said(e), \A d \in marks' : Excused(d),
         \A path \in Below : \A k \in {"dir", "file"} :
           Stays(path, k)' => [path |-> path, kind |-> k] \in listed' \/ Waits(path, Leave(names))
  PROVE  ListInv'
<1>1. StackOK(Leave(names))
  BY LeaveIs
<1>2. /\ StackOK(stack')
      /\ \/ pc' = "look" /\ stack' # <<>> /\ Last(stack').names # {} /\ answer' = answer
         \/ pc' = "done" /\ stack' = <<>> /\ answer' = "entries"
      /\ \A path : Waits(path, Leave(names)) => Waits(path, stack')
  BY <1>1, TopIs, Continues
<1>3. AtHand'
  BY <1>2 DEF AtHand, Top
<1>4. Covered'
  <2>1. Below' = Below
    BY DEF Below, Limit, env
  <2> QED
    BY <1>2, <2>1 DEF Covered
<1> QED
  BY <1>2, <1>3, <1>4, Moves

\* What waits goes on waiting, unless it is in the directory at work.
LEMMA WaitsStill ==
  ASSUME ListInv, stack # <<>>, NEW names, names \subseteq Range(Names),
         \A n \in names : \E t \in Trees : EntryIn(t, Append(Top.dir, n)),
         NEW path
  PROVE  /\ Waits(path, stack) => \/ Waits(path, Leave(names))
                                  \/ Inside(path, Top.dir) /\ path[Len(Top.dir) + 1] \in Top.names
         /\ Inside(path, Top.dir) /\ path[Len(Top.dir) + 1] \in names => Waits(path, Leave(names))
<1>1. /\ Len(stack) \in Nat /\ Len(stack) >= 1 /\ DOMAIN stack = 1..Len(stack) /\ Top = stack[Len(stack)]
  BY TopIs
<1>2. /\ StackOK(Leave(names)) /\ Len(Leave(names)) = Len(stack)
      /\ Leave(names)[Len(stack)] = [dir |-> Top.dir, names |-> names]
      /\ \A i \in 1..Len(stack) : i # Len(stack) => Leave(names)[i] = stack[i]
  BY LeaveIs
<1>3. DOMAIN Leave(names) = 1..Len(stack)
  BY <1>2 DEF StackOK
<1> DEFINE l == Leave(names)
<1> HIDE DEF l
<1>w. \A i \in 1..Len(stack) :
        Inside(path, l[i].dir) /\ path[Len(l[i].dir) + 1] \in l[i].names => Waits(path, Leave(names))
  BY <1>3, Zenon DEF Waits, l
<1>4. ASSUME Waits(path, stack)
      PROVE  \/ Waits(path, Leave(names))
             \/ Inside(path, Top.dir) /\ path[Len(Top.dir) + 1] \in Top.names
  <2>1. PICK i \in 1..Len(stack) :
          Inside(path, stack[i].dir) /\ path[Len(stack[i].dir) + 1] \in stack[i].names
    BY <1>1, <1>4 DEF Waits
  <2>2. CASE i = Len(stack)
    BY <1>1, <2>1, <2>2
  <2>3. CASE i # Len(stack)
    <3>1. l[i] = stack[i]
      BY <1>2, <2>3 DEF l
    <3> QED
      BY <1>w, <2>1, <3>1
  <2> QED
    BY <2>2, <2>3
<1>5. ASSUME Inside(path, Top.dir), path[Len(Top.dir) + 1] \in names PROVE Waits(path, Leave(names))
  <2>1. l[Len(stack)] = [dir |-> Top.dir, names |-> names]
    BY <1>2 DEF l
  <2>2. l[Len(stack)].dir = Top.dir /\ l[Len(stack)].names = names
    BY <2>1
  <2>3. Len(stack) \in 1..Len(stack)
    BY <1>1
  <2> QED
    BY <1>5, <1>w, <2>2, <2>3
<1> QED
  BY <1>4, <1>5

\* What stays has no marked directory above it.
LEMMA StaysInside ==
  ASSUME ListInv, stack # <<>>, NEW path \in Seq(Parts), NEW k, Stays(path, k), Inside(path, Top.dir)
  PROVE  Top.dir \notin marks /\ \A t \in Trees : StatIn(t, Top.dir) = "dir"
<1>1. /\ Len(Top.dir) = Len(Asked) + Len(stack) - 1 /\ Len(Asked) \in Nat /\ Len(stack) \in Nat
      /\ Len(stack) >= 1 /\ Top.dir \in Seq(Parts)
  BY TopIs
<1>2. SubSeq(path, 1, Len(Top.dir)) = Top.dir
  BY <1>1, InsideIs
<1>3. Len(Top.dir) \in Len(Asked)..(Len(path) - 1)
  BY <1>1 DEF Inside
<1> QED
  BY <1>2, <1>3 DEF Stays

\* An error entry: nothing below the directory counts any more.
LEMMA MarkInv ==
  ASSUME ListInv, stack # <<>>, answer = "none", UNCHANGED env, Mark, Excused(Top.dir),
         pc \notin {"exists", "isdir"}
  PROVE  ListInv'
<1>1. marks' = marks \cup {Top.dir} /\ Continue(Leave({})) /\ listed' = listed
  BY DEF Mark
<1>2. (\A e \in listed' : Said(e)) /\ \A d \in marks' : Excused(d)
  BY <1>1, SaysIs DEF ListInv
<1>3. Limit' = Limit /\ was' = was /\ recursive \in BOOLEAN /\ maxDepth \in Int
  BY DEF env, Limit, ListInv, ListTypeOK
<1>4. ASSUME NEW path \in Below, NEW k \in {"dir", "file"}, Stays(path, k)'
      PROVE  [path |-> path, kind |-> k] \in listed' \/ Waits(path, Leave({}))
  <2>1. Stays(path, k) /\ \A i \in Len(Asked)..(Len(path) - 1) : SubSeq(path, 1, i) \notin marks'
    BY <1>1, <1>3, <1>4, StayedBefore
  <2>2. path \in Seq(Parts)
    BY <1>3, BelowIs DEF Down
  <2>3. ~Inside(path, Top.dir)
    <3> SUFFICES ASSUME Inside(path, Top.dir) PROVE FALSE
      OBVIOUS
    <3>1. /\ Len(Top.dir) = Len(Asked) + Len(stack) - 1 /\ Len(Asked) \in Nat /\ Len(stack) \in Nat
          /\ Len(stack) >= 1 /\ Top.dir \in Seq(Parts)
      BY TopIs
    <3>2. SubSeq(path, 1, Len(Top.dir)) = Top.dir
      BY <2>2, <3>1, InsideIs
    <3>3. Len(Top.dir) \in Len(Asked)..(Len(path) - 1)
      BY <2>2, <3>1 DEF Inside
    <3> QED
      BY <1>1, <2>1, <3>2, <3>3
  <2>4. [path |-> path, kind |-> k] \in listed \/ Waits(path, stack)
    BY <2>1, <2>3 DEF ListInv, Covered, Opens
  <2>5. Waits(path, stack) => Waits(path, Leave({}))
    BY <2>3, WaitsStill
  <2> QED
    BY <1>1, <2>4, <2>5
<1>5. marks \subseteq marks' /\ {} \subseteq Range(Names)
  BY <1>1
<1> QED
  BY <1>1, <1>2, <1>4, <1>5, GoesOn

\* An exception ends the call, and says so.
LEMMA FailInv ==
  ASSUME ListInv, UNCHANGED env, FailAll, Lost
  PROVE  ListInv'
<1>1. /\ pc' = "done" /\ answer' = "error" /\ stack' = <<>> /\ listed' = listed /\ marks' = marks
  BY DEF FailAll
<1>2. AtHand' /\ Covered'
  BY <1>1 DEF AtHand, Covered
<1>3. StackOK(<<>>)
  <2>1. <<>> \in Seq(Frame) /\ Len(<<>>) = 0 /\ DOMAIN <<>> = {}
    OBVIOUS
  <2>2. 0 <= Limit
    BY LimitType DEF ListInv, ListTypeOK
  <2> QED
    BY <2>1, <2>2 DEF StackOK
<1>4. (\A e \in listed' : Said(e)) /\ \A d \in marks' : Excused(d)
  BY <1>1, SaysIs DEF ListInv
<1> QED
  BY <1>1, <1>2, <1>3, <1>4, Moves

\* A path that is gone or denied ends the call with an error that is due.
LEMMA ExistsInv == ASSUME ListInv, Exists PROVE ListInv'
<1>1. pc = "exists" /\ UNCHANGED env
  BY DEF Exists
<1>2. answer = "none" /\ stack = <<>> /\ listed = {} /\ marks = {} /\ tree \in Trees
  BY <1>1 DEF ListInv, AtHand, ListTypeOK
<1>3. CASE StatIn(tree, Asked) \in {"gone", "denied"}
  <2>1. FailAll
    BY <1>3 DEF Exists
  <2>2. Lost
    BY <1>2, <1>3 DEF Lost
  <2> QED
    BY <1>1, <2>1, <2>2, FailInv
<1>4. CASE StatIn(tree, Asked) \notin {"gone", "denied"}
  <2>1. pc' = "isdir" /\ stack' = stack /\ kind' = kind /\ listed' = listed /\ marks' = marks /\ answer' = answer
    BY <1>4 DEF Exists
  <2>2. AtHand' /\ Covered'
    BY <1>2, <2>1 DEF AtHand, Covered
  <2>3. StackOK(stack')
    BY <2>1 DEF ListInv
  <2> QED
    BY <1>1, <1>2, <2>1, <2>2, <2>3, Moves
<1> QED
  BY <1>3, <1>4

\* A directory that is entered is below the one before it.
LEMMA Entered ==
  ASSUME NEW dir, NEW frames, StackOK(frames), Limit \in Nat, Len(frames) < Limit,
         Down(dir, Len(frames)), frames # <<>> => \E t \in Trees : StatIn(t, dir) = "dir", Enter(dir, frames)
  PROVE  /\ StackOK(stack') /\ stack' # <<>> /\ Last(stack').dir = dir /\ pc' = "list"
         /\ \A path : Waits(path, frames) => Waits(path, stack')
<1> DEFINE f == [dir |-> dir, names |-> {}]
           n == Len(frames)
<1>1. /\ frames \in Seq(Frame) /\ n <= Limit /\ \A i \in DOMAIN frames : FrameOK(frames[i], i)
      /\ DOMAIN frames = 1..n /\ n \in Nat
  BY DEF StackOK
<1>2. f \in Frame /\ f.dir = dir /\ f.names = {}
  BY DEF Frame, Down
<1> HIDE DEF f
<1>3. stack' = Append(frames, f) /\ pc' = "list"
  BY DEF Enter, f
<1>4. /\ stack' \in Seq(Frame) /\ Len(stack') = n + 1 /\ stack'[n + 1] = f /\ DOMAIN stack' = 1..n + 1
      /\ \A i \in 1..n : stack'[i] = frames[i]
  BY <1>1, <1>2, <1>3
<1>5. Last(stack') = f /\ stack' # <<>>
  BY <1>1, <1>4 DEF Last
<1>6. FrameOK(f, n + 1)
  <2>1. Down(f.dir, (n + 1) - 1)
    BY <1>1, <1>2
  <2>2. n + 1 > 1 => frames # <<>>
    BY <1>1
  <2> QED
    BY <1>2, <2>1, <2>2 DEF FrameOK
<1>7. StackOK(stack')
  BY <1>1, <1>4, <1>6 DEF StackOK
<1>8. ASSUME NEW path, Waits(path, frames) PROVE Waits(path, stack')
  BY <1>1, <1>4, <1>8 DEF Waits
<1> QED
  BY <1>2, <1>3, <1>5, <1>7, <1>8

\* The directory asked for is opened, or was none.
LEMMA IsDirectoryInv == ASSUME ListInv, IsDirectory PROVE ListInv'
<1>1. pc = "isdir" /\ UNCHANGED env
  BY DEF IsDirectory
<1>2. answer = "none" /\ stack = <<>> /\ listed = {} /\ marks = {} /\ tree \in Trees /\ TreeOK(tree)
  BY <1>1 DEF ListInv, AtHand, ListTypeOK
<1>3. Asked \in Seq(Parts) /\ recursive \in BOOLEAN /\ maxDepth \in Int /\ Limit \in Nat /\ Limit >= 1
  BY NamesType, LimitType DEF ListInv, ListTypeOK
<1>4. CASE StatIn(tree, Asked) # "dir"
  <2>1. FailAll
    BY <1>4 DEF IsDirectory
  <2>2. Lost
    BY <1>2, <1>3, <1>4, StatType DEF Lost
  <2> QED
    BY <1>1, <2>1, <2>2, FailInv
<1>5. CASE StatIn(tree, Asked) = "dir"
  <2>1. Enter(Asked, <<>>) /\ kind' = kind /\ listed' = listed /\ marks' = marks /\ answer' = answer
    BY <1>5 DEF IsDirectory
  <2>2. StackOK(<<>>) /\ Len(<<>>) = 0
    BY <1>2 DEF ListInv
  <2>3. StackOK(stack') /\ stack' # <<>> /\ Last(stack').dir = Asked /\ pc' = "list"
    BY <1>3, <2>1, <2>2, DownAsked, Entered
  <2>4. AtHand'
    BY <1>2, <2>1, <2>3 DEF AtHand
  <2>5. ASSUME NEW path \in Below PROVE Inside(path, Asked)
    <3>1. PICK m \in 1..Limit : Down(path, m)
      BY <1>3, BelowIs
    <3>2. Len(path) = Len(Asked) + m /\ m >= 1 /\ \A i \in 1..Len(Asked) : path[i] = Asked[i]
      BY <1>3, <3>1 DEF Down
    <3>3. Len(Asked) \in Nat /\ m \in Nat
      BY <1>3
    <3> QED
      BY <3>2, <3>3 DEF Inside
  <2>6. Covered'
    <3>1. Below' = Below
      BY <1>1 DEF Below, Limit, env
    <3> QED
      BY <2>3, <2>5, <3>1 DEF Covered, Opens, Top
  <2> QED
    BY <1>1, <1>2, <2>1, <2>3, <2>4, <2>6, Moves
<1> QED
  BY <1>4, <1>5

\* The entry at hand.
LEMMA ItemIsOne ==
  ASSUME ListInv, pc \in {"look", "size", "enter"}
  PROVE  /\ stack # <<>> /\ answer = "none" /\ tree \in Trees /\ TreeOK(tree)
         /\ FirstOf(Top.names) \in Top.names /\ FirstOf(Top.names) \in Range(Names)
         /\ Item = Append(Top.dir, FirstOf(Top.names)) /\ Others \subseteq Top.names
         /\ Others \subseteq Range(Names)
         /\ \A n \in Others : \E t \in Trees : EntryIn(t, Append(Top.dir, n))
         /\ Item \in Seq(Parts) /\ Down(Item, Len(stack)) /\ Depth(Item) = Len(stack)
         /\ Len(Item) = Len(Asked) + Len(stack) /\ \E t \in Trees : EntryIn(t, Item)
<1>1. stack # <<>> /\ answer = "none" /\ Top.names # {} /\ tree \in Trees /\ TreeOK(tree)
  BY DEF ListInv, AtHand, ListTypeOK
<1>2. /\ Top.names \subseteq Range(Names) /\ Down(Top.dir, Len(stack) - 1) /\ Len(stack) - 1 \in Nat
      /\ FrameOK(Top, Len(stack)) /\ Len(stack) \in Nat /\ Len(Asked) \in Nat
  BY <1>1, TopIs
<1> DEFINE first == FirstOf(Top.names)
<1>3. first \in Top.names /\ first \in Range(Names)
  BY <1>1, <1>2, FirstIsLeft
<1>4. Item = Append(Top.dir, first) /\ Others \subseteq Top.names
  BY DEF Item, Others
<1> HIDE DEF first
<1>5. Down(Item, Len(stack) - 1 + 1) /\ Depth(Item) = Len(stack) - 1 + 1
  BY <1>2, <1>3, <1>4, DownAgain
<1>6. Down(Item, Len(stack)) /\ Depth(Item) = Len(stack)
  BY <1>2, <1>5
<1>7. \A n \in Top.names : \E t \in Trees : EntryIn(t, Append(Top.dir, n))
  BY <1>2 DEF FrameOK
<1> QED
  BY <1>1, <1>2, <1>3, <1>4, <1>6, <1>7 DEF Down, first

\* What is still to come when the entry at hand is done with.
LEMMA ItemLeft ==
  ASSUME ListInv, pc \in {"look", "size", "enter"}, NEW path \in Below, NEW k \in {"dir", "file"}, Stays(path, k)
  PROVE  \/ [path |-> path, kind |-> k] \in listed
         \/ Waits(path, Leave(Others)) \/ path = Item \/ Inside(path, Item)
<1>1. /\ stack # <<>> /\ answer = "none" /\ Item = Append(Top.dir, FirstOf(Top.names))
      /\ Others \subseteq Range(Names) /\ \A n \in Others : \E t \in Trees : EntryIn(t, Append(Top.dir, n))
  BY ItemIsOne
<1>2. [path |-> path, kind |-> k] \in listed \/ Waits(path, stack)
  BY <1>1 DEF ListInv, Covered, Opens
<1>3. path \in Seq(Parts) /\ Top.dir \in Seq(Parts)
  BY <1>1, BelowIs, TopIs DEF Down, ListInv, ListTypeOK
<1>4. Waits(path, stack) => \/ Waits(path, Leave(Others))
                            \/ Inside(path, Top.dir) /\ path[Len(Top.dir) + 1] \in Top.names
  BY <1>1, WaitsStill
<1>5. Inside(path, Top.dir) /\ path[Len(Top.dir) + 1] \in Others => Waits(path, Leave(Others))
  BY <1>1, WaitsStill
<1>6. ASSUME Inside(path, Top.dir), path[Len(Top.dir) + 1] \in Top.names, path[Len(Top.dir) + 1] \notin Others
      PROVE  path = Item \/ Inside(path, Item)
  <2>1. path[Len(Top.dir) + 1] = FirstOf(Top.names)
    BY <1>6 DEF Others
  <2> QED
    BY <1>1, <1>3, <1>6, <2>1, InsideIs
<1> QED
  BY <1>2, <1>4, <1>5, <1>6

\* An entry of the answer was there, with its type.
LEMMA ItemSaid ==
  ASSUME ListInv, pc \in {"size", "enter"}
  PROVE  /\ Said([path |-> Item, kind |-> kind])
         /\ \A k \in {"dir", "file"} : Stays(Item, k) => kind = k
<1>1. /\ \E t \in Trees : EntryIn(t, Item)
      /\ Depth(Item) = Len(stack) /\ stack # <<>>
  BY ItemIsOne
<1>2. Depth(Item) \in 1..Limit
  BY <1>1, TopIs
<1>3. PICK t \in Trees : kind = TypeOf(StatIn(t, Item))
  BY DEF ListInv, AtHand
<1>4. (StatIn(t, Item) = "dir") = (kind = "dir")
  BY <1>3 DEF TypeOf
<1>5. Said([path |-> Item, kind |-> kind])
  <2> DEFINE e == [path |-> Item, kind |-> kind]
  <2>1. e.path = Item /\ e.kind = kind
    OBVIOUS
  <2>2. \E u \in Trees : (StatIn(u, e.path) = "dir") = (e.kind = "dir")
    BY <1>4, <2>1
  <2> HIDE DEF e
  <2>3. Said(e)
    BY <1>1, <1>2, <2>1, <2>2 DEF Said
  <2> QED
    BY <2>3 DEF e
<1>6. ASSUME NEW k \in {"dir", "file"}, Stays(Item, k) PROVE kind = k
  <2>1. StatIn(t, Item) = k \/ (k = "file" /\ StatIn(t, Item) = "gone")
    BY <1>3, <1>6 DEF Stays
  <2> QED
    BY <1>3, <2>1 DEF TypeOf
<1> QED
  BY <1>5, <1>6

\* The entry at hand is listed, and nothing below it is asked for.
LEMMA ListsItem ==
  ASSUME ListInv, pc \in {"size", "enter"}, UNCHANGED env, List, marks' = marks, Continue(Leave(Others)),
         \A path \in Below : \A k : Stays(path, k) => ~Inside(path, Item)
  PROVE  ListInv'
<1>1. /\ stack # <<>> /\ answer = "none" /\ Others \subseteq Range(Names)
      /\ \A n \in Others : \E t \in Trees : EntryIn(t, Append(Top.dir, n))
  BY ItemIsOne
<1>2. listed' = listed \cup {[path |-> Item, kind |-> kind]}
  BY DEF List
<1>3. (\A e \in listed' : Said(e)) /\ \A d \in marks' : Excused(d)
  BY <1>2, ItemSaid, SaysIs DEF ListInv
<1>4. ASSUME NEW path \in Below, NEW k \in {"dir", "file"}, Stays(path, k)'
      PROVE  [path |-> path, kind |-> k] \in listed' \/ Waits(path, Leave(Others))
  <2>1. Stays(path, k)
    BY <1>4, StayedBefore DEF env
  <2>2. \/ [path |-> path, kind |-> k] \in listed \/ Waits(path, Leave(Others)) \/ path = Item
    BY <2>1, ItemLeft
  <2>3. path = Item => kind = k
    BY <2>1, ItemSaid
  <2> QED
    BY <1>2, <2>2, <2>3
<1> QED
  BY <1>1, <1>3, <1>4, GoesOn

\* The entry at hand could not be looked at.
LEMMA ItemDenied ==
  ASSUME ListInv, pc \in {"look", "size", "enter"}, ItemIs = "denied"
  PROVE  Excused(Top.dir)
<1>1. tree \in Trees /\ FirstOf(Top.names) \in Range(Names) /\ Item = Append(Top.dir, FirstOf(Top.names))
  BY ItemIsOne
<1> QED
  BY <1>1 DEF Excused, ItemIs

\* The type is that of the entry at this moment.
LEMMA LookInv == ASSUME ListInv, Look PROVE ListInv'
<1>1. pc = "look" /\ UNCHANGED env
  BY DEF Look
<1>2. stack # <<>> /\ answer = "none" /\ tree \in Trees /\ Top.names # {}
  BY <1>1, ItemIsOne DEF ListInv, AtHand
<1>3. CASE ItemIs = "denied"
  <2>1. Mark
    BY <1>3 DEF Look
  <2> QED
    BY <1>1, <1>2, <1>3, <2>1, ItemDenied, MarkInv
<1>4. CASE ItemIs # "denied"
  <2>1. /\ kind' = TypeOf(ItemIs) /\ pc' = "size" /\ stack' = stack /\ listed' = listed /\ marks' = marks
        /\ answer' = answer
    BY <1>4 DEF Look
  <2>2. Trees' = Trees /\ Below' = Below /\ Item' = Item /\ Top' = Top
    BY <1>1, <2>1 DEF Trees, Below, Limit, env, Item, Top
  <2>3. AtHand'
    BY <1>2, <2>1, <2>2 DEF AtHand, ItemIs
  <2>4. Covered'
    <3>1. ASSUME NEW path \in Below, NEW k \in {"dir", "file"}, Stays(path, k)'
          PROVE  [path |-> path, kind |-> k] \in listed \/ Waits(path, stack)
      <4>1. Stays(path, k)
        BY <1>1, <2>1, <3>1, StayedBefore DEF env
      <4> QED
        BY <1>1, <1>2, <4>1 DEF ListInv, Covered, Opens
    <3> QED
      BY <2>1, <2>2, <3>1 DEF Covered
  <2>5. StackOK(stack') /\ (\A e \in listed' : Said(e)) /\ \A d \in marks' : Excused(d)
    BY <2>1, SaysIs DEF ListInv
  <2> QED
    BY <1>1, <1>2, <2>1, <2>3, <2>4, <2>5, Moves
<1> QED
  BY <1>3, <1>4

\* The entry is listed, or its directory marked, or it is looked at again.
LEMMA SizeOfInv == ASSUME ListInv, SizeOf PROVE ListInv'
<1>1. pc = "size" /\ UNCHANGED env
  BY DEF SizeOf
<1>2. stack # <<>> /\ answer = "none" /\ tree \in Trees /\ Top.names # {}
  BY <1>1, ItemIsOne DEF ListInv, AtHand
<1>t. recursive \in BOOLEAN /\ maxDepth \in Int
  BY DEF ListInv, ListTypeOK
<1>3. CASE ItemIs = "denied"
  <2>1. Mark
    BY <1>3 DEF SizeOf
  <2> QED
    BY <1>1, <1>2, <1>3, <2>1, ItemDenied, MarkInv
<1>4. CASE ItemIs # "denied" /\ recursive
  <2>1. /\ kind' = kind /\ pc' = "enter" /\ stack' = stack /\ listed' = listed /\ marks' = marks
        /\ answer' = answer
    BY <1>4 DEF SizeOf
  <2>2. Trees' = Trees /\ Below' = Below /\ Item' = Item /\ Top' = Top /\ recursive' = recursive
    BY <1>1, <2>1 DEF Trees, Below, Limit, env, Item, Top
  <2>3. AtHand'
    <3>1. \E t \in Trees : kind = TypeOf(StatIn(t, Item))
      BY <1>1 DEF ListInv, AtHand
    <3> QED
      BY <1>2, <1>4, <2>1, <2>2, <3>1 DEF AtHand
  <2>4. Covered'
    <3>1. ASSUME NEW path \in Below, NEW k \in {"dir", "file"}, Stays(path, k)'
          PROVE  [path |-> path, kind |-> k] \in listed \/ Waits(path, stack)
      <4>1. Stays(path, k)
        BY <1>1, <2>1, <3>1, StayedBefore DEF env
      <4> QED
        BY <1>1, <1>2, <4>1 DEF ListInv, Covered, Opens
    <3> QED
      BY <2>1, <2>2, <3>1 DEF Covered
  <2>5. StackOK(stack') /\ (\A e \in listed' : Said(e)) /\ \A d \in marks' : Excused(d)
    BY <2>1, SaysIs DEF ListInv
  <2> QED
    BY <1>1, <1>2, <2>1, <2>3, <2>4, <2>5, Moves
<1>5. CASE ItemIs # "denied" /\ ~recursive
  <2>1. List /\ Continue(Leave(Others)) /\ marks' = marks
    BY <1>5 DEF SizeOf
  <2>2. Limit = 1 /\ Len(Item) = Len(Asked) + Len(stack) /\ Len(stack) >= 1 /\ Len(stack) \in Nat
        /\ Len(Asked) \in Nat
    BY <1>1, <1>2, <1>5, <1>t, LimitType, ItemIsOne, TopIs
  <2>3. ASSUME NEW path \in Below PROVE ~Inside(path, Item)
    <3>1. PICK m \in 1..1 : Down(path, m)
      BY <1>t, <2>2, BelowIs
    <3>2. Len(path) = Len(Asked) + 1
      BY <3>1 DEF Down
    <3> QED
      BY <2>2, <3>2 DEF Inside
  <2> QED
    BY <1>1, <2>1, <2>3, ListsItem
<1> QED
  BY <1>3, <1>4, <1>5, <1>t

\* What is in the directory that is opened now is to come.
LEMMA DescendInv == ASSUME ListInv, Descend PROVE ListInv'
<1>1. pc = "enter" /\ UNCHANGED env
  BY DEF Descend
<1>2. /\ stack # <<>> /\ answer = "none" /\ tree \in Trees /\ Top.names # {} /\ recursive
      /\ Others \subseteq Range(Names)
      /\ \A n \in Others : \E t \in Trees : EntryIn(t, Append(Top.dir, n))
      /\ Item \in Seq(Parts) /\ Down(Item, Len(stack)) /\ Len(Item) = Len(Asked) + Len(stack)
  BY <1>1, ItemIsOne DEF ListInv, AtHand
<1>t. recursive \in BOOLEAN /\ maxDepth \in Int
  BY DEF ListInv, ListTypeOK
<1>l. /\ Limit \in Nat /\ Limit >= 1 /\ ((Limit = 1 /\ maxDepth <= 1) \/ Limit = maxDepth)
      /\ Len(stack) \in Nat /\ Len(stack) >= 1 /\ Len(Asked) \in Nat
  BY <1>2, <1>t, LimitType, TopIs
<1>3. CASE ItemIs = "denied"
  <2>1. Mark
    BY <1>3 DEF Descend
  <2> QED
    BY <1>1, <1>2, <1>3, <2>1, ItemDenied, MarkInv
<1>4. CASE ItemIs = "dir" /\ Deep
  <2>1. /\ List /\ Enter(Item, Leave(Others)) /\ kind' = kind /\ marks' = marks /\ answer' = answer
    BY <1>4 DEF Descend
  <2>2. listed' = listed \cup {[path |-> Item, kind |-> kind]}
    BY <2>1 DEF List
  <2>3. StackOK(Leave(Others)) /\ Len(Leave(Others)) = Len(stack)
    BY <1>2, LeaveIs
  <2>4. Len(stack) < Limit
    BY <1>4, <1>l, <1>t DEF Deep
  <2>5. \E t \in Trees : StatIn(t, Item) = "dir"
    BY <1>2, <1>4 DEF ItemIs
  <2>6. /\ StackOK(stack') /\ stack' # <<>> /\ Last(stack').dir = Item /\ pc' = "list"
        /\ \A path : Waits(path, Leave(Others)) => Waits(path, stack')
    BY <1>2, <1>l, <2>1, <2>3, <2>4, <2>5, Entered
  <2>7. (\A e \in listed' : Said(e)) /\ \A d \in marks' : Excused(d)
    BY <1>1, <2>1, <2>2, ItemSaid, SaysIs DEF ListInv
  <2>8. AtHand'
    BY <1>2, <2>1, <2>6 DEF AtHand
  <2>9. Covered'
    <3>1. Below' = Below
      BY <1>1 DEF Below, Limit, env
    <3>2. ASSUME NEW path \in Below, NEW k \in {"dir", "file"}, Stays(path, k)'
          PROVE  [path |-> path, kind |-> k] \in listed' \/ Waits(path, stack') \/ Inside(path, Item)
      <4>1. Stays(path, k)
        BY <1>1, <2>1, <3>2, StayedBefore DEF env
      <4>2. \/ [path |-> path, kind |-> k] \in listed \/ Waits(path, Leave(Others))
            \/ path = Item \/ Inside(path, Item)
        BY <1>1, <4>1, ItemLeft
      <4>3. path = Item => kind = k
        BY <1>1, <4>1, ItemSaid
      <4> QED
        BY <2>2, <2>6, <4>2, <4>3
    <3> QED
      BY <2>6, <3>1, <3>2 DEF Covered, Opens, Top
  <2> QED
    BY <1>1, <1>2, <2>1, <2>6, <2>7, <2>8, <2>9, Moves
<1>5. CASE ItemIs # "denied" /\ ~(ItemIs = "dir" /\ Deep)
  <2>1. List /\ Continue(Leave(Others)) /\ marks' = marks
    BY <1>5 DEF Descend
  <2>2. ASSUME NEW path \in Below, NEW k, Stays(path, k), Inside(path, Item) PROVE FALSE
    <3>1. PICK m \in 1..Limit : Down(path, m)
      BY <1>t, BelowIs
    <3>2. path \in Seq(Parts) /\ Len(path) = Len(Asked) + m /\ m \in Nat /\ m <= Limit
      BY <1>l, <3>1 DEF Down
    <3>3. SubSeq(path, 1, Len(Item)) = Item
      BY <1>2, <2>2, <3>2, InsideIs
    <3>4. Len(Item) < Len(path) /\ Len(Item) \in Len(Asked)..(Len(path) - 1)
      BY <1>2, <1>l, <2>2, <3>2 DEF Inside
    <3>5. StatIn(tree, Item) = "dir"
      BY <1>2, <2>2, <3>3, <3>4 DEF Stays
    <3>6. ~(Len(stack) < maxDepth)
      BY <1>5, <3>5 DEF ItemIs, Deep
    <3> QED
      BY <1>2, <1>l, <1>t, <3>2, <3>4, <3>6
  <2> QED
    BY <1>1, <2>1, <2>2, ListsItem
<1> QED
  BY <1>3, <1>4, <1>5

\* What is below the directory that is listed is below one of its entries.
LEMMA FoundIn ==
  ASSUME ListInv, stack # <<>>, NEW path \in Below, NEW k, Stays(path, k), Inside(path, Top.dir)
  PROVE  path[Len(Top.dir) + 1] \in NamesIn(tree, Top.dir)
<1> DEFINE n == path[Len(Top.dir) + 1]
           e == Append(Top.dir, n)
<1>1. /\ Len(Top.dir) = Len(Asked) + Len(stack) - 1 /\ Len(Asked) \in Nat /\ Len(stack) \in Nat
      /\ Len(stack) >= 1 /\ Top.dir \in Seq(Parts) /\ Down(Top.dir, Len(stack) - 1) /\ Len(stack) - 1 \in Nat
  BY TopIs
<1>2. tree \in Trees /\ TreeOK(tree) /\ recursive \in BOOLEAN /\ maxDepth \in Int
  BY DEF ListInv, ListTypeOK
<1>3. path \in Seq(Parts) /\ \A i \in Len(Asked) + 1 .. Len(path) : path[i] \in Range(Names)
  BY <1>2, BelowIs DEF Down
<1>4. Len(Top.dir) + 1 \in Len(Asked) + 1 .. Len(path)
  BY <1>1, <1>3 DEF Inside
<1>5. n \in Range(Names) /\ n \in Parts
  BY <1>3, <1>4, NamesType
<1>6. e \in Seq(Parts) /\ Len(e) = Len(Top.dir) + 1
  BY <1>1, <1>5
<1>7. path = e \/ Inside(path, e)
  BY <1>1, <1>3, InsideIs
<1> HIDE DEF n
<1>8. CASE path = e
  <2>1. EntryIn(tree, e)
    BY <1>2, <1>8 DEF Stays
  <2> QED
    BY <1>1, <1>5, <2>1, EntryIs DEF n
<1>9. CASE Inside(path, e)
  <2> HIDE DEF e
  <2>1. SubSeq(path, 1, Len(e)) = e
    BY <1>3, <1>6, <1>9, InsideIs
  <2>2. Len(e) \in Len(Asked)..(Len(path) - 1)
    BY <1>1, <1>3, <1>6, <1>9 DEF Inside
  <2>3. StatIn(tree, e) = "dir"
    BY <1>2, <2>1, <2>2 DEF Stays
  <2> QED
    BY <1>1, <1>2, <1>5, <2>3, DirIsEntry DEF e, n
<1> QED
  BY <1>7, <1>8, <1>9

\* What stays in the directory is among the names that are left, for they are read now.
LEMMA ListDirInv == ASSUME ListInv, ListDir PROVE ListInv'
<1>1. pc = "list" /\ UNCHANGED env
  BY DEF ListDir
<1>2. stack # <<>> /\ answer = "none" /\ tree \in Trees /\ TreeOK(tree)
  BY <1>1 DEF ListInv, AtHand, ListTypeOK
<1>t. recursive \in BOOLEAN /\ maxDepth \in Int
  BY DEF ListInv, ListTypeOK
<1>3. /\ Top.dir \in Seq(Parts) /\ Down(Top.dir, Len(stack) - 1) /\ Len(stack) - 1 \in Nat
      /\ Len(stack) \in Nat /\ Len(stack) <= Limit /\ FrameOK(Top, Len(stack)) /\ Len(stack) >= 1
      /\ Limit \in Nat /\ Len(Asked) \in Nat
  BY <1>2, TopIs
<1>4. CASE StatIn(tree, Top.dir) = "denied" \/ Locked(tree, Top.dir)
  <2>1. Mark
    BY <1>4 DEF ListDir, Locked
  <2>2. Excused(Top.dir)
    BY <1>2, <1>4 DEF Excused
  <2> QED
    BY <1>1, <1>2, <2>1, <2>2, MarkInv
<1>5. CASE StatIn(tree, Top.dir) \in {"gone", "file"}
  <2>1. ~(StatIn(tree, Top.dir) = "denied" \/ Locked(tree, Top.dir))
    BY <1>5 DEF Locked
  <2>2. FailAll
    BY <1>5, <2>1 DEF ListDir
  <2>3. Top.dir = Asked \/ (Top.dir \in Below /\ \E t \in Trees : StatIn(t, Top.dir) = "dir")
    <3>1. CASE Len(stack) = 1
      <4>1. Len(Top.dir) = Len(Asked) /\ \A i \in 1..Len(Asked) : Top.dir[i] = Asked[i]
        BY <1>3, <3>1 DEF Down
      <4> QED
        BY <1>3, <4>1, NamesType, SeqEqual
    <3>2. CASE Len(stack) > 1
      <4>1. Len(stack) - 1 \in 1..Limit
        BY <1>3, <3>2
      <4>2. Top.dir \in Below
        BY <1>3, <1>t, <4>1, BelowIs
      <4> QED
        BY <1>3, <3>2, <4>2 DEF FrameOK
    <3>3. \A m \in Nat : m >= 1 => m = 1 \/ m > 1
      OBVIOUS
    <3> QED
      BY <1>3, <3>1, <3>2, <3>3, Zenon
  <2>4. Lost
    BY <1>2, <1>5, <2>3 DEF Lost
  <2> QED
    BY <1>1, <2>2, <2>4, FailInv
<1>6. CASE StatIn(tree, Top.dir) = "dir" /\ ~Locked(tree, Top.dir)
  <2> DEFINE found == NamesIn(tree, Top.dir)
  <2>1. Continue(Leave(found)) /\ kind' = kind /\ listed' = listed /\ marks' = marks
    BY <1>6 DEF ListDir
  <2>2. found \subseteq Range(Names)
    BY DEF NamesIn
  <2>3. \A n \in found : \E t \in Trees : EntryIn(t, Append(Top.dir, n))
    <3> SUFFICES ASSUME NEW n \in found PROVE EntryIn(tree, Append(Top.dir, n))
      BY <1>2
    <3> QED
      BY <1>3, <1>6, <2>2, EntryIs
  <2>4. (\A e \in listed' : Said(e)) /\ \A d \in marks' : Excused(d)
    BY <2>1, SaysIs DEF ListInv
  <2>5. ASSUME NEW path \in Below, NEW k \in {"dir", "file"}, Stays(path, k)'
        PROVE  [path |-> path, kind |-> k] \in listed' \/ Waits(path, Leave(found))
    <3>1. Stays(path, k)
      BY <1>1, <2>1, <2>5, StayedBefore DEF env
    <3>2. [path |-> path, kind |-> k] \in listed \/ Waits(path, stack) \/ Inside(path, Top.dir)
      BY <1>1, <1>2, <3>1 DEF ListInv, Covered, Opens
    <3>3. Inside(path, Top.dir) => path[Len(Top.dir) + 1] \in found
      BY <1>2, <3>1, FoundIn
    <3> HIDE DEF found
    <3>4. /\ Waits(path, stack) => \/ Waits(path, Leave(found))
                                   \/ Inside(path, Top.dir) /\ path[Len(Top.dir) + 1] \in Top.names
          /\ Inside(path, Top.dir) /\ path[Len(Top.dir) + 1] \in found => Waits(path, Leave(found))
      BY <1>2, <2>2, <2>3, WaitsStill
    <3> QED
      BY <2>1, <3>2, <3>3, <3>4
  <2> HIDE DEF found
  <2> QED
    BY <1>1, <1>2, <2>1, <2>2, <2>3, <2>4, <2>5, GoesOn
<1> QED
  BY <1>2, <1>3, <1>4, <1>5, <1>6, StatType

\* More trees, and the call where it was: what was said stays true.
LEMMA Grows ==
  ASSUME ListInv, Trees \subseteq Trees', tree' \in Trees', was' \in Seq(Range(was')),
         \A t \in Trees' : TreeOK(t),
         UNCHANGED <<pc, recursive, maxDepth, stack, kind, listed, marks, answer>>
  PROVE  ListInv'
<1>1. /\ pc' = pc /\ recursive' = recursive /\ maxDepth' = maxDepth /\ stack' = stack /\ kind' = kind
      /\ listed' = listed /\ marks' = marks /\ answer' = answer
  OBVIOUS
<1>2. Limit' = Limit /\ Below' = Below /\ Top' = Top /\ Item' = Item
  BY <1>1 DEF Limit, Below, Top, Item
<1>3. ListTypeOK'
  BY <1>1 DEF ListInv, ListTypeOK
<1>4. ASSUME NEW f, NEW i, FrameOK(f, i) PROVE FrameOK(f, i)'
  BY <1>4 DEF FrameOK
<1>5. StackOK(stack)'
  BY <1>1, <1>2, <1>4 DEF ListInv, StackOK
<1>6. AtHand'
  BY <1>1, <1>2 DEF ListInv, AtHand
<1>7. Covered'
  <2>1. ASSUME NEW path, NEW k, Stays(path, k)' PROVE Stays(path, k)
    BY <1>1, <2>1 DEF Stays
  <2>2. ASSUME NEW path, Waits(path, stack) \/ Opens(path) PROVE (Waits(path, stack) \/ Opens(path))'
    <3>1. Waits(path, stack)' <=> Waits(path, stack)
      BY <1>1 DEF Waits
    <3>2. Opens(path)' <=> Opens(path)
      BY <1>1, <1>2 DEF Opens
    <3> QED
      BY <2>2, <3>1, <3>2
  <2> QED
    BY <1>1, <1>2, <2>1, <2>2 DEF ListInv, Covered
<1>8. SaysWhatWas'
  <2>1. \A e \in listed : Said(e)'
    <3>1. \A e \in listed : Said(e)
      BY SaysIs DEF ListInv
    <3> SUFFICES ASSUME NEW e \in listed PROVE Said(e)'
      OBVIOUS
    <3>2. Said(e)
      BY <3>1
    <3> QED
      BY <1>2, <3>2 DEF Said
  <2>2. \A d \in marks : Excused(d)'
    <3>1. \A d \in marks : Excused(d)
      BY SaysIs DEF ListInv
    <3> QED
      BY <3>1 DEF Excused
  <2>3. answer = "error" => Lost'
    <3>1. answer = "error" => Lost
      BY SaysIs DEF ListInv
    <3> QED
      BY <1>2, <3>1 DEF Lost
  <2>4. SaysWhatWas' <=> /\ \A e \in listed' : Said(e)'
                         /\ \A d \in marks' : Excused(d)'
                         /\ answer' = "error" => Lost'
    BY DEF SaysWhatWas, Said, Excused, Lost
  <2> QED
    BY <1>1, <2>1, <2>2, <2>3, <2>4
<1> QED
  BY <1>3, <1>5, <1>6, <1>7, <1>8 DEF ListInv

\* Whatever other processes do, what there is stays a tree.
LEMMA ChangeTree == ASSUME ListInv, NEW p \in Spots, Change(p) PROVE TreeOK(tree')
<1>1. TreeOK(tree) /\ p \in Seq(Parts) /\ p # <<>>
  BY ListOK DEF ListInv, ListTypeOK
<1>2. /\ DOMAIN tree \subseteq Seq(Parts) /\ <<>> \in DOMAIN tree /\ tree[<<>>].kind = "dir"
      /\ \A q \in DOMAIN tree : NodeOK(tree[q]) /\ Parent(q) \in DOMAIN tree /\ tree[Parent(q)].kind = "dir"
  BY <1>1 DEF TreeOK, IsDir
<1>3. CASE p \in DOMAIN tree /\ tree' = Without(p)
  <2>1. DOMAIN tree' = DOMAIN tree \ Under(p) /\ \A q \in DOMAIN tree' : tree'[q] = tree[q]
    BY <1>3 DEF Without
  <2>2. Under(p) = {q \in DOMAIN tree : IsPrefix(p, q)}
    BY DEF Under
  <2>3. ~IsPrefix(p, <<>>)
    <3> DEFINE e == <<>>
    <3>1. Len(p) \in Nat /\ Len(p) > 0 /\ e \in Seq(Parts) /\ Len(e) = 0
      BY <1>1
    <3> HIDE DEF e
    <3>2. IsPrefix(p, e) => Len(p) <= Len(e)
      BY <1>1, <3>1, PrefixIs
    <3>3. ~IsPrefix(p, e)
      BY <3>1, <3>2
    <3> QED
      BY <3>3 DEF e
  <2>4. ASSUME NEW q \in DOMAIN tree' PROVE Parent(q) \in DOMAIN tree'
    <3>1. q \in DOMAIN tree /\ q \in Seq(Parts) /\ Parent(q) \in DOMAIN tree /\ Parent(q) \in Seq(Parts)
      BY <1>2, <2>1
    <3>2. IsPrefix(p, Parent(q)) => IsPrefix(p, q)
      <4>1. CASE q = <<>>
        BY <4>1 DEF Parent
      <4>2. CASE q # <<>>
        <5> DEFINE m == Len(q) - 1
                   v == SubSeq(q, 1, m)
        <5>0. Parent(q) = v
          BY <4>2 DEF Parent, Front
        <5>n. q # <<>> /\ q \in Seq(Parts) => Len(q) \in Nat /\ Len(q) >= 1
          OBVIOUS
        <5>1. Len(q) \in Nat /\ Len(q) >= 1 /\ m \in Nat /\ m <= Len(q)
          BY <3>1, <4>2, <5>n
        <5> HIDE DEF m
        <5>a. v \in Seq(Parts) /\ Len(v) = m /\ \A i \in 1..m : v[i] = q[i]
          BY <3>1, <5>1
        <5> HIDE DEF v
        <5>2. Len(Parent(q)) = Len(q) - 1 /\ \A i \in 1..Len(q) - 1 : Parent(q)[i] = q[i]
          BY <5>0, <5>a DEF m
        <5>3. IsPrefix(p, Parent(q)) <=> Len(p) <= Len(Parent(q)) /\ \A i \in 1..Len(p) : p[i] = Parent(q)[i]
          BY <1>1, <3>1, PrefixIs
        <5>4. IsPrefix(p, q) <=> Len(p) <= Len(q) /\ \A i \in 1..Len(p) : p[i] = q[i]
          BY <1>1, <3>1, PrefixIs
        <5>5. Len(p) \in Nat
          BY <1>1
        <5> QED
          BY <5>1, <5>2, <5>3, <5>4, <5>5
      <4> QED
        BY <4>1, <4>2
    <3> QED
      BY <2>1, <2>2, <3>1, <3>2
  <2> QED
    BY <1>2, <2>1, <2>2, <2>3, <2>4 DEF TreeOK, IsDir
<1>4. ASSUME p \notin DOMAIN tree, IsDir(tree, Parent(p)), NEW n \in Nodes,
             tree' = [q \in DOMAIN tree \cup {p} |-> IF q = p THEN n ELSE tree[q]]
      PROVE  TreeOK(tree')
  <2>1. NodeOK(n)
    BY ListOK
  <2>2. /\ DOMAIN tree' = DOMAIN tree \cup {p} /\ tree'[p] = n
        /\ \A q \in DOMAIN tree : tree'[q] = tree[q]
    BY <1>4
  <2>3. Parent(p) \in DOMAIN tree /\ tree[Parent(p)].kind = "dir"
    BY <1>4 DEF IsDir
  <2> QED
    BY <1>1, <1>2, <2>1, <2>2, <2>3 DEF TreeOK, IsDir
<1>5. ASSUME IsDir(tree, p), NEW n \in Nodes, n.kind = "dir", tree' = [tree EXCEPT ![p] = n]
      PROVE  TreeOK(tree')
  <2>1. NodeOK(n) /\ p \in DOMAIN tree
    BY <1>5, ListOK DEF IsDir
  <2>2. DOMAIN tree' = DOMAIN tree /\ tree'[p] = n /\ \A q \in DOMAIN tree : q # p => tree'[q] = tree[q]
    BY <1>5, <2>1
  <2> QED
    BY <1>1, <1>2, <1>5, <2>1, <2>2 DEF TreeOK, IsDir
<1> QED
  BY <1>3, <1>4, <1>5 DEF Change

\* A change adds a tree: fewer entries stay, and what was so in one tree still was.
LEMMA ChangeInv == ASSUME ListInv, NEW p \in Spots, Change(p) PROVE ListInv'
<1>1. was' = Append(was, tree') /\ was \in Seq(Trees) /\ \A t \in Trees : TreeOK(t)
  BY DEF Change, ListInv, ListTypeOK, Trees
<1>2. TreeOK(tree')
  BY ChangeTree
<1> DEFINE all == Trees \cup {tree'}
<1>3. /\ was' \in Seq(all) /\ Len(was) \in Nat /\ DOMAIN was = 1..Len(was) /\ Len(was') = Len(was) + 1
      /\ DOMAIN was' = 1..Len(was) + 1 /\ was'[Len(was) + 1] = tree' /\ \A i \in 1..Len(was) : was'[i] = was[i]
  BY <1>1
<1>4. Trees' = all
  BY <1>3 DEF Trees, Range
<1>5. UNCHANGED <<pc, recursive, maxDepth, stack, kind, listed, marks, answer>>
  BY DEF Change
<1> QED
  BY <1>1, <1>2, <1>3, <1>4, <1>5, Grows DEF Trees

\* Nothing is said before the first step.
LEMMA ListInitInv == ListInit => ListInv
<1> SUFFICES ASSUME ListInit PROVE ListInv
  OBVIOUS
<1>1. PICK t \in Starts, r \in BOOLEAN, d \in Depths : Called(t, r, d)
  BY DEF ListInit
<1>2. /\ pc = "exists" /\ tree = t /\ recursive = r /\ maxDepth = d
      /\ stack = <<>> /\ kind = "file" /\ listed = {} /\ marks = {} /\ answer = "none" /\ was = <<t>>
  BY <1>1 DEF Called
<1>3. Trees = {t}
  BY <1>2 DEF Trees, Range
<1>4. ListTypeOK
  <2>1. d \in Int /\ TreeOK(t)
    BY ListOK
  <2>2. was \in Seq({t})
    BY <1>2
  <2> QED
    BY <1>2, <1>3, <2>1, <2>2 DEF ListTypeOK, Trees
<1>5. StackOK(stack)
  <2>1. <<>> \in Seq(Frame) /\ Len(<<>>) = 0 /\ DOMAIN <<>> = {}
    OBVIOUS
  <2>2. 0 <= Limit
    BY <1>4, LimitType DEF ListTypeOK
  <2> QED
    BY <1>2, <2>1, <2>2 DEF StackOK
<1>6. AtHand
  BY <1>2 DEF AtHand
<1>7. Covered
  BY <1>2 DEF Covered
<1>8. SaysWhatWas
  BY <1>2, SaysIs
<1> QED
  BY <1>4, <1>5, <1>6, <1>7, <1>8 DEF ListInv

\* One lemma for each system call, and one for other processes.
LEMMA ListStepInv == ListInv /\ [ListNext]_listVars => ListInv'
<1> SUFFICES ASSUME ListInv, [ListNext]_listVars PROVE ListInv'
  OBVIOUS
<1>1. CASE UNCHANGED listVars
  <2>1. UNCHANGED <<pc, recursive, maxDepth, stack, kind, listed, marks, answer>> /\ tree' = tree /\ was' = was
    BY <1>1 DEF listVars
  <2>2. Trees' = Trees
    BY <2>1 DEF Trees
  <2>3. tree' \in Trees' /\ was' \in Seq(Range(was')) /\ \A t \in Trees' : TreeOK(t)
    BY <2>1, <2>2 DEF ListInv, ListTypeOK
  <2> QED
    BY <2>1, <2>2, <2>3, Grows
<1> QED
  BY <1>1, ExistsInv, IsDirectoryInv, ListDirInv, LookInv, SizeOfInv, DescendInv, ChangeInv DEF ListNext

\* read_directory leaves out nothing that was there, with one type, during the call.
THEOREM NothingLeftOut == ListSpec => []ListsWhatStays
<1>1. ListInv => ListsWhatStays
  <2> SUFFICES ASSUME ListInv, answer = "entries", NEW path \in Below, NEW k \in {"dir", "file"}, Stays(path, k)
               PROVE  [path |-> path, kind |-> k] \in listed
    BY DEF ListsWhatStays, Stays
  <2>1. pc = "done" /\ stack = <<>>
    BY DEF ListInv, AtHand
  <2>2. ~Waits(path, stack) /\ ~Opens(path)
    BY <2>1 DEF Waits, Opens
  <2> QED
    BY <2>1, <2>2 DEF ListInv, Covered
<1> QED
  BY <1>1, ListInitInv, ListStepInv, PTL DEF ListSpec

\* And what it says was so at some moment of the call.
THEOREM NothingMadeUp == ListSpec => []SaysWhatWas
<1>1. ListInv => SaysWhatWas
  BY DEF ListInv
<1> QED
  BY <1>1, ListInitInv, ListStepInv, PTL DEF ListSpec

=============================================================================
