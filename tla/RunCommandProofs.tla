-------------------------- MODULE RunCommandProofs --------------------------
(* What holds of RunCommand for every value of its constants: any number of   *)
(* children and streams, any caps, chunk and pipe sizes, any timeouts.        *)
EXTENDS RunCommand, FoldLemmas

\* Bash is the first process to run and the last word on its exit code.
ProcInv ==
  /\ pc = "start" => proc[Bash] = "unborn"
  /\ pc \notin {"start", "done"} => proc[Bash] # "unborn"
  /\ proc[Bash] = "unborn" => \A p \in Procs : proc[p] = "unborn"
  /\ \A p \in group : proc[p] # "unborn"
  /\ BashGone = (code # None)

\* The buffers hold what was taken from the pipes, up to the cap, and "truncated" tells
\* whether one is full.
BufInv ==
  /\ CaptureIsPrefix
  /\ truncated = \E s \in Streams : Len(buf[s]) = Limit

\* A stream is given up only at its end, and what select reported stays true until it is read.
EofInv ==
  /\ \A s \in Streams \ open : AtEof(s)
  /\ \A s \in events : Waiting(s) > 0 \/ AtEof(s)
  /\ pc # "read" => events = {}

\* Why the call is where it is.
StageInv ==
  /\ pc = "start" => ~truncated
  /\ pc = "wait" => ~truncated /\ open = {}
  /\ pc = "kill" => truncated \/ timedOut
  /\ timedOut => ~truncated /\ pc \in {"kill", "reap", "done"}
  /\ failed => ~truncated /\ ~timedOut /\ pc = "done"
  /\ reaped => BashGone /\ pc \in {"reap", "done"}
  /\ pc \in {"reap", "done"} /\ ~truncated /\ ~timedOut /\ ~failed => reaped /\ open = {}

\* The two deadlines: the call's own, and the reap's after it.
ClockInv ==
  /\ pc \in {"start", "select", "read", "wait", "kill"} => now <= Timeout
  /\ reapBy <= Timeout + ReapTimeout
  /\ InTime

\* What the kill reached stays dead.
KillInv ==
  pc \in {"reap", "done"} /\ (truncated \/ timedOut) =>
    \A p \in group \cup {Bash} : proc[p] \in {"dies", "dead"}

IInv == TypeOK /\ ProcInv /\ BufInv /\ EofInv /\ StageInv /\ ClockInv /\ KillInv

-----------------------------------------------------------------------------
(* Facts about the operators. *)

\* The smaller of two numbers.
LEMMA LeastIs ==
  ASSUME NEW m \in Nat, NEW n \in Nat
  PROVE  /\ Least(m, n) \in Nat /\ Least(m, n) <= m /\ Least(m, n) <= n
         /\ Least(m, n) = m \/ Least(m, n) = n
BY DEF Least

\* The beginning of a sequence.
LEMMA PrefixIs ==
  ASSUME NEW S, NEW w \in Seq(S), NEW n \in 0..Len(w)
  PROVE  /\ SubSeq(w, 1, n) \in Seq(S)
         /\ Len(SubSeq(w, 1, n)) = n
         /\ \A i \in 1..n : SubSeq(w, 1, n)[i] = w[i]
<1>1. \A i \in 1..n : w[i] \in S
  BY LenProperties, ElementOfSeq
<1>2. n \in Int /\ n \in Nat
  BY LenProperties
<1> QED
  BY <1>1, <1>2, SubSeqProperties

\* It does not change when the sequence grows.
LEMMA PrefixOfAppend ==
  ASSUME NEW S, NEW w \in Seq(S), NEW e \in S, NEW n \in 0..Len(w)
  PROVE  SubSeq(Append(w, e), 1, n) = SubSeq(w, 1, n)
<1> DEFINE v == Append(w, e)
<1>1. v \in Seq(S) /\ Len(v) = Len(w) + 1 /\ \A i \in 1..Len(w) : v[i] = w[i]
  BY AppendProperties
<1>2. Len(w) \in Nat
  BY LenProperties
<1> HIDE DEF v
<1>3. n \in 0..Len(v)
  BY <1>1, <1>2
<1>4. /\ SubSeq(v, 1, n) \in Seq(S) /\ Len(SubSeq(v, 1, n)) = n
      /\ \A i \in 1..n : SubSeq(v, 1, n)[i] = v[i]
  BY <1>1, <1>3, PrefixIs
<1>5. /\ SubSeq(w, 1, n) \in Seq(S) /\ Len(SubSeq(w, 1, n)) = n
      /\ \A i \in 1..n : SubSeq(w, 1, n)[i] = w[i]
  BY PrefixIs
<1>6. \A i \in 1..n : SubSeq(v, 1, n)[i] = SubSeq(w, 1, n)[i]
  BY <1>1, <1>2, <1>4, <1>5
<1>7. SubSeq(v, 1, n) = SubSeq(w, 1, n)
  BY <1>4, <1>5, <1>6, SeqEqual
<1> QED
  BY <1>7 DEF v

\* How long the beginning is that a buffer may hold.
LEMMA CaptureLength ==
  ASSUME NEW S, NEW w \in Seq(S), NEW t \in Nat, t <= Len(w)
  PROVE  /\ Len(SubSeq(w, 1, Least(t, Limit))) = Least(t, Limit)
         /\ Least(t, Limit) = Limit <=> t >= Limit
<1>1. Limit \in Nat /\ Len(w) \in Nat
  BY ConstantsOK, LenProperties
<1>2. Least(t, Limit) \in Nat /\ Least(t, Limit) <= t
  BY <1>1, LeastIs
<1>3. Least(t, Limit) \in 0..Len(w)
  BY <1>1, <1>2
<1>4. Least(t, Limit) = Limit <=> t >= Limit
  BY <1>1 DEF Least
<1> QED
  BY <1>3, <1>4, PrefixIs

\* A chunk read from the pipe is the part of what was written that follows what was taken.
LEMMA ChunkIs ==
  ASSUME NEW S, NEW w \in Seq(S), NEW t \in Nat, NEW n \in Nat, t + n <= Len(w)
  PROVE  /\ SubSeq(w, t + 1, t + n) \in Seq(S)
         /\ Len(SubSeq(w, t + 1, t + n)) = n
         /\ \A i \in 1..n : SubSeq(w, t + 1, t + n)[i] = w[t + i]
<1>1. \A i \in (t + 1)..(t + n) : w[i] \in S
  BY LenProperties, ElementOfSeq
<1>2. t + 1 \in Int /\ t + n \in Int
  OBVIOUS
<1> DEFINE c == SubSeq(w, t + 1, t + n)
<1>3. /\ c \in Seq(S)
      /\ Len(c) = IF t + 1 <= t + n THEN (t + n) - (t + 1) + 1 ELSE 0
      /\ \A i \in 1..((t + n) - (t + 1) + 1) : c[i] = w[(t + 1) + i - 1]
  BY <1>1, <1>2, SubSeqProperties
<1> HIDE DEF c
<1>4. Len(c) = n
  BY <1>3
<1>5. \A i \in 1..n : c[i] = w[t + i]
  BY <1>3
<1> QED
  BY <1>3, <1>4, <1>5 DEF c

\* A buffer that is the beginning of a stream takes of the next chunk what makes it a
\* longer beginning, and never more than the cap.
LEMMA KeptIsPrefix ==
  ASSUME NEW S, NEW w \in Seq(S), NEW t \in Nat, NEW n \in Nat, t + n <= Len(w)
  PROVE  Kept(SubSeq(w, 1, Least(t, Limit)), SubSeq(w, t + 1, t + n))
           = SubSeq(w, 1, Least(t + n, Limit))
<1>l. Limit \in Nat /\ Len(w) \in Nat /\ t <= Len(w)
  BY ConstantsOK, LenProperties
<1>1. PICK k \in Nat : k = Least(t, Limit)
  BY <1>l, LeastIs
<1>2. PICK m \in Nat : m = Least(t + n, Limit)
  <2>1. t + n \in Nat
    OBVIOUS
  <2> QED
    BY <1>l, <2>1, LeastIs
<1>3. /\ k <= m /\ m <= Len(w) /\ k <= Limit /\ m - k <= n /\ m - k \in Nat
      /\ m > k => k = t
      /\ Least(n, Limit - k) = m - k
  <2>1. k = IF t <= Limit THEN t ELSE Limit
    BY <1>1 DEF Least
  <2>2. m = IF t + n <= Limit THEN t + n ELSE Limit
    BY <1>2 DEF Least
  <2>3. k <= m /\ m <= Len(w) /\ k <= Limit /\ m - k <= n /\ m - k \in Nat /\ (m > k => k = t)
    BY <1>l, <2>1, <2>2
  <2>4. (IF n <= Limit - k THEN n ELSE Limit - k) = m - k
    BY <1>l, <2>1, <2>2
  <2> QED
    BY <2>3, <2>4 DEF Least
<1> DEFINE b == SubSeq(w, 1, k)
           c == SubSeq(w, t + 1, t + n)
           e == SubSeq(c, 1, m - k)
           p == SubSeq(w, 1, m)
<1>4. b \in Seq(S) /\ Len(b) = k /\ \A i \in 1..k : b[i] = w[i]
  BY <1>3, <1>l, PrefixIs
<1>5. c \in Seq(S) /\ Len(c) = n /\ \A i \in 1..n : c[i] = w[t + i]
  BY ChunkIs
<1>6. p \in Seq(S) /\ Len(p) = m /\ \A i \in 1..m : p[i] = w[i]
  BY <1>3, <1>l, PrefixIs
<1> HIDE DEF c
<1>7. e \in Seq(S) /\ Len(e) = m - k /\ \A i \in 1..(m - k) : e[i] = c[i]
  BY <1>3, <1>5, PrefixIs
<1> HIDE DEF b, e, p
<1>8. b \o e \in Seq(S) /\ Len(b \o e) = k + (m - k)
      /\ \A i \in 1..(k + (m - k)) : (b \o e)[i] = IF i <= k THEN b[i] ELSE e[i - k]
  BY <1>4, <1>7, ConcatProperties
<1>9. PICK q \in Seq(S) : /\ q = b \o e /\ Len(q) = m
                         /\ \A i \in 1..m : q[i] = IF i <= k THEN b[i] ELSE e[i - k]
  <2>1. k + (m - k) = m
    BY <1>3
  <2> QED
    BY <1>8, <2>1
<1>10. ASSUME NEW i \in 1..m PROVE q[i] = p[i]
  <2>1. CASE i <= k
    <3>1. i \in 1..k
      BY <2>1
    <3> QED
      BY <2>1, <3>1, <1>4, <1>6, <1>9
  <2>2. CASE ~(i <= k)
    <3>1. k = t /\ i - k \in 1..(m - k) /\ i - k \in 1..n /\ t + (i - k) = i
      BY <2>2, <1>3
    <3>2. q[i] = e[i - k]
      BY <2>2, <1>9
    <3>3. e[i - k] = w[t + (i - k)]
      BY <3>1, <1>5, <1>7
    <3> QED
      BY <3>1, <3>2, <3>3, <1>6
  <2> QED
    BY <2>1, <2>2
<1>11. b \o e = p
  BY <1>6, <1>9, <1>10, SeqEqual
<1>12. Kept(b, c) = b \o e
  BY <1>3, <1>4, <1>5 DEF Kept, e
<1> QED
  BY <1>1, <1>2, <1>11, <1>12 DEF b, c, p

-----------------------------------------------------------------------------
(* What the steps leave alone. *)

\* The program writes bytes.
LEMMA WritesBytes == \A s \in Streams : Writes[s] \subseteq Bytes
BY ConstantsOK

\* The program has no hand in the call, nor in how much it has read.
LEMMA ProgramLeaves ==
  ASSUME Program
  PROVE  UNCHANGED <<call, now, taken>>
BY DEF Program, Fork, Write, Redirect, Leave, Exit, Stall, Resume

\* Time passing changes the time.
LEMMA TickLeaves ==
  ASSUME Tick
  PROVE  UNCHANGED <<call, taken, world>> /\ now' = now + 1
BY DEF Tick

\* The steps of the call other than Start and Kill have no hand in the program.
LEMMA CallLeaves ==
  ASSUME Select \/ (\E s \in Streams : Read(s)) \/ Wait \/ Reap \/ Tick
  PROVE  UNCHANGED world
BY DEF Select, Read, Wait, WaitThen, Reap, Tick

\* What a read leaves alone.
ReadQuiet == UNCHANGED <<timedOut, failed, exit, marked, reapBy, reaped, now, world>>

\* What a read does: it gives the stream up at its end; if not, the buffer is again the
\* beginning of the stream up to the cap, of which more is taken.
LEMMA ReadEffect ==
  ASSUME TypeOK, BufInv, NEW s \in Streams, Read(s)
  PROVE  /\ pc = "read" /\ s \in events /\ events' = events \ {s} /\ pc' \in {"select", "read"}
         /\ pc' = "select" => events' = {}
         /\ ReadQuiet
         /\ buf' \in [Streams -> Seq(Bytes)]
         /\ taken' \in [Streams -> Nat]
         /\ \A x \in Streams : taken[x] <= taken'[x]
         /\ \A x \in Streams : taken'[x] <= Len(written[x])
         /\ \A x \in Streams \ {s} : taken'[x] = taken[x]
         /\ CaptureIsPrefix'
         /\ truncated' \in BOOLEAN /\ (truncated' <=> truncated \/ Len(buf'[s]) = Limit)
         /\ \A x \in Streams \ {s} : buf'[x] = buf[x]
         /\ IF Waiting(s) = 0 THEN open' = open \ {s} /\ UNCHANGED <<buf, taken>>
                              ELSE UNCHANGED open
<1>c. Limit \in Nat /\ Limit # 0 /\ Chunk \in Nat /\ Chunk # 0
  BY ConstantsOK
<1>1. /\ written[s] \in Seq(Bytes) /\ taken[s] \in Nat /\ Len(written[s]) \in Nat
      /\ taken[s] <= Len(written[s]) /\ Waiting(s) \in Nat
  <2>1. written[s] \in Seq(Bytes) /\ taken[s] \in Nat /\ taken[s] <= Len(written[s])
    BY DEF TypeOK
  <2>2. Len(written[s]) \in Nat
    BY <2>1, LenProperties
  <2> QED
    BY <2>1, <2>2 DEF Waiting
<1>2. PICK n \in Nat : /\ n = Least(Waiting(s), Chunk) /\ n <= Waiting(s)
                       /\ n = 0 <=> Waiting(s) = 0
  BY <1>1, <1>c DEF Least
<1>3. taken[s] + n \in Nat /\ taken[s] + n <= Len(written[s])
  BY <1>1, <1>2 DEF Waiting
<1> DEFINE chunk == SubSeq(written[s], taken[s] + 1, taken[s] + n)
           kept == SubSeq(written[s], 1, Least(taken[s] + n, Limit))
<1>4. Kept(buf[s], chunk) = kept
  <2>1. buf[s] = SubSeq(written[s], 1, Least(taken[s], Limit))
    BY DEF BufInv, CaptureIsPrefix
  <2>2. Kept(SubSeq(written[s], 1, Least(taken[s], Limit)), chunk) = kept
    BY <1>1, <1>3, KeptIsPrefix
  <2> HIDE DEF chunk, kept
  <2> QED
    BY <2>1, <2>2, Zenon
<1>5. kept \in Seq(Bytes) /\ Len(kept) = Least(taken[s] + n, Limit)
  <2>1. Least(taken[s] + n, Limit) \in 0..Len(written[s])
    <3>1. Least(taken[s] + n, Limit) \in Nat /\ Least(taken[s] + n, Limit) <= taken[s] + n
      BY <1>3, <1>c, LeastIs
    <3> QED
      BY <1>1, <1>3, <3>1
  <2> QED
    BY <1>1, <2>1, PrefixIs
<1> HIDE DEF kept, chunk
<1>6. Full(kept) <=> Len(kept) = Limit
  <2>1. Len(kept) \in Nat /\ Len(kept) <= Limit
    BY <1>3, <1>5, <1>c, LeastIs
  <2>2. Full(kept) <=> Len(kept) >= Limit
    BY DEF Full
  <2> QED
    BY <2>1, <2>2, <1>c
<1>7. /\ pc = "read" /\ s \in events /\ events' = events \ {s} /\ pc' \in {"select", "read"}
      /\ pc' = "select" => events' = {}
      /\ ReadQuiet /\ UNCHANGED written
  BY DEF Read, ReadQuiet, world
<1>8. CASE n = 0
  <2>1. UNCHANGED <<buf, taken, truncated>> /\ open' = open \ {s}
    BY <1>2, <1>8 DEF Read
  <2>2. Len(buf[s]) = Limit => truncated
    BY DEF BufInv
  <2>3. CaptureIsPrefix'
    BY <1>7, <2>1 DEF BufInv, CaptureIsPrefix
  <2>4. \A x \in Streams : taken[x] <= taken'[x] /\ taken'[x] <= Len(written[x])
    BY <2>1 DEF TypeOK
  <2>5. truncated \in BOOLEAN
    BY DEF TypeOK
  <2> QED
    BY <1>2, <1>7, <1>8, <2>1, <2>2, <2>3, <2>4, <2>5 DEF TypeOK
<1>9. CASE n # 0
  <2>1. /\ taken' = [taken EXCEPT ![s] = @ + n] /\ UNCHANGED open
        /\ buf' = [buf EXCEPT ![s] = Kept(@, chunk)]
        /\ truncated' = (truncated \/ Full(Kept(buf[s], chunk)))
    BY <1>2, <1>9 DEF Read, chunk
  <2>2. /\ taken' \in [Streams -> Nat] /\ taken'[s] = taken[s] + n
        /\ \A x \in Streams \ {s} : taken'[x] = taken[x]
    BY <1>3, <2>1 DEF TypeOK
  <2>3. /\ buf' \in [Streams -> Seq(Bytes)] /\ buf'[s] = kept
        /\ \A x \in Streams \ {s} : buf'[x] = buf[x]
    BY <1>4, <1>5, <2>1 DEF TypeOK
  <2>4. truncated' \in BOOLEAN /\ (truncated' <=> truncated \/ Len(buf'[s]) = Limit)
    BY <1>4, <1>6, <2>1, <2>3
  <2>5. CaptureIsPrefix'
    BY <1>7, <2>2, <2>3 DEF BufInv, CaptureIsPrefix, kept
  <2>6. \A x \in Streams : taken[x] <= taken'[x] /\ taken'[x] <= Len(written[x])
    <3>1. taken[s] <= taken'[s] /\ taken'[s] <= Len(written[s])
      BY <1>1, <1>2, <1>3, <2>2
    <3>2. ASSUME NEW x \in Streams \ {s} PROVE taken[x] <= taken'[x] /\ taken'[x] <= Len(written[x])
      BY <2>2 DEF TypeOK
    <3> QED
      BY <3>1, <3>2
  <2> QED
    BY <1>2, <1>7, <1>9, <2>1, <2>2, <2>3, <2>4, <2>5, <2>6
<1> QED
  BY <1>8, <1>9

-----------------------------------------------------------------------------
(* Types. *)

\* Every variable has its type before the call.
LEMMA InitType == Init => TypeOK
<1> SUFFICES ASSUME Init PROVE TypeOK
  OBVIOUS
<1>1. <<>> \in Seq(Bytes) /\ Len(<<>>) = 0
  BY EmptySeq
<1>2. /\ buf \in [Streams -> Seq(Bytes)] /\ written \in [Streams -> Seq(Bytes)]
      /\ taken \in [Streams -> Nat]
      /\ \A s \in Streams : taken[s] <= Len(written[s])
  BY <1>1 DEF Init
<1>3. /\ proc \in [Procs -> {"unborn", "runs", "stalls", "dies", "dead"}]
      /\ holds \in [Procs -> SUBSET Streams]
  BY DEF Init
<1> QED
  BY <1>2, <1>3 DEF Init, TypeOK

\* Every step of the call keeps the types.
LEMMA CallType ==
  ASSUME TypeOK, ProcInv, BufInv, StageInv, Call
  PROVE  TypeOK'
<1>c. Bash \in Procs /\ None \notin Codes \cup {Killed, Unknown}
      /\ Limit \in Nat /\ Chunk \in Nat /\ Timeout \in Nat /\ ReapTimeout \in Nat
  BY ConstantsOK DEF Procs
<1>1. CASE Start
  BY <1>1, <1>c DEF TypeOK, Start
<1>2. CASE Select
  BY <1>2 DEF TypeOK, Select, Ready, world
<1>3. ASSUME NEW s \in Streams, Read(s) PROVE TypeOK'
  <2>1. pc = "read" /\ pc' \in {"select", "read"} /\ events' = events \ {s} /\ truncated' \in BOOLEAN
    BY <1>3, ReadEffect
  <2>7. ReadQuiet
    BY <1>3, ReadEffect
  <2>8. buf' \in [Streams -> Seq(Bytes)] /\ taken' \in [Streams -> Nat]
    BY <1>3, ReadEffect
  <2>9. ASSUME NEW x \in Streams PROVE taken'[x] <= Len(written[x])
    BY <1>3, ReadEffect
  <2>6. open' = open \/ open' = open \ {s}
    BY <1>3, ReadEffect
  <2>2. events' \subseteq Streams /\ open' \subseteq Streams
    BY <2>1, <2>6 DEF TypeOK
  <2>3. \A x \in Streams : taken'[x] <= Len(written'[x])
    BY <2>7, <2>9 DEF ReadQuiet, world
  <2>4. /\ exit' = exit /\ pc # "done" /\ pc' # "done"
        /\ UNCHANGED <<timedOut, failed, marked, reapBy, reaped, now, proc, group, holds, written, code>>
    BY <2>1, <2>7 DEF ReadQuiet, world
  <2> QED
    BY <2>1, <2>2, <2>3, <2>4, <2>8 DEF TypeOK
<1>4. CASE Wait
  <2>1. now + ReapTimeout \in Nat
    BY <1>c DEF TypeOK
  <2>2. CASE BashGone
    BY <1>4, <2>1, <2>2 DEF TypeOK, Wait, WaitThen, world
  <2>3. CASE ~BashGone
    BY <1>4, <2>1, <2>3 DEF TypeOK, Wait, WaitThen, world
  <2> QED
    BY <2>2, <2>3
<1>5. CASE Kill
  BY <1>5, <1>c DEF TypeOK, Kill
<1>6. CASE Reap
  <2>1. ExitCode \in Codes \cup {Killed, Unknown} /\ ExitCode # None
    BY <1>6, <1>c DEF ExitCode, TypeOK, ProcInv
  <2>2. Marks \subseteq Streams
    BY DEF Marks
  <2> QED
    BY <1>6, <2>1, <2>2 DEF TypeOK, Reap, world
<1>7. CASE Tick
  BY <1>7 DEF TypeOK, Tick, call, world
<1> QED
  BY <1>1, <1>2, <1>3, <1>4, <1>5, <1>6, <1>7 DEF Call

\* So does every step of the program.
LEMMA ProgramType ==
  ASSUME TypeOK, Program
  PROVE  TypeOK'
<1>c. Bash \in Procs
  BY DEF Procs
<1>1. ASSUME NEW p \in Procs, NEW q \in Procs, Fork(p, q) PROVE TypeOK'
  BY <1>1 DEF TypeOK, Fork, call
<1>2. ASSUME NEW p \in Procs, NEW s \in Streams, Redirect(p, s) PROVE TypeOK'
  BY <1>2 DEF TypeOK, Redirect, call
<1>3. ASSUME NEW p \in Procs, NEW s \in Streams, NEW w \in Bytes, Write(p, s, w) PROVE TypeOK'
  <2>1. written[s] \in Seq(Bytes)
    BY DEF TypeOK
  <2>2. Append(written[s], w) \in Seq(Bytes) /\ Len(Append(written[s], w)) = Len(written[s]) + 1
    BY <2>1, AppendProperties
  <2>3. Len(written[s]) \in Nat
    BY <2>1, LenProperties
  <2>4. /\ written' \in [Streams -> Seq(Bytes)]
        /\ \A x \in Streams : written'[x] = IF x = s THEN Append(written[s], w) ELSE written[x]
    BY <1>3, <2>2 DEF TypeOK, Write
  <2>5. \A x \in Streams : taken[x] <= Len(written'[x])
    BY <2>2, <2>3, <2>4 DEF TypeOK
  <2> QED
    BY <1>3, <2>4, <2>5 DEF TypeOK, Write, call
<1>4. ASSUME NEW p \in Procs, Leave(p) \/ Exit(p) \/ Stall(p) \/ Resume(p) PROVE TypeOK'
  <2>1. CASE Leave(p)
    BY <2>1 DEF TypeOK, Leave, call
  <2>2. CASE Exit(p)
    BY <2>2 DEF TypeOK, Exit, call
  <2>3. CASE Stall(p)
    BY <2>3 DEF TypeOK, Stall, call
  <2>4. CASE Resume(p)
    BY <2>4 DEF TypeOK, Resume, call
  <2> QED
    BY <1>4, <2>1, <2>2, <2>3, <2>4
<1> QED
  BY <1>1, <1>2, <1>3, <1>4, WritesBytes DEF Program

-----------------------------------------------------------------------------
(* The parts of the invariant. *)

\* No process runs before bash, and there is an exit code once bash is gone.
LEMMA StepProc ==
  ASSUME TypeOK, ProcInv, [Next]_vars
  PROVE  ProcInv'
<1>c. Bash \in Procs /\ None \notin Codes /\ None # Killed
  BY ConstantsOK DEF Procs
<1>1. CASE Start
  BY <1>1, <1>c DEF TypeOK, ProcInv, BashGone, Start
<1>2. CASE Select \/ (\E s \in Streams : Read(s)) \/ Wait \/ Reap \/ Tick
  <2>1. UNCHANGED <<proc, group, code>>
    BY <1>2, CallLeaves DEF world
  <2>2. pc # "start" /\ pc' # "start" /\ (pc' # "done" => pc # "done")
    BY <1>2 DEF Select, Read, Wait, WaitThen, Reap, Tick, call
  <2> QED
    BY <2>1, <2>2 DEF ProcInv, BashGone
<1>3. CASE Kill
  <2>1. /\ pc = "kill" /\ pc' = "reap" /\ group' = group /\ Bash \in Victims
        /\ \A p \in Procs : proc'[p] = IF p \notin Victims THEN proc[p]
                                       ELSE IF proc[p] = "runs" THEN "dead"
                                       ELSE IF proc[p] = "stalls" THEN "dies" ELSE proc[p]
        /\ code' = IF proc[Bash] = "runs" THEN Killed ELSE code
    BY <1>3 DEF Kill, Victims
  <2>2. \A p \in Procs : proc'[p] = "unborn" <=> proc[p] = "unborn"
    BY <2>1
  <2>3. proc'[Bash] = "dead" <=> proc[Bash] \in {"runs", "dead"}
    BY <2>1, <1>c
  <2>4. proc'[Bash] = "dead" <=> code' # None
    BY <2>1, <2>3, <1>c DEF ProcInv, BashGone
  <2>5. group \subseteq Procs
    BY DEF TypeOK
  <2> QED
    BY <2>1, <2>2, <2>4, <2>5, <1>c DEF ProcInv, BashGone
<1>4. CASE Program
  <2>0. pc' = pc
    BY <1>4, ProgramLeaves DEF call
  <2>1. ASSUME NEW p \in Procs, NEW q \in Procs, Fork(p, q) PROVE ProcInv'
    BY <1>c, <2>0, <2>1 DEF TypeOK, ProcInv, BashGone, Fork
  <2>2. ASSUME NEW p \in Procs, Exit(p) PROVE ProcInv'
    BY <1>c, <2>0, <2>2 DEF TypeOK, ProcInv, BashGone, Exit
  <2>3. ASSUME NEW p \in Procs, Resume(p) PROVE ProcInv'
    BY <1>c, <2>0, <2>3 DEF TypeOK, ProcInv, BashGone, Resume
  <2>4. ASSUME NEW p \in Procs, Leave(p) \/ Stall(p) PROVE ProcInv'
    BY <1>c, <2>0, <2>4 DEF TypeOK, ProcInv, BashGone, Leave, Stall
  <2>5. CASE UNCHANGED <<proc, group, code>>
    BY <2>0, <2>5 DEF ProcInv, BashGone
  <2> QED
    BY <1>4, <2>1, <2>2, <2>3, <2>4, <2>5 DEF Program, Redirect, Write
<1>5. CASE UNCHANGED vars
  BY <1>5 DEF vars, call, world, ProcInv, BashGone
<1> QED
  BY <1>1, <1>2, <1>3, <1>4, <1>5 DEF Next, Call

\* Every step keeps the buffers the beginnings of the streams, and truncated in step with them.
LEMMA StepBuf ==
  ASSUME TypeOK, BufInv, [Next]_vars
  PROVE  BufInv'
<1>1. ASSUME NEW s \in Streams, Read(s) PROVE BufInv'
  <2>1. CaptureIsPrefix'
    BY <1>1, ReadEffect
  <2>2. /\ truncated' \in BOOLEAN /\ (truncated' <=> truncated \/ Len(buf'[s]) = Limit)
        /\ \A x \in Streams \ {s} : buf'[x] = buf[x]
        /\ Waiting(s) = 0 => buf' = buf
    BY <1>1, ReadEffect
  <2>3. Len(buf[s]) = Limit => Len(buf'[s]) = Limit
    <3>1. /\ written[s] \in Seq(Bytes) /\ written' = written /\ Limit \in Nat
          /\ taken[s] \in Nat /\ taken[s] <= Len(written[s])
          /\ taken'[s] \in Nat /\ taken[s] <= taken'[s]
      BY <1>1, ReadEffect, ConstantsOK DEF TypeOK, ReadQuiet, world
    <3>2. taken'[s] <= Len(written[s])
      BY <1>1, ReadEffect
    <3>3. buf[s] = SubSeq(written[s], 1, Least(taken[s], Limit))
      BY DEF BufInv, CaptureIsPrefix
    <3>4. buf'[s] = SubSeq(written[s], 1, Least(taken'[s], Limit))
      BY <2>1, <3>1 DEF CaptureIsPrefix
    <3>5. Len(buf[s]) = Least(taken[s], Limit) /\ (Least(taken[s], Limit) = Limit <=> taken[s] >= Limit)
      BY <3>1, <3>3, CaptureLength
    <3>6. Len(buf'[s]) = Least(taken'[s], Limit) /\ (Least(taken'[s], Limit) = Limit <=> taken'[s] >= Limit)
      BY <3>1, <3>2, <3>4, CaptureLength
    <3> QED
      BY <3>1, <3>5, <3>6
  <2>4. truncated' <=> \E x \in Streams : Len(buf'[x]) = Limit
    BY <2>2, <2>3 DEF BufInv
  <2> QED
    BY <2>1, <2>2, <2>4 DEF BufInv
<1>2. ASSUME NEW p \in Procs, NEW s \in Streams, NEW w \in Bytes, Write(p, s, w) PROVE BufInv'
  <2>1. UNCHANGED <<buf, truncated, taken>>
    BY <1>2 DEF Write, call
  <2>2. ASSUME NEW x \in Streams
        PROVE  SubSeq(written'[x], 1, Least(taken[x], Limit)) = SubSeq(written[x], 1, Least(taken[x], Limit))
    <3>1. written[x] \in Seq(Bytes) /\ taken[x] \in Nat /\ taken[x] <= Len(written[x]) /\ Limit \in Nat
      BY ConstantsOK DEF TypeOK
    <3>2. Least(taken[x], Limit) \in 0..Len(written[x])
      <4>1. Len(written[x]) \in Nat
        BY <3>1, LenProperties
      <4>2. Least(taken[x], Limit) \in Nat /\ Least(taken[x], Limit) <= taken[x]
        BY <3>1, LeastIs
      <4> QED
        BY <3>1, <4>1, <4>2
    <3>3. written'[x] = written[x] \/ written'[x] = Append(written[x], w)
      BY <1>2 DEF Write, TypeOK
    <3> QED
      BY <3>1, <3>2, <3>3, PrefixOfAppend
  <2> QED
    BY <2>1, <2>2 DEF BufInv, CaptureIsPrefix
<1>3. CASE UNCHANGED <<buf, truncated, taken, written>>
  BY <1>3 DEF BufInv, CaptureIsPrefix
<1>4. Start \/ Select \/ Wait \/ Kill \/ Reap \/ Tick => UNCHANGED <<buf, truncated, taken, written>>
  BY DEF Start, Select, Wait, WaitThen, Kill, Reap, Tick, call, world
<1>5. ASSUME NEW p \in Procs,
             \/ (\E q \in Procs : Fork(p, q)) \/ (\E s \in Streams : Redirect(p, s))
             \/ Leave(p) \/ Exit(p) \/ Stall(p) \/ Resume(p)
      PROVE  UNCHANGED <<buf, truncated, taken, written>>
  BY <1>5 DEF Fork, Redirect, Leave, Exit, Stall, Resume, call
<1>6. CASE Program
  BY <1>6, <1>2, <1>3, <1>5, WritesBytes DEF Program
<1>7. CASE UNCHANGED vars
  BY <1>3, <1>7 DEF vars, call, world
<1> QED
  BY <1>1, <1>3, <1>4, <1>6, <1>7 DEF Next, Call

\* The call is at each of its stages for one of the reasons named.
LEMMA StepStage ==
  ASSUME TypeOK, ProcInv, BufInv, EofInv, StageInv, [Next]_vars
  PROVE  StageInv'
<1>1. CASE Start
  BY <1>1 DEF TypeOK, StageInv, Start
<1>2. CASE Select
  BY <1>2 DEF TypeOK, StageInv, Select, world, BashGone
<1>3. ASSUME NEW s \in Streams, Read(s) PROVE StageInv'
  <2>1. /\ pc = "read" /\ pc' \in {"select", "read"}
        /\ UNCHANGED <<timedOut, failed, reaped>>
    BY <1>3 DEF Read
  <2> QED
    BY <2>1 DEF TypeOK, StageInv
<1>4. CASE Wait
  <2>1. CASE BashGone
    BY <1>4, <2>1 DEF TypeOK, StageInv, Wait, WaitThen, world, BashGone
  <2>2. CASE ~BashGone
    BY <1>4, <2>2 DEF TypeOK, StageInv, Wait, WaitThen, world, BashGone
  <2> QED
    BY <2>1, <2>2
<1>5. CASE Kill
  BY <1>5 DEF TypeOK, StageInv, Kill
<1>6. CASE Reap
  BY <1>6 DEF TypeOK, StageInv, Reap, world, BashGone
<1>7. CASE Tick
  BY <1>7, TickLeaves DEF StageInv, call, world, BashGone
<1>8. CASE Program
  <2>1. UNCHANGED call
    BY <1>8, ProgramLeaves
  <2>2. BashGone => BashGone'
    <3>1. ASSUME NEW p \in Procs, NEW q \in Procs, Fork(p, q) PROVE BashGone => BashGone'
      BY <3>1 DEF TypeOK, BashGone, Fork
    <3>2. ASSUME NEW p \in Procs, NEW s \in Streams,
                 Redirect(p, s) \/ \E w \in Writes[s] : Write(p, s, w)
          PROVE  UNCHANGED proc
      BY <3>2 DEF Redirect, Write
    <3>3. ASSUME NEW p \in Procs, Exit(p) \/ Stall(p) \/ Resume(p) PROVE BashGone => BashGone'
      <4>1. \/ proc' = [proc EXCEPT ![p] = "dead"]
            \/ proc[p] # "dead" /\ \E x \in {"stalls", "runs"} : proc' = [proc EXCEPT ![p] = x]
        BY <3>3 DEF Exit, Stall, Resume
      <4>2. Bash \in Procs
        BY DEF Procs
      <4> QED
        BY <4>1, <4>2 DEF TypeOK, BashGone
    <3>4. ASSUME NEW p \in Procs, Leave(p) PROVE UNCHANGED proc
      BY <3>4 DEF Leave
    <3> QED
      BY <1>8, <3>1, <3>2, <3>3, <3>4 DEF Program, BashGone
  <2> QED
    BY <2>1, <2>2 DEF StageInv, call
<1>9. CASE UNCHANGED vars
  BY <1>9 DEF vars, StageInv, call, world, BashGone
<1> QED
  BY <1>1, <1>2, <1>3, <1>4, <1>5, <1>6, <1>7, <1>8, <1>9 DEF Next, Call

\* A stream that has ended stays so, but for the start of bash.
LEMMA EofStays ==
  ASSUME TypeOK, [Next]_vars, ~Start, NEW s \in Streams, AtEof(s)
  PROVE  AtEof(s)'
<1>0. /\ \A p \in Procs : s \notin holds[p]
      /\ Len(written[s]) - taken[s] = 0
  BY DEF AtEof, Waiting
<1>1. ASSUME NEW x \in Streams, Read(x) PROVE AtEof(s)'
  <2>1. UNCHANGED world /\ taken'[s] = taken[s]
    <3>1. UNCHANGED world /\ (taken' = taken \/ \E n : taken' = [taken EXCEPT ![x] = n])
      BY <1>1 DEF Read
    <3>2. x = s => taken' = taken
      <4>1. taken[s] \in Nat /\ Waiting(s) = 0 /\ Chunk \in Nat
        BY ConstantsOK DEF TypeOK, AtEof
      <4> QED
        BY <1>1, <4>1 DEF Read, Least
    <3> QED
      BY <3>1, <3>2 DEF TypeOK
  <2> QED
    BY <2>1, <1>0 DEF world, AtEof, Waiting
<1>2. CASE Select \/ Wait \/ Reap \/ Tick
  BY <1>2, <1>0 DEF Select, Wait, WaitThen, Reap, Tick, world, AtEof, Waiting
<1>3. CASE Kill
  BY <1>3, <1>0 DEF Kill, AtEof, Waiting
<1>4. CASE Program
  <2>0. taken' = taken
    BY <1>4, ProgramLeaves
  <2>1. written'[s] = written[s]
    <3>1. ASSUME NEW p \in Procs, NEW x \in Streams, NEW w \in Bytes, Write(p, x, w)
          PROVE  written'[s] = written[s]
      BY <1>0, <3>1 DEF TypeOK, Write
    <3>2. CASE UNCHANGED written
      BY <3>2
    <3> QED
      BY <1>4, <3>1, <3>2, WritesBytes DEF Program, Fork, Redirect, Leave, Exit, Stall, Resume
  <2>2. ASSUME NEW q \in Procs PROVE s \notin holds'[q]
    BY <1>4, <1>0 DEF TypeOK, Program, Fork, Write, Redirect, Leave, Exit, Stall, Resume
  <2> QED
    BY <2>0, <2>1, <2>2, <1>0 DEF AtEof, Waiting
<1>5. CASE UNCHANGED vars
  BY <1>5, <1>0 DEF vars, world, AtEof, Waiting
<1> QED
  BY <1>1, <1>2, <1>3, <1>4, <1>5 DEF Next, Call

\* Bytes that wait in a pipe wait until its stream is read.
LEMMA WaitingStays ==
  ASSUME TypeOK, [Next]_vars, NEW s \in Streams, ~Read(s), Waiting(s) > 0
  PROVE  Waiting(s)' > 0
<1>0. Len(written[s]) \in Nat /\ taken[s] \in Nat /\ Len(written[s]) - taken[s] > 0
  BY LenProperties DEF TypeOK, Waiting
<1>1. taken'[s] = taken[s]
  <2>1. ASSUME NEW x \in Streams, Read(x) PROVE taken'[s] = taken[s]
    <3>1. x # s /\ (taken' = taken \/ \E n : taken' = [taken EXCEPT ![x] = n])
      BY <2>1 DEF Read
    <3> QED
      BY <3>1 DEF TypeOK
  <2>2. CASE UNCHANGED taken
    BY <2>2
  <2>3. Start \/ Select \/ Wait \/ Kill \/ Reap \/ Tick \/ Program \/ UNCHANGED vars => UNCHANGED taken
    BY ProgramLeaves DEF Start, Select, Wait, WaitThen, Kill, Reap, Tick, vars
  <2> QED
    BY <2>1, <2>2, <2>3 DEF Next, Call
<1>2. Len(written'[s]) \in Nat /\ Len(written'[s]) >= Len(written[s])
  <2>1. ASSUME NEW p \in Procs, NEW x \in Streams, NEW w \in Bytes, Write(p, x, w)
        PROVE  Len(written'[s]) \in Nat /\ Len(written'[s]) >= Len(written[s])
    <3>1. written'[s] = written[s] \/ written'[s] = Append(written[s], w)
      BY <2>1 DEF TypeOK, Write
    <3>2. written[s] \in Seq(Bytes)
      BY DEF TypeOK
    <3> QED
      BY <1>0, <3>1, <3>2, AppendProperties
  <2>2. CASE UNCHANGED written
    BY <2>2, <1>0
  <2>3. Call \/ UNCHANGED vars => UNCHANGED written
    BY DEF Call, Start, Select, Read, Wait, WaitThen, Kill, Reap, Tick, vars, world
  <2>4. Program => UNCHANGED written \/ \E p \in Procs, x \in Streams, w \in Bytes : Write(p, x, w)
    BY WritesBytes DEF Program, Fork, Redirect, Leave, Exit, Stall, Resume
  <2> QED
    BY <2>1, <2>2, <2>3, <2>4 DEF Next
<1> QED
  BY <1>0, <1>1, <1>2 DEF Waiting

\* A stream that was given up is at its end, and what select reported is still so.
LEMMA StepEof ==
  ASSUME TypeOK, EofInv, [Next]_vars
  PROVE  EofInv'
<1>1. CASE Start
  <2>1. pc = "start" /\ pc' # "read" /\ events = {} /\ UNCHANGED <<events, written, taken>>
    BY <1>1 DEF EofInv, Start
  <2>2. open' = Streams \/ UNCHANGED <<holds, open>>
    BY <1>1 DEF Start
  <2> QED
    BY <2>1, <2>2 DEF EofInv, AtEof, Waiting
<1>2. CASE ~Start
  <2>1. ASSUME NEW s \in Streams \ open' PROVE AtEof(s)'
    <3>1. CASE s \notin open
      BY <3>1, <1>2, EofStays DEF EofInv
    <3>2. CASE s \in open
      <4>1. Read(s)
        BY <3>2, <2>1, <1>2, ProgramLeaves, TickLeaves DEF Next, Call, Select, Read, Wait, WaitThen, Kill,
           Reap, call, vars
      <4>2. Waiting(s) \in Nat /\ Chunk \in Nat \ {0}
        BY ConstantsOK, LenProperties DEF TypeOK, Waiting
      <4>3. s \in events /\ Waiting(s) = 0
        BY <4>1, <4>2, <3>2, <2>1 DEF Read, Least
      <4> QED
        BY <4>3, <1>2, EofStays DEF EofInv
    <3> QED
      BY <3>1, <3>2
  <2>2. ASSUME NEW s \in events' PROVE (Waiting(s) > 0 \/ AtEof(s))'
    <3>1. s \in Streams /\ (Waiting(s) > 0 \/ AtEof(s)) /\ ~Read(s)
      <4>1. ~Read(s)
        BY <2>2 DEF Read
      <4>2. CASE s \in events
        BY <4>1, <4>2 DEF EofInv, TypeOK
      <4>3. CASE s \notin events
        <5>1. Select
          BY <2>2, <4>3, <1>2, ProgramLeaves, TickLeaves DEF Next, Call, Read, Wait, WaitThen, Kill, Reap,
             call, vars
        <5> QED
          BY <2>2, <4>1, <4>3, <5>1 DEF Select, Ready, TypeOK
      <4> QED
        BY <4>2, <4>3
    <3> QED
      BY <3>1, <1>2, EofStays, WaitingStays
  <2>3. pc' # "read" => events' = {}
    <3>1. CASE Program \/ Tick \/ UNCHANGED vars
      BY <3>1, ProgramLeaves, TickLeaves DEF EofInv, call, vars
    <3>2. CASE Select \/ (\E s \in Streams : Read(s)) \/ Wait \/ Kill \/ Reap
      BY <3>2 DEF EofInv, Select, Read, Wait, WaitThen, Kill, Reap
    <3> QED
      BY <1>2, <3>1, <3>2 DEF Next, Call
  <2> QED
    BY <2>1, <2>2, <2>3 DEF EofInv
<1> QED
  BY <1>1, <1>2

\* No step takes the call past its two deadlines.
LEMMA StepClock ==
  ASSUME TypeOK, ClockInv, [Next]_vars
  PROVE  ClockInv'
<1>c. Timeout \in Nat /\ ReapTimeout \in Nat /\ now \in Nat /\ reapBy \in Nat
  BY ConstantsOK DEF TypeOK
<1>1. CASE Start \/ Select \/ (\E s \in Streams : Read(s)) \/ Reap
  BY <1>1, <1>c DEF ClockInv, InTime, Start, Select, Read, Reap
<1>2. CASE Wait
  <2>1. pc = "wait" /\ now' = now /\ reapBy' = now + ReapTimeout
    BY <1>2 DEF Wait, WaitThen
  <2> QED
    BY <2>1, <1>c DEF ClockInv, InTime
<1>3. CASE Kill
  BY <1>3, <1>c DEF ClockInv, InTime, Kill
<1>4. CASE Tick
  <2>1. now' = now + 1 /\ UNCHANGED <<pc, reapBy>>
    BY <1>4 DEF Tick, call
  <2>2. (pc \in {"select", "wait"} /\ now < Timeout) \/ (pc = "reap" /\ now < reapBy)
    BY <1>4, <1>c DEF Tick, Expired, WaitOver, ReapOver
  <2> QED
    BY <2>1, <2>2, <1>c DEF ClockInv, InTime
<1>5. CASE Program
  BY <1>5, ProgramLeaves DEF ClockInv, InTime, call
<1>6. CASE UNCHANGED vars
  BY <1>6 DEF vars, ClockInv, InTime, call
<1> QED
  BY <1>1, <1>2, <1>3, <1>4, <1>5, <1>6 DEF Next, Call

\* Nothing brings back what the kill reached.
LEMMA StepKill ==
  ASSUME TypeOK, ProcInv, StageInv, KillInv, [Next]_vars
  PROVE  KillInv'
<1>c. Bash \in Procs
  BY DEF Procs
<1>1. CASE Start
  BY <1>1 DEF StageInv, KillInv, Start, TypeOK
<1>2. CASE Select \/ (\E s \in Streams : Read(s)) \/ Tick
  <2>1. UNCHANGED world /\ ((pc' \in {"reap", "done"}) => pc' = pc /\ UNCHANGED <<truncated, timedOut>>)
    BY <1>2, CallLeaves DEF Select, Read, Tick, call
  <2> QED
    BY <2>1 DEF KillInv, world
<1>3. CASE Wait
  <2>1. pc = "wait" /\ pc' # "done" /\ (pc' = "reap" => UNCHANGED <<truncated, timedOut>>)
    BY <1>3 DEF Wait, WaitThen
  <2> QED
    BY <2>1 DEF StageInv, KillInv
<1>4. CASE Kill
  BY <1>4, <1>c DEF TypeOK, ProcInv, KillInv, Kill, Victims
<1>5. CASE Reap
  BY <1>5 DEF KillInv, Reap, world
<1>6. CASE Program
  <2>0. UNCHANGED call
    BY <1>6, ProgramLeaves
  <2>1. ASSUME pc \in {"reap", "done"}, truncated \/ timedOut,
               NEW p \in group' \cup {Bash}
        PROVE  proc'[p] \in {"dies", "dead"}
    <3>1. p \in group \cup {Bash} \/ \E q, r \in Procs : Fork(q, r) /\ q \in group
      BY <1>6 DEF Program, Fork, Write, Redirect, Leave, Exit, Stall, Resume
    <3>2. \A q, r \in Procs : Fork(q, r) => q \notin group
      BY <2>1 DEF KillInv, Fork
    <3>3. p \in Procs /\ proc[p] \in {"dies", "dead"}
      BY <2>1, <3>1, <3>2, <1>c DEF KillInv, TypeOK
    <3> QED
      BY <1>6, <3>3 DEF TypeOK, Program, Fork, Write, Redirect, Leave, Exit, Stall, Resume
  <2> QED
    BY <2>0, <2>1 DEF KillInv, call
<1>7. CASE UNCHANGED vars
  BY <1>7 DEF vars, KillInv, call, world
<1> QED
  BY <1>1, <1>2, <1>3, <1>4, <1>5, <1>6, <1>7 DEF Next, Call

-----------------------------------------------------------------------------
(* The theorems. *)

\* The invariant holds before the call.
LEMMA InitInv == Init => IInv
<1> SUFFICES ASSUME Init PROVE IInv
  OBVIOUS
<1>c. /\ Limit \in Nat /\ Limit # 0 /\ Timeout \in Nat /\ ReapTimeout \in Nat
      /\ Bash \in Procs
  BY ConstantsOK DEF Procs
<1>1. TypeOK
  BY InitType
<1>2. ProcInv
  BY <1>c DEF Init, ProcInv, BashGone
<1>3. BufInv
  <2>1. ASSUME NEW s \in Streams
        PROVE  buf[s] = <<>> /\ Len(buf[s]) = 0 /\ buf[s] = SubSeq(written[s], 1, Least(taken[s], Limit))
    <3>1. Least(taken[s], Limit) = 0
      BY <1>c DEF Init, Least
    <3>2. SubSeq(written[s], 1, 0) = <<>>
      BY SubSeqEmpty
    <3> QED
      BY <3>1, <3>2, EmptySeq DEF Init
  <2> QED
    BY <2>1, <1>c DEF Init, BufInv, CaptureIsPrefix
<1>4. EofInv
  BY EmptySeq DEF Init, EofInv, AtEof, Waiting
<1>5. StageInv
  BY DEF Init, StageInv
<1>6. ClockInv
  BY <1>c DEF Init, ClockInv, InTime
<1>7. KillInv
  BY DEF Init, KillInv
<1> QED
  BY <1>1, <1>2, <1>3, <1>4, <1>5, <1>6, <1>7 DEF IInv

\* Every step keeps the types.
LEMMA StepType ==
  ASSUME TypeOK, ProcInv, BufInv, StageInv, [Next]_vars
  PROVE  TypeOK'
<1>1. CASE UNCHANGED vars
  BY <1>1 DEF vars, call, world, TypeOK
<1> QED
  BY <1>1, CallType, ProgramType DEF Next

\* The invariant of the specification.
LEMMA InvHolds == Spec => []IInv
<1>1. IInv /\ [Next]_vars => IInv'
  BY StepType, StepProc, StepBuf, StepEof, StepStage, StepClock, StepKill DEF IInv
<1> QED
  BY InitInv, <1>1, PTL DEF Spec

\* Every variable keeps its type; among them, the answer has an exit code once it is made.
THEOREM TypeCorrect == Spec => []TypeOK
<1>1. IInv => TypeOK
  BY DEF IInv
<1> QED
  BY InvHolds, <1>1, PTL

\* Each buffer is what the program wrote to the stream, from the beginning, up to the cap.
THEOREM CapturesPrefix == Spec => []CaptureIsPrefix
<1>1. IInv => CaptureIsPrefix
  BY DEF IInv, BufInv
<1> QED
  BY InvHolds, <1>1, PTL

\* The flags tell truncation from timeout, and an answer with neither is complete.
THEOREM FlagsTellTruth == Spec => []FlagsAreTrue
<1>1. ASSUME IInv PROVE FlagsAreTrue
  <2>1. truncated = \E s \in Streams : Len(buf[s]) = Limit
    BY <1>1 DEF IInv, BufInv
  <2>2. ~(truncated /\ timedOut)
    BY <1>1 DEF IInv, StageInv
  <2>3. ASSUME pc = "done", ~truncated, ~timedOut, ~failed, NEW s \in Streams
        PROVE  buf[s] = written[s] /\ AtEof(s)
    <3>1. AtEof(s)
      BY <1>1, <2>3 DEF IInv, StageInv, EofInv
    <3>2. /\ written[s] \in Seq(Bytes) /\ taken[s] \in Nat /\ taken[s] <= Len(written[s])
          /\ Limit \in Nat /\ Len(written[s]) \in Nat
      BY <1>1, ConstantsOK, LenProperties DEF IInv, TypeOK
    <3>3. taken[s] = Len(written[s])
      BY <3>1, <3>2 DEF AtEof, Waiting
    <3>4. buf[s] = SubSeq(written[s], 1, Least(taken[s], Limit))
      BY <1>1 DEF IInv, BufInv, CaptureIsPrefix
    <3>5. Len(buf[s]) # Limit
      BY <1>1, <2>1, <2>3
    <3>6. Least(taken[s], Limit) = taken[s]
      BY <3>2, <3>4, <3>5, CaptureLength, LeastIs
    <3>7. SubSeq(written[s], 1, Len(written[s])) = written[s]
      BY <3>2, SubSeqFull
    <3> QED
      BY <3>1, <3>3, <3>4, <3>6, <3>7
  <2> QED
    BY <2>1, <2>2, <2>3 DEF FlagsAreTrue
<1> QED
  BY InvHolds, <1>1, PTL

\* Nothing of the group runs once the call has killed, and bash does not outlive a call
\* that began to capture.
THEOREM NothingIsLeft == Spec => []NothingLeftBehind
<1>1. IInv => NothingLeftBehind
  BY DEF IInv, StageInv, KillInv, BashGone, NothingLeftBehind
<1> QED
  BY InvHolds, <1>1, PTL

\* SIGKILL is never sent to a pid that has been given back.
THEOREM KillsOnlyItsOwn == Spec => NeverKillsReapedPid
<1> DEFINE A == pc = "kill" => ~reaped
<1>1. IInv => A
  BY DEF IInv, StageInv
<1>2. Spec => [][A]_vars
  BY InvHolds, <1>1, PTL DEF Spec
<1> QED
  BY <1>2 DEF NeverKillsReapedPid

\* The call never lasts longer than its timeout and the time to reap.
THEOREM CallInTime == Spec => []InTime
<1>1. IInv => InTime
  BY DEF IInv, ClockInv
<1> QED
  BY InvHolds, <1>1, PTL

\* Bash's exit code is final once bash is gone.
LEMMA CodeStays ==
  ASSUME TypeOK, Program, BashGone
  PROVE  code' = code
<1>1. ASSUME NEW p \in Procs, Exit(p) \/ Resume(p) PROVE code' = code
  BY <1>1 DEF BashGone, Exit, Resume
<1>2. ASSUME NEW p \in Procs,
             \/ (\E q \in Procs : Fork(p, q)) \/ (\E s \in Streams : Redirect(p, s))
             \/ (\E s \in Streams, w \in Bytes : Write(p, s, w)) \/ Leave(p) \/ Stall(p)
      PROVE  code' = code
  BY <1>2 DEF Fork, Redirect, Write, Leave, Stall
<1> QED
  BY <1>1, <1>2, WritesBytes DEF Program

\* The exit code that the call reports stays bash's.
LEMMA StepExit ==
  ASSUME TypeOK, StageInv, ExitCodeIsBashs, [Next]_vars
  PROVE  ExitCodeIsBashs'
<1>1. CASE Start
  BY <1>1 DEF ExitCodeIsBashs, StageInv, Start
<1>2. CASE Select \/ (\E s \in Streams : Read(s)) \/ Wait \/ Kill
  BY <1>2 DEF ExitCodeIsBashs, Select, Read, Wait, WaitThen, Kill
<1>3. CASE Reap
  <2>1. /\ exit' = ExitCode /\ (reaped' <=> reaped \/ BashGone)
        /\ UNCHANGED <<timedOut, code>>
    BY <1>3 DEF Reap, world, BashGone
  <2>2. reaped' <=> BashGone
    BY <2>1 DEF StageInv
  <2>3. CASE BashGone /\ ~timedOut
    BY <2>1, <2>2, <2>3 DEF ExitCode, ExitCodeIsBashs
  <2>4. CASE ~(BashGone /\ ~timedOut)
    BY <2>1, <2>2, <2>4 DEF ExitCode, ExitCodeIsBashs
  <2> QED
    BY <2>3, <2>4
<1>4. CASE Tick \/ UNCHANGED vars
  BY <1>4 DEF Tick, vars, call, world, ExitCodeIsBashs
<1>5. CASE Program
  <2>1. UNCHANGED call
    BY <1>5, ProgramLeaves
  <2>2. reaped => code' = code
    BY <1>5, CodeStays DEF StageInv
  <2> QED
    BY <2>1, <2>2 DEF call, ExitCodeIsBashs
<1> QED
  BY <1>1, <1>2, <1>3, <1>4, <1>5 DEF Next, Call

\* The exit code of the answer is bash's, and unknown exactly if the call timed out or bash
\* could not be reaped.
THEOREM ExitCodeTrue == Spec => []ExitCodeIsBashs
<1>1. Init => ExitCodeIsBashs
  BY DEF Init, ExitCodeIsBashs
<1>2. IInv /\ ExitCodeIsBashs /\ [Next]_vars => ExitCodeIsBashs'
  BY StepExit DEF IInv
<1> QED
  BY InvHolds, <1>1, <1>2, PTL DEF Spec

-----------------------------------------------------------------------------
(* The decoder. *)

\* A decoded character is one to four bytes long.
Characters == 1..4

\* The states of the decoder: of a sequence under way it has all but the last byte at most.
Decoder ==
  {d \in [text : Seq(Characters), need : Nat, have : Nat] :
     d.have > 0 => d.need \in 2..4 /\ d.have < d.need}
Fresh == [text |-> <<>>, need |-> 0, have |-> 0]
FeedByte == [p \in Decoder \X Bytes |-> Feed(p[1], p[2])]
AddLength == [p \in Nat \X Characters |-> p[1] + p[2]]

\* The iterations that the two folds are.
Decodes(it, s) ==
  it = [T \in SUBSET DOMAIN s |-> IF T = {} THEN Fresh ELSE Feed(it[T \ {Max(T)}], s[Max(T)])]
Measured(it, t) ==
  it = [T \in SUBSET DOMAIN t |-> IF T = {} THEN 0 ELSE it[T \ {Max(T)}] + t[Max(T)]]

\* The sum's step is a function.
LEMMA AddLengthSteps ==
  /\ Steps(AddLength, 0, Nat, Characters)
  /\ \A n \in Nat, w \in Characters : AddLength[<<n, w>>] = n + w
BY DEF Steps, AddLength, Characters

\* The length of a text is a fold whose step is a function.
LEMMA LengthIsFold == \A t \in Seq(Characters) : EncodedLength(t) = LeftFold(AddLength, 0, t)
<1>0. Steps(AddLength, 0, Nat, Characters)
  BY AddLengthSteps
<1>1. \A n \in Nat, w \in Characters : AddLength[<<n, w>>] = n + w
  BY AddLengthSteps
<1> SUFFICES ASSUME NEW t \in Seq(Characters) PROVE EncodedLength(t) = LeftFold(AddLength, 0, t)
  OBVIOUS
<1> DEFINE S == DOMAIN t
           F == CHOOSE it : Measured(it, t)
<1>2. \A T \in SUBSET S : T # {} => Max(T) \in S /\ t[Max(T)] \in Characters
  BY LenProperties, MaxIsGreatest
<1>3. PICK it \in [SUBSET S -> Nat] : Follows(it, AddLength, 0, t)
  BY <1>0, LeftFoldExists
<1>4. ASSUME NEW T \in SUBSET S
      PROVE  it[T] = IF T = {} THEN 0 ELSE it[T \ {Max(T)}] + t[Max(T)]
  <2>1. it[T] = IF T = {} THEN 0 ELSE AddLength[<<it[T \ {Max(T)}], t[Max(T)]>>]
    BY <1>3 DEF Follows
  <2> QED
    BY <2>1, <1>1, <1>2, <1>3
<1>5. Measured(it, t)
  BY <1>4 DEF Measured
<1>6. Measured(F, t)
  BY <1>5
<1>7. EncodedLength(t) = F[S]
  BY DEF EncodedLength, FoldLeft, MapThenFoldSet, Measured
<1> HIDE DEF F
<1>8. FollowsOn(F, Nat, AddLength, 0, t)
  <2>1. ASSUME NEW T \in SUBSET S, T # {}, F[T \ {Max(T)}] \in Nat
        PROVE  F[T] = AddLength[<<F[T \ {Max(T)}], t[Max(T)]>>]
    <3>1. F[T] = F[T \ {Max(T)}] + t[Max(T)]
      BY <1>6, <2>1 DEF Measured
    <3> QED
      BY <3>1, <1>1, <1>2, <2>1
  <2>2. F[{}] = 0
    BY <1>6 DEF Measured
  <2> QED
    BY <2>1, <2>2 DEF FollowsOn
<1> QED
  BY <1>0, <1>7, <1>8, LeftFoldUnique

\* No text has no bytes, and each further character adds its own.
LEMMA LengthSteps ==
  /\ EncodedLength(<<>>) = 0
  /\ \A t \in Seq(Characters) : EncodedLength(t) \in Nat
  /\ \A t \in Seq(Characters), w \in Characters :
       Append(t, w) \in Seq(Characters) /\ EncodedLength(Append(t, w)) = EncodedLength(t) + w
<1>0. Steps(AddLength, 0, Nat, Characters)
  BY AddLengthSteps
<1>1. \A n \in Nat, w \in Characters : AddLength[<<n, w>>] = n + w
  BY AddLengthSteps
<1>2. LeftFold(AddLength, 0, <<>>) = 0
  BY <1>0, LeftFoldSteps
<1>3. ASSUME NEW t \in Seq(Characters) PROVE LeftFold(AddLength, 0, t) \in Nat
  BY <1>0, LeftFoldSteps
<1>4. ASSUME NEW t \in Seq(Characters), NEW w \in Characters
      PROVE  Append(t, w) \in Seq(Characters) /\ EncodedLength(Append(t, w)) = EncodedLength(t) + w
  <2>1. LeftFold(AddLength, 0, Append(t, w)) = AddLength[<<LeftFold(AddLength, 0, t), w>>]
    BY <1>0, LeftFoldSteps
  <2>2. Append(t, w) \in Seq(Characters)
    OBVIOUS
  <2> QED
    BY <1>1, <1>3, <2>1, <2>2, LengthIsFold
<1>5. EncodedLength(<<>>) = 0
  BY <1>2, EmptySeq, LengthIsFold
<1> QED
  BY <1>3, <1>4, <1>5, LengthIsFold

\* One byte keeps a decoder a decoder, and what it holds, as text or as the beginning of a
\* character, grows by a byte at least: a sequence given up has three bytes at most.
LEMMA FeedGrows ==
  ASSUME NEW d \in Decoder, NEW b \in Bytes
  PROVE  /\ Feed(d, b) \in Decoder
         /\ EncodedLength(Feed(d, b).text) + Feed(d, b).have >= EncodedLength(d.text) + d.have + 1
<1>1. /\ d.text \in Seq(Characters) /\ d.need \in Nat /\ d.have \in Nat
      /\ d.have > 0 => d.need \in 2..4 /\ d.have < d.need
  BY DEF Decoder
<1> DEFINE t == IF d.have > 0 /\ b # "cont" THEN Append(d.text, Replacement) ELSE d.text
<1>2. Replacement = 3 /\ Replacement \in Characters
  BY DEF Replacement, Characters
<1>3. EncodedLength(d.text) \in Nat
  BY <1>1, LengthSteps
<1>4. t \in Seq(Characters) /\ EncodedLength(t) \in Nat
  BY <1>1, <1>2, LengthSteps
<1>5. b # "cont" => EncodedLength(t) >= EncodedLength(d.text) + d.have
  <2>1. EncodedLength(Append(d.text, Replacement)) = EncodedLength(d.text) + 3
    BY <1>1, <1>2, LengthSteps
  <2> QED
    BY <1>1, <1>3, <2>1
<1>6. CASE b = "cont" /\ d.have > 0
  <2>1. t = d.text
    BY <1>6
  <2>0. b \notin DOMAIN Needs
    BY <1>6 DEF Needs
  <2> DEFINE more == [text |-> t, need |-> d.need, have |-> d.have + 1]
             whole == [text |-> Append(t, d.need), need |-> 0, have |-> 0]
  <2>f. Feed(d, b) = IF d.have + 1 < d.need THEN more ELSE whole
    <3> DEFINE lead == [text |-> t, need |-> Needs[b], have |-> 1]
               other == [text |-> Append(t, IF b = "ascii" THEN 1 ELSE Replacement), need |-> 0, have |-> 0]
    <3>1. Feed(d, b) = CASE b = "cont" /\ d.have > 0 -> IF d.have + 1 < d.need THEN more ELSE whole
                         [] b \in DOMAIN Needs -> lead
                         [] OTHER -> other
      BY DEF Feed
    <3> HIDE DEF more, whole, lead, other
    <3> QED
      BY <1>6, <2>0, <3>1
  <2>2. CASE d.have + 1 < d.need
    <3>1. Feed(d, b) = [text |-> t, need |-> d.need, have |-> d.have + 1]
      BY <2>f, <2>2
    <3> HIDE DEF t
    <3> QED
      BY <1>1, <1>3, <1>4, <1>6, <2>1, <2>2, <3>1 DEF Decoder
  <2>3. CASE ~(d.have + 1 < d.need)
    <3>1. Feed(d, b) = [text |-> Append(t, d.need), need |-> 0, have |-> 0]
      BY <2>f, <2>3
    <3>2. d.need = d.have + 1 /\ d.need \in Characters
      BY <1>1, <1>6, <2>3 DEF Characters
    <3> HIDE DEF t
    <3>3. Append(t, d.need) \in Seq(Characters)
          /\ EncodedLength(Append(t, d.need)) = EncodedLength(t) + d.need
      BY <1>4, <3>2, LengthSteps
    <3> QED
      BY <1>1, <1>3, <2>1, <3>1, <3>2, <3>3 DEF Decoder
  <2> QED
    BY <2>2, <2>3
<1>7. CASE b \in DOMAIN Needs
  <2>1. Feed(d, b) = [text |-> t, need |-> Needs[b], have |-> 1] /\ b # "cont"
    BY <1>7 DEF Feed, Needs
  <2>2. Needs[b] \in 2..4
    BY <1>7 DEF Needs
  <2> HIDE DEF t
  <2> QED
    BY <1>1, <1>3, <1>4, <1>5, <2>1, <2>2 DEF Decoder
<1>8. CASE ~(b = "cont" /\ d.have > 0) /\ b \notin DOMAIN Needs
  <2> DEFINE w == IF b = "ascii" THEN 1 ELSE Replacement
  <2>1. Feed(d, b) = [text |-> Append(t, w), need |-> 0, have |-> 0]
    BY <1>8 DEF Feed
  <2>2. w \in Characters
    BY <1>2 DEF Characters
  <2>3. b = "cont" => t = d.text /\ d.have = 0
    BY <1>1, <1>8
  <2> HIDE DEF t, w
  <2>4. Append(t, w) \in Seq(Characters) /\ EncodedLength(Append(t, w)) = EncodedLength(t) + w
    BY <1>4, <2>2, LengthSteps
  <2>5. EncodedLength(t) >= EncodedLength(d.text) + d.have
    BY <1>1, <1>3, <1>5, <2>3
  <2>6. w \in Nat /\ w >= 1
    BY <2>2 DEF Characters
  <2> QED
    BY <1>1, <1>3, <1>4, <2>1, <2>4, <2>5, <2>6 DEF Decoder
<1> QED
  BY <1>6, <1>7, <1>8

\* The decoder's step is a function.
LEMMA FeedByteSteps ==
  /\ Steps(FeedByte, Fresh, Decoder, Bytes)
  /\ \A d \in Decoder, b \in Bytes : FeedByte[<<d, b>>] = Feed(d, b)
<1>1. Fresh \in Decoder
  BY EmptySeq DEF Fresh, Decoder
<1>2. \A d \in Decoder, b \in Bytes : Feed(d, b) \in Decoder
  BY FeedGrows
<1> QED
  BY <1>1, <1>2 DEF Steps, FeedByte

\* Decoding is a fold whose step is a function.
LEMMA DecodeIsFold == \A s \in Seq(Bytes) : FedAll(s) = LeftFold(FeedByte, Fresh, s)
<1> SUFFICES ASSUME NEW s \in Seq(Bytes) PROVE FedAll(s) = LeftFold(FeedByte, Fresh, s)
  OBVIOUS
<1>0. Steps(FeedByte, Fresh, Decoder, Bytes)
  BY FeedByteSteps
<1>1. \A d \in Decoder, b \in Bytes : FeedByte[<<d, b>>] = Feed(d, b)
  BY FeedByteSteps
<1> DEFINE S == DOMAIN s
           F == CHOOSE it : Decodes(it, s)
<1>2. \A T \in SUBSET S : T # {} => Max(T) \in S /\ s[Max(T)] \in Bytes
  BY LenProperties, MaxIsGreatest
<1>3. PICK it \in [SUBSET S -> Decoder] : Follows(it, FeedByte, Fresh, s)
  BY <1>0, LeftFoldExists
<1>4. ASSUME NEW T \in SUBSET S
      PROVE  it[T] = IF T = {} THEN Fresh ELSE Feed(it[T \ {Max(T)}], s[Max(T)])
  <2>1. it[T] = IF T = {} THEN Fresh ELSE FeedByte[<<it[T \ {Max(T)}], s[Max(T)]>>]
    BY <1>3 DEF Follows
  <2> QED
    BY <2>1, <1>1, <1>2, <1>3
<1>5. Decodes(it, s)
  BY <1>4 DEF Decodes
<1>6. Decodes(F, s)
  BY <1>5
<1>7. FedAll(s) = F[S]
  BY DEF FedAll, FoldLeft, MapThenFoldSet, Decodes, Fresh
<1> HIDE DEF F
<1>8. FollowsOn(F, Decoder, FeedByte, Fresh, s)
  <2>1. ASSUME NEW T \in SUBSET S, T # {}, F[T \ {Max(T)}] \in Decoder
        PROVE  F[T] = FeedByte[<<F[T \ {Max(T)}], s[Max(T)]>>]
    <3>1. F[T] = Feed(F[T \ {Max(T)}], s[Max(T)])
      BY <1>6, <2>1 DEF Decodes
    <3> QED
      BY <3>1, <1>1, <1>2, <2>1
  <2>2. F[{}] = Fresh
    BY <1>6 DEF Decodes
  <2> QED
    BY <2>1, <2>2 DEF FollowsOn
<1> QED
  BY <1>0, <1>7, <1>8, LeftFoldUnique

\* The bytes fed to the decoder are not more than it holds.
LEMMA HoldsAll ==
  ASSUME NEW s \in Seq(Bytes)
  PROVE  FedAll(s) \in Decoder /\ EncodedLength(FedAll(s).text) + FedAll(s).have >= Len(s)
<1> DEFINE Holds(x) == /\ FedAll(x) \in Decoder
                       /\ EncodedLength(FedAll(x).text) + FedAll(x).have >= Len(x)
           D == {x \in Seq(Bytes) : Holds(x)}
<1>0. Steps(FeedByte, Fresh, Decoder, Bytes)
  BY FeedByteSteps
<1>1. <<>> \in D
  <2>1. <<>> \in Seq(Bytes) /\ Len(<<>>) = 0
    BY EmptySeq
  <2>2. FedAll(<<>>) = Fresh
    <3>1. LeftFold(FeedByte, Fresh, <<>>) = Fresh
      BY <1>0, LeftFoldSteps
    <3> QED
      BY <2>1, <3>1, DecodeIsFold
  <2>3. Fresh \in Decoder /\ Fresh.text = <<>> /\ Fresh.have = 0
    BY <1>0 DEF Steps, Fresh
  <2> QED
    BY <2>1, <2>2, <2>3, LengthSteps
<1>2. ASSUME NEW x \in Seq(Bytes), x \in D, NEW b \in Bytes PROVE Append(x, b) \in D
  <2>1. Append(x, b) \in Seq(Bytes) /\ Len(Append(x, b)) = Len(x) + 1 /\ Len(x) \in Nat
    OBVIOUS
  <2>2. FedAll(x) \in Decoder /\ EncodedLength(FedAll(x).text) + FedAll(x).have >= Len(x)
    BY <1>2
  <2>3. FedAll(Append(x, b)) = Feed(FedAll(x), b)
    <3>1. LeftFold(FeedByte, Fresh, Append(x, b)) = FeedByte[<<LeftFold(FeedByte, Fresh, x), b>>]
      BY <1>0, LeftFoldSteps
    <3>2. /\ FedAll(x) = LeftFold(FeedByte, Fresh, x)
          /\ FedAll(Append(x, b)) = LeftFold(FeedByte, Fresh, Append(x, b))
      BY <2>1, DecodeIsFold
    <3> QED
      BY <2>2, <3>1, <3>2, FeedByteSteps
  <2>4. /\ Feed(FedAll(x), b) \in Decoder
        /\ EncodedLength(Feed(FedAll(x), b).text) + Feed(FedAll(x), b).have
             >= EncodedLength(FedAll(x).text) + FedAll(x).have + 1
    BY <2>2, FeedGrows
  <2>5. \A d \in Decoder : EncodedLength(d.text) \in Nat /\ d.have \in Nat
    BY LengthSteps DEF Decoder
  <2> QED
    BY <2>1, <2>2, <2>3, <2>4, <2>5
<1>3. Seq(Bytes) \subseteq D
  <2> HIDE DEF D
  <2> QED
    BY <1>1, <1>2, AllSequences
<1> QED
  BY <1>3

\* Decoded, a stream is at least as long in UTF-8 as it was in bytes: a whole character has
\* the bytes it had, and what is not one, cut by the cap or broken, has three bytes at most
\* and comes out as the three of U+FFFD.
LEMMA DecodedIsLong == \A b \in Seq(Bytes) : EncodedLength(Decoded(b)) >= Len(b)
<1> SUFFICES ASSUME NEW b \in Seq(Bytes) PROVE EncodedLength(Decoded(b)) >= Len(b)
  OBVIOUS
<1> DEFINE d == FedAll(b)
<1>1. d \in Decoder /\ EncodedLength(d.text) + d.have >= Len(b) /\ Len(b) \in Nat
  BY HoldsAll, LenProperties
<1>2. Decoded(b) = IF d.have > 0 THEN Append(d.text, Replacement) ELSE d.text
  BY DEF Decoded
<1> HIDE DEF d
<1>3. d.text \in Seq(Characters) /\ d.have \in 0..3
  BY <1>1 DEF Decoder
<1>4. /\ EncodedLength(d.text) \in Nat
      /\ EncodedLength(Append(d.text, Replacement)) = EncodedLength(d.text) + 3
  BY <1>3, LengthSteps DEF Replacement, Characters
<1> QED
  BY <1>1, <1>2, <1>3, <1>4

-----------------------------------------------------------------------------
(* What is marked. *)

\* What Reap marks.
LEMMA StepMarked ==
  ASSUME TypeOK, StageInv, CutStreamsMarked, [Next]_vars
  PROVE  CutStreamsMarked'
<1>1. CASE Reap
  <2>1. marked' = Marks /\ UNCHANGED <<buf, truncated>>
    BY <1>1 DEF Reap
  <2>2. ASSUME truncated, NEW s \in Streams, Len(buf[s]) = Limit PROVE s \in Marks
    <3>1. buf[s] \in Seq(Bytes)
      BY DEF TypeOK
    <3>2. EncodedLength(Decoded(buf[s])) >= Limit
      BY <2>2, <3>1, DecodedIsLong
    <3> QED
      BY <2>2, <3>2 DEF Marks
  <2> QED
    BY <2>1, <2>2 DEF CutStreamsMarked
<1>2. CASE Start
  BY <1>2 DEF Start, StageInv, CutStreamsMarked
<1>3. CASE Select \/ (\E s \in Streams : Read(s)) \/ Wait \/ Kill
  BY <1>3 DEF CutStreamsMarked, Select, Read, Wait, WaitThen, Kill
<1>4. CASE Tick \/ UNCHANGED vars
  BY <1>4 DEF Tick, vars, call, world, CutStreamsMarked
<1>5. CASE Program
  <2>1. UNCHANGED call
    BY <1>5, ProgramLeaves
  <2> QED
    BY <2>1 DEF call, CutStreamsMarked
<1> QED
  BY <1>1, <1>2, <1>3, <1>4, <1>5 DEF Next, Call

\* Every stream that reached the cap carries the marker, whatever bytes it holds.
THEOREM CutIsMarked == Spec => []CutStreamsMarked
<1>1. Init => CutStreamsMarked
  BY DEF Init, CutStreamsMarked
<1>2. IInv /\ CutStreamsMarked /\ [Next]_vars => CutStreamsMarked'
  BY StepMarked DEF IInv
<1> QED
  BY InvHolds, <1>1, <1>2, PTL DEF Spec

=============================================================================
