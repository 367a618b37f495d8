-------------------------- MODULE TelemetryProofs ---------------------------
(* What holds of Telemetry for every value of its constants: any number of    *)
(* calls, loops, connections, executor threads and drops.                     *)
EXTENDS Telemetry, SequenceTheorems, FiniteSetTheorems, TLAPS

\* What the loop can be given to do.
Jobs ==
  [do : {"record"}, rec : Records, conn : {None}]
    \cup [do : {"drain", "stop"}, rec : {None}, conn : {None}]
    \cup [do : {"close"}, rec : {None}, conn : Conns]

QueueType == queue \in [Loops -> Seq(Jobs)]

\* How far shutdown() has come.
BeforeClose == {"serves", "draining", "drained"}
BeforeStop == BeforeClose \cup {"closing", "closed"}

\* A thread in _emit is on its way to a sink that is configured, and has given the loop
\* nothing yet for that sink or a later one; only the holder of the lock makes a loop.
ThreadInv ==
  /\ \A c \in Calls : tpc[c] = "make" <=> lock = c
  /\ \A c \in Calls : tpc[c] = "make" => loop = None
  /\ \A c \in Calls : sink[c] # None => sink[c] \in config
  /\ \A c \in Calls : tpc[c] \in {"lock", "make", "post"} => sink[c] # None
  /\ \A c \in Calls : tpc[c] = "post" => mine[c] # None /\ state[mine[c]] # "unmade"
  /\ \A c \in Calls, s \in Sinks :
       tpc[c] = "runs" \/ sink[c] = s \/ (sink[c] = "influx" /\ s = "nats") =>
         rec[<<c, s>>] = "none"

\* The only loop that runs is the current one, which stays until it is forgotten, but for
\* loops that stalled and were told to stop; until then nothing else was ever scheduled on.
LoopInv ==
  /\ \A l \in Loops : state[l] = "runs" => loop = l \/ (stalls /\ Posted(l, "stop"))
  /\ spc \in {"draining", "joining", "forgets"} => loop # None
  /\ loop # None => state[loop] # "unmade"
  /\ spc = "joining" /\ state[loop] = "runs" => Posted(loop, "stop")
  /\ spc = "forgets" /\ state[loop] = "runs" => stalls /\ Posted(loop, "stop")
  /\ spc \in BeforeStop =>
       /\ \A l \in Loops : state[l] \in {"unmade", "runs"}
       /\ \A c \in Calls : tpc[c] = "post" => mine[c] = loop
       /\ \A r \in Records : on[r] # None => on[r] = loop
       /\ \A l \in Loops : \A i \in 1..Len(queue[l]) : queue[l][i].do # "stop"

\* A record waits for the loop if and only if it is posted, and waits once.
JobInv ==
  /\ \A l \in Loops : \A i \in 1..Len(queue[l]) :
       queue[l][i].do = "record" =>
         /\ rec[queue[l][i].rec] = "posted" /\ on[queue[l][i].rec] = l
         /\ \A j \in 1..Len(queue[l]) : queue[l][j] = queue[l][i] => i = j
  /\ \A r \in Records : rec[r] = "posted" =>
       on[r] # None /\ \E i \in 1..Len(queue[on[r]]) : queue[on[r]][i] = Do("record", r, None)
  /\ \A r \in Records : rec[r] \in OnLoop => on[r] # None

\* Who is at a sink, and when the sinks are there.
SinkInv ==
  /\ \A r \in Records : rec[r] = "connecting" <=> natsLock = r
  /\ \A r \in Records : rec[r] \in {"handed", "writing"} => r \in Influx
  /\ \A r \in Records : rec[r] # "none" => r[2] \in config
  /\ spc \in BeforeClose \cup {"closing"} => ("influx" \in config <=> client = "open")
  /\ spc \in {"serves", "draining"} => \A r \in Records : rec[r] # "void"

\* The early records are ahead of the drain in the loop's queue; once the drain has looked,
\* it waits for those that are not over.
EarlyInv ==
  /\ spc = "serves" =>
       /\ early = {} /\ pending = None
       /\ \A l \in Loops : \A i \in 1..Len(queue[l]) : queue[l][i].do # "drain"
  /\ \A r \in early : rec[r] # "none"
  /\ spc = "draining" /\ pending = None =>
       \A r \in early, i \in 1..Len(queue[loop]) :
         rec[r] = "posted" /\ queue[loop][i].do = "drain" =>
           \E j \in 1..(i - 1) : queue[loop][j] = Do("record", r, None)
  /\ spc = "draining" /\ pending # None =>
       \A r \in early : rec[r] \in {"written", "failed"} \/ (r \in pending /\ rec[r] \in OnLoop)
  /\ EarlyRecordsReachSinks

Made == {k \in Conns : conn[k] # "unmade"}
Open == {k \in Conns : conn[k] \in {"up", "down"}}
Given == {k \in Conns : conn[k] \in {"draining", "left"}}
Dropped == Drops - drops

\* A connection is made only if there was none, or if the last one dropped since.
MadeInv ==
  /\ IsFiniteSet(Made)
  /\ natsConn # None => natsConn \in Made
  /\ spc \in BeforeStop /\ natsConn # None => loop # None
  /\ spc \in BeforeClose =>
       /\ \A l \in Loops : \A i \in 1..Len(queue[l]) : queue[l][i].do # "close"
       /\ natsConn = None => Made = {}
       /\ natsConn # None => Cardinality(Made) <= 1 + Dropped
       /\ natsConn # None /\ (conn[natsConn] # "up" \/ natsLock # None) => Cardinality(Made) <= Dropped

\* A connection is put to the drain once: no other was, or will be.
GivenInv ==
  /\ \A j, k \in Given : j = k
  /\ spc \in BeforeClose => Given = {}
  /\ \A l \in Loops : \A i \in 1..Len(queue[l]) : queue[l][i].do = "close" =>
       /\ Given = {}
       /\ \A k \in Loops : \A j \in 1..Len(queue[k]) : queue[k][j].do = "close" => k = l /\ j = i

\* The loop kept up, no record came after shutdown began, and the drain saw the others through.
Quiet == ~expired /\ ~stalls /\ {r \in Records : rec[r] # "none"} = early

\* What is open beyond the drops is up, and about to be put to the drain.
OpenInv ==
  /\ spc = "closing" /\ Quiet =>
       \/ Cardinality(Open) <= Dropped
       \/ /\ Cardinality(Open) <= 1 + Dropped
          /\ loop # None
          /\ \E i \in 1..Len(queue[loop]) :
               queue[loop][i].do = "close" /\ conn[queue[loop][i].conn] = "up"
  /\ spc \in {"closed", "joining", "forgets", "exits", "gone"} /\ Quiet =>
       Cardinality(Open) <= Dropped

Types == TypeOK /\ QueueType

-----------------------------------------------------------------------------
(* The loop's queue. *)

\* A job that is given to a loop comes last.
LEMMA GiveJob ==
  ASSUME QueueType, NEW l \in Loops, NEW b \in Jobs, Give(l, b)
  PROVE  /\ QueueType'
         /\ Len(queue[l]) \in Nat /\ Len(queue'[l]) = Len(queue[l]) + 1
         /\ \A i \in 1..Len(queue[l]) : queue'[l][i] = queue[l][i]
         /\ queue'[l][Len(queue[l]) + 1] = b
         /\ \A k \in Loops \ {l} : queue'[k] = queue[k]
<1>1. queue[l] \in Seq(Jobs)
  BY DEF QueueType
<1>2. queue'[l] = Append(queue[l], b) /\ \A k \in Loops \ {l} : queue'[k] = queue[k]
  BY DEF QueueType, Give
<1>3. /\ Append(queue[l], b) \in Seq(Jobs)
      /\ Len(Append(queue[l], b)) = Len(queue[l]) + 1
      /\ \A i \in 1..Len(queue[l]) : Append(queue[l], b)[i] = queue[l][i]
      /\ Append(queue[l], b)[Len(queue[l]) + 1] = b
  BY <1>1, AppendProperties
<1>4. QueueType'
  BY <1>3 DEF QueueType, Give
<1>5. Len(queue[l]) \in Nat
  BY <1>1, LenProperties
<1> QED
  BY <1>2, <1>3, <1>4, <1>5

\* A loop takes its first job, and the others move up.
LEMMA TakeJob ==
  ASSUME QueueType, NEW l \in Loops, queue[l] # <<>>, queue' = [queue EXCEPT ![l] = Tail(@)]
  PROVE  /\ QueueType'
         /\ Len(queue[l]) \in Nat /\ Len(queue[l]) >= 1 /\ Len(queue'[l]) = Len(queue[l]) - 1
         /\ \A i \in 1..Len(queue'[l]) : queue'[l][i] = queue[l][i + 1]
         /\ Head(queue[l]) \in Jobs /\ Head(queue[l]) = queue[l][1]
         /\ \A k \in Loops \ {l} : queue'[k] = queue[k]
<1>1. queue[l] \in Seq(Jobs)
  BY DEF QueueType
<1>2. queue'[l] = Tail(queue[l]) /\ \A k \in Loops \ {l} : queue'[k] = queue[k]
  BY DEF QueueType
<1>3. /\ Head(queue[l]) \in Jobs
      /\ Tail(queue[l]) \in Seq(Jobs)
      /\ Len(Tail(queue[l])) = Len(queue[l]) - 1
      /\ \A i \in 1..Len(Tail(queue[l])) : Tail(queue[l])[i] = queue[l][i + 1]
  BY <1>1, HeadTailProperties
<1>4. Len(queue[l]) \in Nat /\ Len(queue[l]) >= 1
  BY <1>1, EmptySeq, LenProperties
<1>5. QueueType'
  BY <1>3 DEF QueueType
<1>6. Head(queue[l]) = queue[l][1]
  BY <1>1
<1> QED
  BY <1>2, <1>3, <1>4, <1>5, <1>6

\* The kinds of jobs.
LEMMA JobKinds ==
  ASSUME NEW b \in Jobs
  PROVE  /\ b.do \in {"record", "drain", "stop", "close"}
         /\ b.do = "record" => b.rec \in Records /\ b = Do("record", b.rec, None)
         /\ b.do = "close" => b.conn \in Conns
BY DEF Jobs, Do

\* The jobs that the steps give.
LEMMA JobsMade ==
  /\ \A r \in Records : Do("record", r, None) \in Jobs /\ Do("record", r, None).rec = r
  /\ \A k \in Conns : Do("close", None, k) \in Jobs /\ Do("close", None, k).conn = k
  /\ Do("drain", None, None) \in Jobs /\ Do("stop", None, None) \in Jobs
  /\ \A w, r, k : Do(w, r, k).do = w
BY DEF Jobs, Do

-----------------------------------------------------------------------------
(* What the steps leave alone. *)

\* A step of a thread but the last two leaves the loop alone.
LEMMA ThreadLeaves ==
  ASSUME NEW c \in Calls, Thread(c)
  PROVE  /\ UNCHANGED <<config, stalls, sinkState, main>>
         /\ ~Post(c) => UNCHANGED <<queue, tasks>>
         /\ ~Make(c) => UNCHANGED <<loop, state>>
BY DEF Thread, Finish, Emit, Lock, Make, Post

\* The steps of tasks, of the executor and of the network.
LEMMA TaskLeaves ==
  ASSUME (\E r \in Records : TaskStep(r) \/ TakeUp(r)) \/ World
  PROVE  UNCHANGED <<threads, loop, state, queue, on, client, main>>
<1>1. ASSUME NEW r \in Records, TaskStep(r) \/ TakeUp(r)
      PROVE  UNCHANGED <<threads, loop, state, queue, on, client, main>>
  BY <1>1 DEF TaskStep, HandOver, Publish, Connect, TakeUp, sinkState
<1>2. ASSUME NEW r \in Records, WriteEnds(r) \/ ConnectEnds(r)
      PROVE  UNCHANGED <<threads, loop, state, queue, on, client, main>>
  BY <1>2 DEF WriteEnds, ConnectEnds, sinkState
<1>3. ASSUME NEW k \in Conns, Drop(k) \/ Reconnect(k) \/ Drained(k)
      PROVE  UNCHANGED <<threads, loop, state, queue, on, client, main>>
  BY <1>3 DEF Drop, Reconnect, Drained, tasks
<1> QED
  BY <1>1, <1>2, <1>3 DEF World

\* The steps of shutdown().
LEMMA ShutdownLeaves ==
  ASSUME ShutdownStarts \/ Shutdown
  PROVE  UNCHANGED <<threads, tasks, natsLock, conn, drops, pending>>
BY DEF ShutdownStarts, Shutdown, DrainGivenUp, DrainConn, CloseClient, StopLoop, Join, Forget, ProcessExits, sinkState

\* The steps of the loop's own thread.
LEMMA LoopLeaves ==
  ASSUME NEW l \in Loops, LoopStep(l)
  PROVE  UNCHANGED <<threads, loop, on, client, natsConn, drops, early>>
BY DEF LoopStep, Callback, DrainEnds, DrainExpires, sinkState, tasks

\* There is a sink.
LEMMA ConfigIs ==
  ASSUME Types
  PROVE  config \subseteq Sinks /\ config # {}
<1>1. config \in (SUBSET Sinks) \ {{}}
  BY ConstantsOK DEF Types, TypeOK
<1> QED
  BY <1>1

\* The life of a record: what each step does to one.
LEMMA RecordMoves ==
  ASSUME Types, ThreadInv, JobInv, [Next]_vars, NEW r \in Records
  PROVE  \/ rec'[r] = rec[r]
         \/ /\ rec[r] = "none" /\ rec'[r] \in {"posted", "void"}
            /\ \E c \in Calls : Post(c) /\ r = <<c, sink[c]>>
         \/ rec[r] = "posted" /\ rec'[r] = "task" /\ \E l \in Loops : Callback(l)
         \/ rec[r] = "task" /\ rec'[r] = "handed" /\ HandOver(r)
         \/ rec[r] = "task" /\ rec'[r] \in {"written", "failed"} /\ Publish(r)
         \/ rec[r] = "task" /\ rec'[r] = "connecting" /\ Connect(r)
         \/ rec[r] = "connecting" /\ rec'[r] \in {"written", "failed"} /\ ConnectEnds(r)
         \/ rec[r] = "handed" /\ rec'[r] \in {"writing", "void"} /\ TakeUp(r)
         \/ rec[r] = "writing" /\ rec'[r] \in {"written", "failed"} /\ WriteEnds(r)
         \/ /\ rec[r] \in {"task", "handed", "connecting"} /\ rec'[r] = "void"
            /\ \E l \in Loops : DrainExpires(l) /\ r \in pending
<1>t. rec \in [Records -> RecordStates]
  BY DEF Types, TypeOK
<1>1. ASSUME NEW c \in Calls, Thread(c)
      PROVE  \/ rec'[r] = rec[r]
             \/ rec'[r] \in {"posted", "void"} /\ Post(c) /\ r = <<c, sink[c]>>
  <2>1. CASE Post(c)
    BY <1>t, <2>1 DEF Post, Set
  <2>2. CASE ~Post(c)
    BY <1>1, <2>2, ThreadLeaves DEF tasks
  <2> QED
    BY <2>1, <2>2
<1>p. ASSUME NEW c \in Calls, Thread(c), rec'[r] # rec[r] PROVE rec[r] = "none"
  <2>1. Post(c) /\ r = <<c, sink[c]>>
    BY <1>1, <1>p
  <2> QED
    BY <2>1 DEF Post, ThreadInv, Types, TypeOK
<1>2. ASSUME NEW l \in Loops, LoopStep(l)
      PROVE  \/ rec'[r] = rec[r]
             \/ rec[r] = "posted" /\ rec'[r] = "task" /\ Callback(l)
             \/ /\ rec[r] \in {"task", "handed", "connecting"} /\ rec'[r] = "void"
                /\ DrainExpires(l) /\ r \in pending
  <2>1. CASE Callback(l)
    <3>1. queue[l] # <<>> /\ queue' = [queue EXCEPT ![l] = Tail(@)]
      BY <2>1 DEF Callback
    <3>2. Head(queue[l]) = queue[l][1] /\ 1 \in 1..Len(queue[l])
      BY <3>1, TakeJob DEF Types
    <3>3. Head(queue[l]).do = "record" => rec[Head(queue[l]).rec] = "posted"
      BY <3>2 DEF JobInv
    <3>4. \/ rec' = rec
          \/ Head(queue[l]).do = "record" /\ rec' = [rec EXCEPT ![Head(queue[l]).rec] = "task"]
      BY <2>1 DEF Callback, Set
    <3> QED
      BY <1>t, <2>1, <3>3, <3>4
  <2>2. CASE DrainEnds(l)
    BY <2>2 DEF DrainEnds, tasks
  <2>3. CASE DrainExpires(l)
    <3>1. rec'[r] = IF r \in pending /\ rec[r] \in {"task", "handed", "connecting"} THEN "void" ELSE rec[r]
      BY <2>3 DEF DrainExpires
    <3> QED
      BY <2>3, <3>1
  <2> QED
    BY <1>2, <2>1, <2>2, <2>3 DEF LoopStep
<1>3. ASSUME NEW q \in Records, TaskStep(q) \/ TakeUp(q) \/ WriteEnds(q) \/ ConnectEnds(q)
      PROVE  \/ rec'[r] = rec[r]
             \/ rec[r] = "task" /\ rec'[r] = "handed" /\ HandOver(r)
             \/ rec[r] = "task" /\ rec'[r] \in {"written", "failed"} /\ Publish(r)
             \/ rec[r] = "task" /\ rec'[r] = "connecting" /\ Connect(r)
             \/ rec[r] = "connecting" /\ rec'[r] \in {"written", "failed"} /\ ConnectEnds(r)
             \/ rec[r] = "handed" /\ rec'[r] \in {"writing", "void"} /\ TakeUp(r)
             \/ rec[r] = "writing" /\ rec'[r] \in {"written", "failed"} /\ WriteEnds(r)
  <2>1. CASE q # r
    <3>1. \E v : rec' = [rec EXCEPT ![q] = v]
      BY <1>3 DEF TaskStep, HandOver, Publish, Connect, TakeUp, WriteEnds, ConnectEnds, Set
    <3> QED
      BY <1>t, <2>1, <3>1
  <2>2. CASE q = r
    <3>1. HandOver(r) => rec[r] = "task" /\ rec'[r] = "handed"
      BY <1>t DEF HandOver, Set
    <3>2. Publish(r) => rec[r] = "task" /\ rec'[r] \in {"written", "failed"}
      BY <1>t DEF Publish, Set
    <3>3. Connect(r) => rec[r] = "task" /\ rec'[r] = "connecting"
      BY <1>t DEF Connect, Set
    <3>4. ConnectEnds(r) => rec[r] = "connecting" /\ rec'[r] \in {"written", "failed"}
      BY <1>t DEF ConnectEnds, Set
    <3>5. TakeUp(r) => rec[r] = "handed" /\ rec'[r] \in {"writing", "void"}
      BY <1>t DEF TakeUp, Set
    <3>6. WriteEnds(r) => rec[r] = "writing" /\ rec'[r] \in {"written", "failed"}
      BY <1>t DEF WriteEnds, Set
    <3> QED
      BY <1>3, <2>2, <3>1, <3>2, <3>3, <3>4, <3>5, <3>6 DEF TaskStep
  <2> QED
    BY <2>1, <2>2
<1>4. CASE ShutdownStarts \/ Shutdown \/ UNCHANGED vars
  BY <1>4, ShutdownLeaves DEF vars, tasks
<1>5. ASSUME NEW k \in Conns, Drop(k) \/ Reconnect(k) \/ Drained(k) PROVE rec'[r] = rec[r]
  BY <1>5 DEF Drop, Reconnect, Drained, tasks
<1> QED
  BY <1>1, <1>p, <1>2, <1>3, <1>4, <1>5 DEF Next, World

\* A record that was not scheduled is scheduled by Post, and by nothing else.
LEMMA NoneStays ==
  ASSUME Types, ThreadInv, JobInv, [Next]_vars, NEW r \in Records, rec[r] = "none"
  PROVE  rec'[r] = "none" \/ \E c \in Calls : Post(c) /\ r = <<c, sink[c]>>
BY RecordMoves

-----------------------------------------------------------------------------
(* The parts of the invariant. *)

\* A loop that was made stays made.
LEMMA MadeStays ==
  ASSUME Types, [Next]_vars, NEW l \in Loops, state[l] # "unmade"
  PROVE  state'[l] # "unmade"
<1>1. ASSUME NEW c \in Calls, Thread(c) PROVE state'[l] # "unmade"
  <2>1. CASE Make(c)
    BY <2>1 DEF Make, Types, TypeOK
  <2> QED
    BY <1>1, <2>1, ThreadLeaves
<1>2. ASSUME NEW k \in Loops, LoopStep(k) PROVE state'[l] # "unmade"
  BY <1>2 DEF LoopStep, Callback, DrainEnds, DrainExpires, Types, TypeOK
<1>3. CASE ShutdownStarts \/ Shutdown
  BY <1>3 DEF ShutdownStarts, Shutdown, DrainGivenUp, DrainConn, CloseClient, StopLoop, Join, Forget, ProcessExits,
     Types, TypeOK
<1>4. CASE (\E r \in Records : TaskStep(r) \/ TakeUp(r)) \/ World \/ UNCHANGED vars
  BY <1>4, TaskLeaves DEF vars
<1> QED
  BY <1>1, <1>2, <1>3, <1>4 DEF Next

\* A thread schedules each of its records once, and only the lock's holder makes a loop.
LEMMA StepThread ==
  ASSUME Types, ThreadInv, LoopInv, JobInv, [Next]_vars
  PROVE  ThreadInv'
<1>c. None \notin Calls /\ None \notin Loops /\ None \notin Sinks
  BY ConstantsOK
<1>g. config \subseteq Sinks /\ config # {} /\ Sinks = {"influx", "nats"}
  BY ConfigIs DEF Sinks
<1> DEFINE Ahead(c, s) == tpc[c] = "runs" \/ sink[c] = s \/ (sink[c] = "influx" /\ s = "nats")
           Sound ==
             /\ \A c \in Calls : tpc[c] = "make" <=> lock = c
             /\ \A c \in Calls : tpc[c] = "make" => loop = None
             /\ \A c \in Calls : sink[c] # None => sink[c] \in config
             /\ \A c \in Calls : tpc[c] \in {"lock", "make", "post"} => sink[c] # None
             /\ \A c \in Calls : tpc[c] = "post" => mine[c] # None /\ state[mine[c]] # "unmade"
<1>s. Sound /\ \A c \in Calls, s \in Sinks : Ahead(c, s) => rec[<<c, s>>] = "none"
  BY DEF ThreadInv
<1>m. \A c \in Calls : mine[c] # None => mine[c] \in Loops
  BY DEF Types, TypeOK
<1>1. ASSUME NEW d \in Calls, Thread(d)
      PROVE  /\ Sound'
             /\ \A c \in Calls, s \in Sinks :
                  Ahead(c, s)' => Ahead(c, s) /\ ~(tpc[d] = "post" /\ c = d /\ s = sink[d])
  <2>0. config' = config
    BY <1>1, ThreadLeaves
  <2>t. /\ tpc \in [Calls -> {"runs", "emit", "lock", "make", "post", "done"}]
        /\ sink \in [Calls -> Sinks \cup {None}] /\ mine \in [Calls -> Loops \cup {None}]
    BY DEF Types, TypeOK
  <2>f. \A c \in Calls \ {d} : tpc'[c] = tpc[c] /\ sink'[c] = sink[c] /\ mine'[c] = mine[c]
    BY <1>1, <2>t DEF Thread, Finish, Emit, Lock, Make, Post, Goto
  <2>n. \A s \in Sinks : /\ NextSink(s) \in config \cup {None}
                          /\ (NextSink(s) # None => s = "influx" /\ NextSink(s) = "nats")
    BY <1>c, <1>g DEF NextSink
  <2>1. CASE Finish(d)
    <3>1. /\ tpc[d] = "runs" /\ tpc'[d] = "emit" /\ UNCHANGED <<lock, loop, state, mine>>
          /\ sink'[d] \in config
      BY <2>1, <2>t, <1>g DEF Finish, Goto
    <3> QED
      BY <2>0, <2>f, <3>1, <1>c, <1>g, <1>s
  <2>2. CASE Emit(d)
    <3>1. /\ tpc[d] = "emit" /\ tpc'[d] \in {"emit", "done", "lock"} /\ UNCHANGED <<lock, loop, state, mine>>
      BY <2>2, <2>t DEF Emit, Goto
    <3>2. tpc'[d] = "lock" => sink'[d] # None
      BY <2>2, <2>t DEF Emit, Goto
    <3>3. sink'[d] = sink[d] \/ (sink[d] = "influx" /\ sink'[d] = NextSink("influx"))
      BY <2>2, <2>t DEF Emit
    <3> QED
      BY <2>0, <2>f, <2>n, <3>1, <3>2, <3>3, <1>c, <1>g, <1>s
  <2>3. CASE Lock(d)
    <3>1. /\ tpc[d] = "lock" /\ lock = None /\ UNCHANGED <<loop, state, sink>> /\ mine'[d] = loop
          /\ IF loop # None THEN tpc'[d] = "post" /\ lock' = None ELSE tpc'[d] = "make" /\ lock' = d
      BY <2>3, <2>t DEF Lock, Goto
    <3>2. loop # None => state[loop] # "unmade"
      BY DEF LoopInv
    <3> QED
      BY <2>0, <2>f, <3>1, <3>2, <1>c, <1>s
  <2>4. CASE Make(d)
    <3>1. PICK l \in Loops : state' = [state EXCEPT ![l] = "runs"] /\ mine' = [mine EXCEPT ![d] = l]
      BY <2>4 DEF Make
    <3>2. \A k \in Loops : state[k] # "unmade" => state'[k] # "unmade"
      BY <3>1 DEF Types, TypeOK
    <3>3. state'[l] # "unmade" /\ mine'[d] = l /\ l # None
      BY <3>1, <2>t, <1>c DEF Types, TypeOK
    <3>4. tpc[d] = "make" /\ tpc'[d] = "post" /\ lock' = None /\ UNCHANGED sink
      BY <2>4, <2>t DEF Make, Goto
    <3> QED
      BY <2>0, <2>f, <3>2, <3>3, <3>4, <1>c, <1>m, <1>s
  <2>5. CASE Post(d)
    <3>1. /\ UNCHANGED <<lock, loop, mine, state>> /\ tpc[d] = "post" /\ tpc'[d] = "emit"
          /\ sink'[d] = NextSink(sink[d])
      BY <2>5, <2>t DEF Post, Goto
    <3>2. sink[d] \in Sinks
      BY <3>1, <2>t, <1>s
    <3> QED
      BY <2>0, <2>f, <2>n, <3>1, <3>2, <1>c, <1>g, <1>s
  <2> QED
    BY <1>1, <2>1, <2>2, <2>3, <2>4, <2>5 DEF Thread
<1>2. ASSUME UNCHANGED threads, loop' = loop \/ loop' = None
      PROVE  Sound'
  <2>1. UNCHANGED <<config, tpc, sink, mine, lock>>
    BY <1>2 DEF threads
  <2>2. \A c \in Calls : tpc[c] = "post" => mine[c] \in Loops /\ state'[mine[c]] # "unmade"
    BY <1>m, <1>s, MadeStays
  <2> QED
    BY <1>2, <2>1, <2>2, <1>s
<1>3. \/ \E d \in Calls : Thread(d)
      \/ UNCHANGED threads /\ (loop' = loop \/ loop' = None) /\ \A c \in Calls : ~Post(c)
  <2>1. UNCHANGED threads => \A c \in Calls : ~Post(c)
    BY <1>c DEF threads, Post, Goto, Types, TypeOK
  <2>2. CASE Next /\ ~\E d \in Calls : Thread(d)
    <3>1. CASE ShutdownStarts \/ Shutdown
      BY <3>1, <2>1, ShutdownLeaves DEF ShutdownStarts, Shutdown, DrainGivenUp, DrainConn, CloseClient, StopLoop, Join,
         Forget, ProcessExits
    <3> QED
      BY <2>1, <2>2, <3>1, TaskLeaves, LoopLeaves DEF Next
  <2> QED
    BY <2>1, <2>2 DEF vars, threads
<1>4. Sound' /\ \A c \in Calls, s \in Sinks : Ahead(c, s)' => rec'[<<c, s>>] = "none"
  <2>1. CASE \E d \in Calls : Thread(d)
    <3>1. PICK d \in Calls : Thread(d)
      BY <2>1
    <3>2. ASSUME NEW c \in Calls, NEW s \in Sinks, Ahead(c, s)' PROVE rec'[<<c, s>>] = "none"
      <4>1. /\ rec[<<c, s>>] = "none" /\ ~(tpc[d] = "post" /\ c = d /\ s = sink[d])
            /\ <<c, s>> \in Records
        BY <1>1, <1>s, <3>1, <3>2 DEF Records
      <4>2. \A e \in Calls : Post(e) => e = d /\ tpc[d] = "post"
        BY <3>1 DEF Thread, Finish, Emit, Lock, Make, Post, Goto, Types, TypeOK
      <4>3. rec'[<<c, s>>] = "none" \/ \E e \in Calls : Post(e) /\ <<c, s>> = <<e, sink[e]>>
        BY <4>1, NoneStays
      <4> QED
        BY <4>1, <4>2, <4>3
    <3> QED
      BY <1>1, <3>1, <3>2
  <2>2. CASE UNCHANGED threads /\ (loop' = loop \/ loop' = None) /\ \A c \in Calls : ~Post(c)
    <3>1. ASSUME NEW c \in Calls, NEW s \in Sinks, Ahead(c, s)' PROVE rec'[<<c, s>>] = "none"
      <4>1. rec[<<c, s>>] = "none" /\ <<c, s>> \in Records
        BY <1>s, <2>2, <3>1 DEF Records, threads
      <4> QED
        BY <4>1, <2>2, NoneStays
    <3> QED
      BY <1>2, <2>2, <3>1
  <2> QED
    BY <1>3, <2>1, <2>2
<1> QED
  BY <1>4 DEF ThreadInv

\* Every variable keeps its type.
LEMMA StepType ==
  ASSUME Types, ThreadInv, ThreadInv', JobInv, [Next]_vars
  PROVE  Types'
<1>c. None \notin Calls
  BY ConstantsOK
<1>l. lock' \in Calls \cup {None} => (lock' = None <=> \A c \in Calls : tpc'[c] # "make")
  BY <1>c DEF ThreadInv
<1>t. TypeOK /\ QueueType
  BY DEF Types
<1>1. ASSUME NEW c \in Calls, Thread(c) PROVE Types'
  <2>1. CASE Finish(c)
    <3>1. sink' \in [Calls -> Sinks \cup {None}]
      BY <1>t, <2>1 DEF Finish, TypeOK, Sinks
    <3> QED
      BY <1>l, <1>t, <2>1, <3>1 DEF Finish, Goto, TypeOK, QueueType, Types, tasks, sinkState, main
  <2>2. CASE Emit(c)
    <3>1. sink' \in [Calls -> Sinks \cup {None}]
      BY <1>t, <2>2 DEF Emit, NextSink, TypeOK, Sinks
    <3> QED
      BY <1>l, <1>t, <2>2, <3>1 DEF Emit, Goto, TypeOK, QueueType, Types, tasks, sinkState, main
  <2>3. CASE Lock(c)
    BY <1>l, <1>t, <2>3 DEF Lock, Goto, TypeOK, QueueType, Types, tasks, sinkState, main
  <2>4. CASE Make(c)
    BY <1>l, <1>t, <2>4 DEF Make, Goto, TypeOK, QueueType, Types, tasks, sinkState, main
  <2>5. CASE Post(c)
    <3>1. /\ tpc[c] = "post" /\ sink[c] \in Sinks /\ mine[c] \in Loops
          /\ <<c, sink[c]>> \in Records
      BY <1>t, <2>5 DEF Post, ThreadInv, TypeOK, Records
    <3>2. sink' \in [Calls -> Sinks \cup {None}]
      BY <1>t, <2>5 DEF Post, NextSink, TypeOK, Sinks
    <3>3. rec' \in [Records -> RecordStates] /\ on' \in [Records -> Loops \cup {None}]
      BY <1>t, <2>5, <3>1 DEF Post, Set, TypeOK, RecordStates
    <3>4. QueueType'
      <4>1. queue' = queue \/ Give(mine[c], Do("record", <<c, sink[c]>>, None))
        BY <2>5 DEF Post
      <4> QED
        BY <1>t, <3>1, <4>1, GiveJob, JobsMade DEF QueueType
    <3> QED
      BY <1>l, <1>t, <2>5, <3>2, <3>3, <3>4 DEF Post, Goto, TypeOK, Types, sinkState, main
  <2> QED
    BY <1>1, <2>1, <2>2, <2>3, <2>4, <2>5 DEF Thread
<1>2. ASSUME NEW l \in Loops, LoopStep(l) PROVE Types'
  <2>1. CASE Callback(l)
    <3>1. queue[l] # <<>> /\ queue' = [queue EXCEPT ![l] = Tail(@)]
      BY <2>1 DEF Callback
    <3>2. QueueType' /\ Head(queue[l]) \in Jobs
      BY <1>t, <3>1, TakeJob
    <3>3. PICK b \in Jobs : b = Head(queue[l])
      BY <3>2
    <3>4. b.do = "record" => b.rec \in Records
      BY JobKinds
    <3>5. /\ rec' = rec \/ (b.do = "record" /\ Set(b.rec, "task"))
          /\ pending' = pending \/ pending' = {r \in Records : on[r] = l /\ rec[r] \in OnLoop}
          /\ \/ conn' = conn
             \/ conn' = [conn EXCEPT ![b.conn] = IF @ = "up" THEN "draining" ELSE @]
             \/ conn' = [k \in Conns |-> IF conn[k] = "draining" THEN "left" ELSE conn[k]]
          /\ state' = state \/ state' = [state EXCEPT ![l] = "stopped"]
      BY <2>1, <3>3 DEF Callback
    <3>6. rec' \in [Records -> RecordStates]
      BY <1>t, <3>4, <3>5 DEF Set, TypeOK, RecordStates
    <3>7. conn' \in [Conns -> ConnStates]
      BY <1>t, <3>5 DEF TypeOK, ConnStates
    <3>8. state' \in [Loops -> {"unmade", "runs", "stopped", "closed"}]
      BY <1>t, <3>5 DEF TypeOK
    <3>9. pending' \in (SUBSET Records) \cup {None}
      BY <1>t, <3>5 DEF TypeOK
    <3> QED
      BY <1>l, <1>t, <2>1, <3>2, <3>6, <3>7, <3>8, <3>9 DEF Callback, TypeOK, Types, threads
  <2>2. CASE DrainEnds(l)
    BY <1>l, <1>t, <2>2 DEF DrainEnds, TypeOK, QueueType, Types, threads, tasks, sinkState
  <2>3. CASE DrainExpires(l)
    <3>1. rec' \in [Records -> RecordStates] /\ natsLock' \in Nats \cup {None}
      BY <1>t, <2>3 DEF DrainExpires, TypeOK, RecordStates
    <3> QED
      BY <1>l, <1>t, <2>3, <3>1 DEF DrainExpires, TypeOK, QueueType, Types, threads
  <2> QED
    BY <1>2, <2>1, <2>2, <2>3 DEF LoopStep
<1>3. ASSUME NEW r \in Records, TaskStep(r) \/ TakeUp(r) \/ WriteEnds(r) PROVE Types'
  <2>1. rec' \in [Records -> RecordStates]
    BY <1>t, <1>3 DEF TaskStep, HandOver, Publish, Connect, TakeUp, WriteEnds, Set, TypeOK, RecordStates
  <2>2. natsLock' \in Nats \cup {None}
    BY <1>t, <1>3 DEF TaskStep, HandOver, Publish, Connect, TakeUp, WriteEnds, TypeOK, sinkState
  <2>3. UNCHANGED <<threads, loop, state, queue, on, client, natsConn, conn, drops, main>>
    BY <1>3 DEF TaskStep, HandOver, Publish, Connect, TakeUp, WriteEnds, sinkState
  <2> QED
    BY <1>l, <1>t, <2>1, <2>2, <2>3 DEF TypeOK, QueueType, Types, threads, main
<1>4. ASSUME NEW r \in Records, ConnectEnds(r) PROVE Types'
  <2>1. rec' \in [Records -> RecordStates]
    BY <1>t, <1>4 DEF ConnectEnds, Set, TypeOK, RecordStates
  <2>2. natsConn' \in Conns \cup {None} /\ conn' \in [Conns -> ConnStates]
    BY <1>t, <1>4 DEF ConnectEnds, TypeOK, ConnStates
  <2> QED
    BY <1>l, <1>t, <1>4, <2>1, <2>2 DEF ConnectEnds, TypeOK, QueueType, Types, threads, main
<1>5. ASSUME NEW k \in Conns, Drop(k) \/ Reconnect(k) \/ Drained(k) PROVE Types'
  <2>1. conn' \in [Conns -> ConnStates]
    BY <1>t, <1>5 DEF Drop, Reconnect, Drained, TypeOK, ConnStates
  <2>2. drops' \in 0..Drops
    BY <1>t, <1>5, ConstantsOK DEF Drop, Reconnect, Drained, TypeOK
  <2> QED
    BY <1>l, <1>t, <1>5, <2>1, <2>2 DEF Drop, Reconnect, Drained, TypeOK, QueueType, Types, threads, tasks, main
<1>6. CASE ShutdownStarts \/ Shutdown
  <2>1. /\ client' \in {"open", "closed", None} /\ natsConn' \in Conns \cup {None}
        /\ early' \subseteq Records /\ loop' \in Loops \cup {None} /\ expired' \in BOOLEAN
    BY <1>t, <1>6 DEF ShutdownStarts, Shutdown, DrainGivenUp, DrainConn, CloseClient, StopLoop, Join, Forget, ProcessExits,
       TypeOK, sinkState, main
  <2>2. state' \in [Loops -> {"unmade", "runs", "stopped", "closed"}]
    BY <1>t, <1>6 DEF ShutdownStarts, Shutdown, DrainGivenUp, DrainConn, CloseClient, StopLoop, Join, Forget, ProcessExits,
       TypeOK
  <2>3. QueueType'
    <3>1. queue' = queue \/ \E b \in Jobs : loop \in Loops /\ Give(loop, b)
      BY <1>t, <1>6, JobsMade DEF ShutdownStarts, Shutdown, DrainGivenUp, DrainConn, CloseClient, StopLoop, Join, Forget,
         ProcessExits, TypeOK
    <3> QED
      BY <1>t, <3>1, GiveJob DEF QueueType
  <2> QED
    BY <1>l, <1>t, <1>6, <2>1, <2>2, <2>3, ShutdownLeaves DEF TypeOK, Types, threads, tasks
<1>7. CASE UNCHANGED vars
  BY <1>l, <1>t, <1>7 DEF TypeOK, QueueType, Types, vars, threads, tasks, sinkState, main
<1> QED
  BY <1>1, <1>2, <1>3, <1>4, <1>5, <1>6, <1>7 DEF Next, World

\* A job of a loop's queue was there, or is given by one of the four steps that give jobs.
LEMMA NewJob ==
  ASSUME Types, ThreadInv, [Next]_vars, NEW k \in Loops, NEW i \in 1..Len(queue'[k])
  PROVE  \/ \E j \in 1..Len(queue[k]) : queue'[k][i] = queue[k][j]
         \/ \E c \in Calls : /\ Post(c) /\ k = mine[c]
                             /\ queue'[k][i] = Do("record", <<c, sink[c]>>, None)
         \/ ShutdownStarts /\ k = loop /\ queue'[k][i] = Do("drain", None, None)
         \/ /\ DrainConn /\ k = loop /\ natsConn # None
            /\ queue'[k][i] = Do("close", None, natsConn)
         \/ StopLoop /\ k = loop /\ queue'[k][i] = Do("stop", None, None)
<1> DEFINE There == \E j \in 1..Len(queue[k]) : queue'[k][i] = queue[k][j]
<1>t. QueueType /\ Len(queue[k]) \in Nat
  BY LenProperties DEF Types, QueueType
<1>s. queue' = queue => There
  OBVIOUS
<1>g. ASSUME NEW l \in Loops, NEW b \in Jobs, Give(l, b)
      PROVE  There \/ (k = l /\ queue'[k][i] = b)
  <2>1. CASE k = l
    <3>1. i \in 1..(Len(queue[k]) + 1)
      BY <1>t, <1>g, <2>1, GiveJob
    <3> QED
      BY <1>t, <1>g, <2>1, <3>1, GiveJob
  <2>2. CASE k # l
    <3>1. queue'[k] = queue[k]
      BY <1>t, <1>g, <2>2, GiveJob
    <3> QED
      BY <3>1
  <2> QED
    BY <2>1, <2>2
<1>1. ASSUME NEW c \in Calls, Post(c), queue' # queue
      PROVE  There \/ (k = mine[c] /\ queue'[k][i] = Do("record", <<c, sink[c]>>, None))
  <2>1. mine[c] \in Loops /\ <<c, sink[c]>> \in Records /\ Give(mine[c], Do("record", <<c, sink[c]>>, None))
    BY <1>1 DEF Post, ThreadInv, Types, TypeOK, Records
  <2> QED
    BY <1>g, <2>1, JobsMade
<1>2. ASSUME NEW l \in Loops, LoopStep(l) PROVE There
  <2>1. CASE Callback(l) /\ k = l
    <3>1. queue[l] # <<>> /\ queue' = [queue EXCEPT ![l] = Tail(@)]
      BY <2>1 DEF Callback
    <3>2. Len(queue'[k]) = Len(queue[k]) - 1 /\ queue'[k][i] = queue[k][i + 1]
      BY <1>t, <2>1, <3>1, TakeJob
    <3>3. i + 1 \in 1..Len(queue[k])
      BY <1>t, <3>2
    <3> QED
      BY <3>2, <3>3
  <2>2. CASE Callback(l) /\ k # l
    <3>1. queue'[k] = queue[k]
      BY <2>2 DEF Callback, Types, QueueType
    <3> QED
      BY <3>1
  <2>3. CASE DrainEnds(l) \/ DrainExpires(l)
    BY <1>s, <2>3 DEF DrainEnds, DrainExpires
  <2> QED
    BY <1>2, <2>1, <2>2, <2>3 DEF LoopStep
<1>3. CASE ShutdownStarts /\ queue' # queue
  <2>1. loop \in Loops /\ Give(loop, Do("drain", None, None))
    BY <1>3 DEF ShutdownStarts, Types, TypeOK
  <2> QED
    BY <1>3, <1>g, <2>1, JobsMade
<1>4. CASE DrainConn /\ queue' # queue
  <2>1. /\ loop \in Loops /\ natsConn \in Conns /\ natsConn # None
        /\ Give(loop, Do("close", None, natsConn))
    BY <1>4 DEF DrainConn, Types, TypeOK
  <2> QED
    BY <1>4, <1>g, <2>1, JobsMade
<1>5. CASE StopLoop /\ queue' # queue
  <2>1. loop \in Loops /\ Give(loop, Do("stop", None, None))
    BY <1>5 DEF StopLoop, Types, TypeOK
  <2> QED
    BY <1>5, <1>g, <2>1, JobsMade
<1>6. \/ queue' = queue \/ \E l \in Loops : LoopStep(l)
      \/ \E c \in Calls : Post(c)
      \/ ShutdownStarts \/ DrainConn \/ StopLoop
  <2>1. ASSUME NEW c \in Calls, Thread(c) PROVE queue' = queue \/ Post(c)
    BY <2>1, ThreadLeaves
  <2>2. DrainGivenUp \/ CloseClient \/ Join \/ Forget \/ ProcessExits \/ UNCHANGED vars => queue' = queue
    BY DEF DrainGivenUp, CloseClient, Join, Forget, ProcessExits, vars
  <2> QED
    BY <2>1, <2>2, TaskLeaves DEF Next, Shutdown
<1> QED
  BY <1>s, <1>1, <1>2, <1>3, <1>4, <1>5, <1>6

\* The same, for properties of a job's kind.
LEMMA NewKind ==
  ASSUME Types, ThreadInv, [Next]_vars, NEW k \in Loops, NEW i \in 1..Len(queue'[k])
  PROVE  \/ \E j \in 1..Len(queue[k]) : queue'[k][i] = queue[k][j]
         \/ queue'[k][i].do = "record"
         \/ ShutdownStarts /\ queue'[k][i].do = "drain"
         \/ DrainConn /\ queue'[k][i].do = "close"
         \/ StopLoop /\ queue'[k][i].do = "stop"
<1>1. \A r : Do("record", r, None).do = "record"
  BY DEF Do
<1>2. Do("drain", None, None).do = "drain" /\ Do("stop", None, None).do = "stop"
  BY DEF Do
<1>3. Do("close", None, natsConn).do = "close"
  BY DEF Do
<1>4. CASE \E j \in 1..Len(queue[k]) : queue'[k][i] = queue[k][j]
  BY <1>4
<1>5. CASE \E c \in Calls : queue'[k][i] = Do("record", <<c, sink[c]>>, None)
  BY <1>1, <1>5
<1>6. CASE ShutdownStarts /\ queue'[k][i] = Do("drain", None, None)
  BY <1>2, <1>6
<1>7. CASE DrainConn /\ queue'[k][i] = Do("close", None, natsConn)
  BY <1>3, <1>7
<1>8. CASE StopLoop /\ queue'[k][i] = Do("stop", None, None)
  BY <1>2, <1>8
<1> QED
  BY <1>4, <1>5, <1>6, <1>7, <1>8, NewJob

\* A job of a loop's queue stays there, or moves up as the loop runs another, or is run.
LEMMA OldJob ==
  ASSUME Types, ThreadInv, [Next]_vars, NEW k \in Loops, NEW i \in 1..Len(queue[k])
  PROVE  \/ i \in 1..Len(queue'[k]) /\ queue'[k][i] = queue[k][i]
         \/ Callback(k) /\ i - 1 \in 1..Len(queue'[k]) /\ queue'[k][i - 1] = queue[k][i]
         \/ Callback(k) /\ Head(queue[k]) = queue[k][i]
<1> DEFINE Same == i \in 1..Len(queue'[k]) /\ queue'[k][i] = queue[k][i]
<1>t. QueueType /\ Len(queue[k]) \in Nat
  BY LenProperties DEF Types, QueueType
<1>s. queue' = queue => Same
  OBVIOUS
<1>1. ASSUME NEW l \in Loops, NEW b \in Jobs, Give(l, b) PROVE Same
  <2>1. CASE k = l
    BY <1>t, <1>1, <2>1, GiveJob
  <2>2. CASE k # l
    <3>1. queue'[k] = queue[k]
      BY <1>t, <1>1, <2>2, GiveJob
    <3> QED
      BY <3>1
  <2> QED
    BY <2>1, <2>2
<1>2. ASSUME NEW c \in Calls, Thread(c) PROVE Same
  <2>1. CASE Post(c) /\ queue' # queue
    <3>1. mine[c] \in Loops /\ <<c, sink[c]>> \in Records
      BY <2>1 DEF Post, ThreadInv, Types, TypeOK, Records
    <3>2. Give(mine[c], Do("record", <<c, sink[c]>>, None))
      BY <2>1 DEF Post
    <3> QED
      BY <1>1, <3>1, <3>2, JobsMade
  <2> QED
    BY <1>2, <1>s, <2>1, ThreadLeaves
<1>3. ASSUME NEW l \in Loops, LoopStep(l), ~Callback(k) PROVE Same
  <2>1. CASE Callback(l)
    <3>1. queue'[k] = queue[k]
      BY <1>3, <1>t, <2>1 DEF Callback, QueueType
    <3> QED
      BY <3>1
  <2>2. CASE DrainEnds(l) \/ DrainExpires(l)
    BY <1>s, <2>2 DEF DrainEnds, DrainExpires
  <2> QED
    BY <1>3, <2>1, <2>2 DEF LoopStep
<1>4. ASSUME Callback(k)
      PROVE  \/ i - 1 \in 1..Len(queue'[k]) /\ queue'[k][i - 1] = queue[k][i]
             \/ Head(queue[k]) = queue[k][i]
  <2>1. queue[k] # <<>> /\ queue' = [queue EXCEPT ![k] = Tail(@)]
    BY <1>4 DEF Callback
  <2>2. /\ Len(queue'[k]) = Len(queue[k]) - 1 /\ Head(queue[k]) = queue[k][1]
        /\ \A n \in 1..Len(queue'[k]) : queue'[k][n] = queue[k][n + 1]
    BY <1>t, <2>1, TakeJob
  <2>3. CASE i = 1
    BY <2>2, <2>3
  <2>4. CASE i # 1
    <3>1. i - 1 \in 1..Len(queue'[k]) /\ (i - 1) + 1 = i
      BY <1>t, <2>2, <2>4
    <3>2. queue'[k][i - 1] = queue[k][(i - 1) + 1]
      BY <2>2, <3>1
    <3> QED
      BY <3>1, <3>2
  <2> QED
    BY <2>3, <2>4
<1>5. ASSUME ShutdownStarts \/ Shutdown PROVE Same
  <2>1. queue' = queue \/ \E b \in Jobs : loop \in Loops /\ Give(loop, b)
    BY <1>5, JobsMade DEF ShutdownStarts, Shutdown, DrainGivenUp, DrainConn, CloseClient, StopLoop, Join, Forget,
       ProcessExits, Types, TypeOK
  <2> QED
    BY <1>1, <1>s, <2>1
<1>6. (\E r \in Records : TaskStep(r) \/ TakeUp(r)) \/ World \/ UNCHANGED vars => Same
  BY <1>s, TaskLeaves DEF vars
<1> QED
  BY <1>2, <1>3, <1>4, <1>5, <1>6 DEF Next

\* A loop that was told to stop stays told until it has stopped.
LEMMA StopStays ==
  ASSUME Types, Types', ThreadInv, [Next]_vars, NEW k \in Loops, Posted(k, "stop")
  PROVE  Posted(k, "stop")' \/ state'[k] = "stopped"
<1>1. queue[k] \in Seq(Jobs) /\ DOMAIN queue[k] = 1..Len(queue[k])
  BY LenProperties DEF Types, QueueType
<1>2. PICK i \in 1..Len(queue[k]) : queue[k][i].do = "stop"
  BY <1>1 DEF Posted
<1>3. CASE Callback(k) /\ Head(queue[k]) = queue[k][i]
  BY <1>2, <1>3 DEF Callback, Types, TypeOK
<1>4. ASSUME NEW j \in 1..Len(queue'[k]), queue'[k][j] = queue[k][i] PROVE Posted(k, "stop")'
  <2>1. DOMAIN queue'[k] = 1..Len(queue'[k])
    BY LenProperties DEF Types, QueueType
  <2> QED
    BY <1>2, <1>4, <2>1 DEF Posted
<1> QED
  BY <1>3, <1>4, OldJob

\* How shutdown() moves on: only the drain's end may be a step of the loop.
LEMMA MainMoves ==
  ASSUME [Next]_vars
  PROVE  \/ spc' = spc
         \/ spc = "serves" /\ ShutdownStarts
         \/ /\ spc = "draining" /\ spc' = "drained"
            /\ DrainGivenUp \/ \E l \in Loops : DrainEnds(l) \/ DrainExpires(l)
         \/ spc = "drained" /\ spc' = "closing" /\ DrainConn
         \/ spc = "closing" /\ spc' = "closed" /\ CloseClient
         \/ spc = "closed" /\ spc' \in {"joining", "exits"} /\ StopLoop
         \/ spc = "joining" /\ spc' = "forgets" /\ Join
         \/ spc = "forgets" /\ spc' = "exits" /\ Forget
         \/ spc = "exits" /\ spc' = "gone" /\ ProcessExits
<1>1. ASSUME NEW c \in Calls, Thread(c) PROVE spc' = spc
  BY <1>1, ThreadLeaves DEF main
<1>2. ASSUME NEW l \in Loops, LoopStep(l)
      PROVE  spc' = spc \/ (spc = "draining" /\ spc' = "drained" /\ (DrainEnds(l) \/ DrainExpires(l)))
  BY <1>2 DEF LoopStep, Callback, DrainEnds, DrainExpires
<1>3. (\E r \in Records : TaskStep(r) \/ TakeUp(r)) \/ World \/ UNCHANGED vars => spc' = spc
  BY TaskLeaves DEF main, vars
<1>4. /\ ShutdownStarts => spc = "serves"
      /\ DrainGivenUp => spc = "draining" /\ spc' = "drained"
      /\ DrainConn => spc = "drained" /\ spc' = "closing"
      /\ CloseClient => spc = "closing" /\ spc' = "closed"
      /\ StopLoop => spc = "closed" /\ spc' \in {"joining", "exits"}
      /\ Join => spc = "joining" /\ spc' = "forgets"
      /\ Forget => spc = "forgets" /\ spc' = "exits"
      /\ ProcessExits => spc = "exits" /\ spc' = "gone"
  BY DEF ShutdownStarts, DrainGivenUp, DrainConn, CloseClient, StopLoop, Join, Forget, ProcessExits
<1> QED
  BY <1>1, <1>2, <1>3, <1>4 DEF Next, Shutdown

\* One loop at a time, and until it is stopped all that was scheduled is on it.
LEMMA StepLoop ==
  ASSUME Types, Types', ThreadInv, LoopInv, [Next]_vars
  PROVE  LoopInv'
<1>c. None \notin Loops
  BY ConstantsOK
<1>t. /\ state \in [Loops -> {"unmade", "runs", "stopped", "closed"}] /\ loop \in Loops \cup {None}
      /\ tpc \in [Calls -> {"runs", "emit", "lock", "make", "post", "done"}]
      /\ mine \in [Calls -> Loops \cup {None}] /\ on \in [Records -> Loops \cup {None}]
  BY DEF Types, TypeOK
<1>n. ASSUME spc' \in BeforeStop
      PROVE  \A k \in Loops : \A i \in 1..Len(queue'[k]) : queue'[k][i].do # "stop"
  <2>1. spc \in BeforeStop /\ ~StopLoop
    BY <1>n, MainMoves DEF BeforeStop, BeforeClose, StopLoop
  <2> SUFFICES ASSUME NEW k \in Loops, NEW i \in 1..Len(queue'[k]) PROVE queue'[k][i].do # "stop"
    OBVIOUS
  <2>2. \A j \in 1..Len(queue[k]) : queue[k][j].do # "stop"
    BY <2>1 DEF LoopInv
  <2> QED
    BY <2>1, <2>2, NewKind
<1> DEFINE Rest ==
             /\ \A l \in Loops : state[l] = "runs" => loop = l \/ (stalls /\ Posted(l, "stop"))
             /\ spc \in {"draining", "joining", "forgets"} => loop # None
             /\ loop # None => state[loop] # "unmade"
             /\ spc = "joining" /\ state[loop] = "runs" => Posted(loop, "stop")
             /\ spc = "forgets" /\ state[loop] = "runs" => stalls /\ Posted(loop, "stop")
             /\ spc \in BeforeStop =>
                  /\ \A l \in Loops : state[l] \in {"unmade", "runs"}
                  /\ \A c \in Calls : tpc[c] = "post" => mine[c] = loop
                  /\ \A r \in Records : on[r] # None => on[r] = loop
<1>r. Rest
  BY DEF LoopInv
<1>p. \A k \in Loops : Posted(k, "stop") => Posted(k, "stop")' \/ state'[k] = "stopped"
  BY StopStays
<1>q. stalls' = stalls
  BY ThreadLeaves, TaskLeaves, LoopLeaves, ShutdownLeaves DEF Next, threads, vars
<1>1. ASSUME NEW d \in Calls, Thread(d) PROVE Rest'
  <2>0. spc' = spc
    BY <1>1, ThreadLeaves DEF main
  <2>f. \A c \in Calls \ {d} : tpc'[c] = tpc[c] /\ mine'[c] = mine[c]
    BY <1>1, <1>t DEF Thread, Finish, Emit, Lock, Make, Post, Goto
  <2>1. CASE Finish(d) \/ Emit(d)
    <3>1. UNCHANGED <<state, loop, mine, on>> /\ tpc'[d] # "post"
      BY <2>1, <1>t DEF Finish, Emit, Goto, tasks
    <3> QED
      BY <1>p, <1>q, <1>r, <1>t, <2>0, <2>f, <3>1
  <2>2. CASE Lock(d)
    <3>1. UNCHANGED <<state, loop, on>> /\ mine'[d] = loop
      BY <2>2, <1>t DEF Lock, tasks
    <3> QED
      BY <1>p, <1>q, <1>r, <1>t, <2>0, <2>f, <3>1
  <2>3. CASE Make(d)
    <3>1. PICK l \in Loops : /\ state' = [state EXCEPT ![l] = "runs"] /\ loop' = l
                             /\ mine' = [mine EXCEPT ![d] = l]
      BY <2>3 DEF Make
    <3>2. loop = None /\ on' = on
      BY <2>3 DEF Make, ThreadInv, tasks
    <3>3. /\ state'[l] = "runs" /\ \A k \in Loops \ {l} : state'[k] = state[k]
          /\ mine'[d] = l
      BY <3>1, <1>t
    <3>4. \A k \in Loops : state[k] = "runs" => stalls /\ Posted(k, "stop")
      BY <1>c, <1>r, <3>2
    <3>5. spc \in BeforeStop => \A c \in Calls \ {d} : tpc[c] # "post"
      BY <1>r, <3>2 DEF ThreadInv
    <3>6. spc \in BeforeStop => \A r \in Records : on[r] = None
      BY <1>r, <3>2
    <3>7. spc \notin {"draining", "joining", "forgets"}
      BY <1>r, <3>2
    <3> HIDE <2>3
    <3>8. loop' = l /\ l # None
      BY <1>c, <3>1
    <3> QED
      BY <1>p, <1>q, <1>r, <1>t, <2>0, <2>f, <3>2, <3>3, <3>4, <3>5, <3>6, <3>7, <3>8
  <2>4. CASE Post(d)
    <3>1. UNCHANGED <<state, loop, mine>> /\ tpc[d] = "post" /\ tpc'[d] = "emit"
      BY <2>4, <1>t DEF Post, Goto
    <3>2. \A r \in Records : on'[r] = on[r] \/ on'[r] = mine[d]
      BY <2>4, <1>t DEF Post
    <3> QED
      BY <1>p, <1>q, <1>r, <1>t, <2>0, <2>f, <3>1, <3>2
  <2> QED
    BY <1>1, <2>1, <2>2, <2>3, <2>4 DEF Thread
<1>2. ASSUME NEW l \in Loops, Callback(l) PROVE Rest'
  <2>1. /\ UNCHANGED <<loop, spc, on, tpc, mine>> /\ state[l] = "runs" /\ queue[l] # <<>>
        /\ queue' = [queue EXCEPT ![l] = Tail(@)]
    BY <1>2 DEF Callback, threads
  <2>2. Head(queue[l]) = queue[l][1] /\ 1 \in 1..Len(queue[l])
    BY <2>1, TakeJob DEF Types
  <2>3. state' = state \/ (spc \notin BeforeStop /\ state' = [state EXCEPT ![l] = "stopped"])
    BY <1>2, <2>2 DEF Callback, LoopInv
  <2>4. state'[l] # "unmade" /\ \A k \in Loops \ {l} : state'[k] = state[k]
    BY <2>1, <2>3, <1>t
  <2>5. state'[l] = "runs" \/ (state'[l] = "stopped" /\ spc \notin BeforeStop)
    BY <2>1, <2>3, <1>t
  <2> QED
    BY <1>p, <1>q, <1>r, <1>t, <2>1, <2>4, <2>5
<1>3. ASSUME NEW l \in Loops, DrainEnds(l) \/ DrainExpires(l) PROVE Rest'
  <2>1. /\ UNCHANGED <<state, loop, on, tpc, mine>>
        /\ spc' = spc \/ (spc = "draining" /\ spc' = "drained")
    BY <1>3 DEF DrainEnds, DrainExpires, threads, tasks
  <2> QED
    BY <1>p, <1>q, <1>r, <1>t, <2>1 DEF BeforeStop, BeforeClose
<1>4. ASSUME (\E r \in Records : TaskStep(r) \/ TakeUp(r)) \/ World \/ UNCHANGED vars
      PROVE  Rest'
  <2>1. UNCHANGED <<state, loop, on, tpc, mine, spc>>
    BY <1>4, TaskLeaves DEF vars, threads, tasks, main
  <2> QED
    BY <1>p, <1>q, <1>r, <1>t, <2>1
<1>5. ASSUME ShutdownStarts \/ Shutdown PROVE Rest'
  <2>0. UNCHANGED <<tpc, mine, on>>
    BY <1>5, ShutdownLeaves DEF threads, tasks
  <2>1. CASE ShutdownStarts
    <3>1. UNCHANGED <<state, loop>> /\ spc = "serves" /\ spc' = IF loop # None THEN "draining" ELSE "drained"
      BY <2>1 DEF ShutdownStarts
    <3> QED
      BY <1>p, <1>q, <1>r, <1>t, <2>0, <3>1 DEF BeforeStop, BeforeClose
  <2>2. CASE DrainGivenUp \/ DrainConn \/ CloseClient
    <3>1. /\ UNCHANGED <<state, loop>> /\ spc \in {"draining", "drained", "closing"}
          /\ spc' \in {"drained", "closing", "closed"}
      BY <2>2 DEF DrainGivenUp, DrainConn, CloseClient
    <3> QED
      BY <1>p, <1>q, <1>r, <1>t, <2>0, <3>1 DEF BeforeStop, BeforeClose
  <2>3. CASE StopLoop
    <3>1. UNCHANGED <<state, loop>> /\ spc = "closed" /\ spc' = IF loop # None THEN "joining" ELSE "exits"
      BY <2>3 DEF StopLoop
    <3>2. ASSUME loop # None PROVE Posted(loop, "stop")'
      <4>1. loop \in Loops /\ Give(loop, Do("stop", None, None)) /\ QueueType
        BY <1>t, <2>3, <3>2 DEF StopLoop, Types
      <4>2. /\ Len(queue[loop]) \in Nat /\ Len(queue'[loop]) = Len(queue[loop]) + 1
            /\ queue'[loop][Len(queue[loop]) + 1] = Do("stop", None, None)
        BY <4>1, GiveJob, JobsMade
      <4>3. DOMAIN queue'[loop] = 1..Len(queue'[loop])
        BY <4>1, LenProperties DEF Types, QueueType
      <4>4. Len(queue[loop]) + 1 \in DOMAIN queue'[loop] /\ Do("stop", None, None).do = "stop"
        BY <4>2, <4>3, JobsMade
      <4>5. loop' = loop
        BY <3>1
      <4> QED
        BY <4>2, <4>4, <4>5 DEF Posted
    <3> QED
      BY <1>p, <1>q, <1>r, <1>t, <2>0, <3>1, <3>2 DEF BeforeStop, BeforeClose
  <2>4. CASE Join
    <3>1. /\ loop' = loop /\ spc = "joining" /\ spc' = "forgets"
          /\ \/ state' = [state EXCEPT ![loop] = "closed"]
             \/ state[loop] = "runs" /\ stalls /\ state' = state
      BY <2>4 DEF Join
    <3>2. loop \in Loops
      BY <1>r, <1>t, <3>1
    <3>3. /\ state'[loop] = "closed" \/ (state[loop] = "runs" /\ stalls /\ state'[loop] = "runs")
          /\ \A k \in Loops \ {loop} : state'[k] = state[k]
      BY <1>t, <3>1, <3>2
    <3> QED
      BY <1>p, <1>q, <1>r, <1>t, <2>0, <3>1, <3>2, <3>3 DEF BeforeStop, BeforeClose
  <2>5. CASE Forget
    <3>1. loop' = None /\ state' = state /\ spc = "forgets" /\ spc' = "exits"
      BY <2>5 DEF Forget
    <3> QED
      BY <1>p, <1>q, <1>r, <1>t, <2>0, <3>1 DEF BeforeStop, BeforeClose
  <2>6. CASE ProcessExits
    <3>1. UNCHANGED <<state, loop>> /\ spc' = "gone"
      BY <2>6 DEF ProcessExits
    <3> QED
      BY <1>p, <1>q, <1>r, <1>t, <2>0, <3>1 DEF BeforeStop, BeforeClose
  <2> QED
    BY <1>5, <2>1, <2>2, <2>3, <2>4, <2>5, <2>6 DEF Shutdown
<1>6. Rest'
  BY <1>1, <1>2, <1>3, <1>4, <1>5 DEF Next, LoopStep
<1> QED
  BY <1>6, <1>n DEF LoopInv

\* A record that is posted waits in its loop's queue, once, and nothing else does.
LEMMA StepJob ==
  ASSUME Types, ThreadInv, JobInv, [Next]_vars
  PROVE  JobInv'
<1>t. /\ QueueType /\ rec \in [Records -> RecordStates] /\ on \in [Records -> Loops \cup {None}]
      /\ None \notin Loops
  BY ConstantsOK DEF Types, TypeOK
<1>l. \A k \in Loops : Len(queue[k]) \in Nat /\ \A i \in 1..Len(queue[k]) : queue[k][i] \in Jobs
  BY <1>t, LenProperties, ElementOfSeq DEF QueueType
<1>j. /\ \A k \in Loops : \A i \in 1..Len(queue[k]) : queue[k][i].do = "record" =>
           rec[queue[k][i].rec] = "posted" /\ on[queue[k][i].rec] = k
      /\ \A k \in Loops : \A i, j \in 1..Len(queue[k]) :
           queue[k][i].do = "record" /\ queue[k][j] = queue[k][i] => i = j
      /\ \A r \in Records : rec[r] = "posted" =>
           on[r] \in Loops /\ \E i \in 1..Len(queue[on[r]]) : queue[on[r]][i] = Do("record", r, None)
      /\ \A r \in Records : rec[r] \in OnLoop => on[r] # None
  BY <1>t DEF JobInv
<1>1. ASSUME queue' = queue, on' = on,
             \A r \in Records : /\ rec'[r] = "posted" <=> rec[r] = "posted"
                                /\ rec'[r] \in OnLoop => rec[r] \in OnLoop
      PROVE  JobInv'
  <2>1. \A k \in Loops : \A i \in 1..Len(queue[k]) : queue[k][i].do = "record" => queue[k][i].rec \in Records
    BY <1>l, JobKinds
  <2> QED
    BY <1>j, <1>1, <2>1 DEF JobInv
<1>2. ASSUME NEW l \in Loops, NEW b \in Jobs, b.do # "record", Give(l, b), UNCHANGED <<rec, on>>
      PROVE  JobInv'
  <2>1. /\ Len(queue[l]) \in Nat /\ Len(queue'[l]) = Len(queue[l]) + 1
        /\ \A i \in 1..Len(queue[l]) : queue'[l][i] = queue[l][i]
        /\ queue'[l][Len(queue[l]) + 1] = b
        /\ \A k \in Loops \ {l} : queue'[k] = queue[k]
    BY <1>t, <1>2, GiveJob
  <2>2. ASSUME NEW k \in Loops, NEW i \in 1..Len(queue'[k]), queue'[k][i].do = "record"
        PROVE  /\ i \in 1..Len(queue[k]) /\ queue'[k][i] = queue[k][i]
               /\ \A j \in 1..Len(queue'[k]) : queue'[k][j] = queue'[k][i] =>
                    j \in 1..Len(queue[k]) /\ queue'[k][j] = queue[k][j]
    <3>1. CASE k = l
      BY <1>2, <2>1, <2>2, <3>1
    <3>2. CASE k # l
      BY <2>1, <3>2
    <3> QED
      BY <3>1, <3>2
  <2>3. ASSUME NEW k \in Loops, NEW i \in 1..Len(queue[k])
        PROVE  i \in 1..Len(queue'[k]) /\ queue'[k][i] = queue[k][i]
    BY <2>1
  <2> QED
    BY <1>j, <1>2, <2>2, <2>3 DEF JobInv
<1>3. ASSUME NEW d \in Calls, Post(d) PROVE JobInv'
  <2>0. /\ mine[d] \in Loops /\ sink[d] \in Sinks
        /\ rec[<<d, sink[d]>>] = "none"
    BY <1>3 DEF Post, ThreadInv, Types, TypeOK
  <2>1. PICK r \in Records, l \in Loops : r = <<d, sink[d]>> /\ l = mine[d]
    BY <2>0 DEF Records
  <2>2. \A k \in Loops : \A i \in 1..Len(queue[k]) : queue[k][i].do = "record" => queue[k][i].rec # r
    BY <1>j, <2>0, <2>1
  <2>3. CASE state[l] = "closed"
    <3>1. queue' = queue /\ on' = on /\ rec' = [rec EXCEPT ![r] = "void"]
      BY <1>3, <2>1, <2>3 DEF Post, Set
    <3> QED
      BY <1>1, <1>t, <2>0, <2>1, <3>1 DEF OnLoop
  <2>4. CASE state[l] # "closed"
    <3> DEFINE b == Do("record", r, None)
    <3>1. /\ Give(l, b) /\ rec' = [rec EXCEPT ![r] = "posted"] /\ on' = [on EXCEPT ![r] = l]
      BY <1>3, <2>1, <2>4 DEF Post, Set
    <3>2. b \in Jobs /\ b.do = "record" /\ b.rec = r
      BY DEF Do, Jobs
    <3>3. /\ Len(queue[l]) \in Nat /\ Len(queue'[l]) = Len(queue[l]) + 1
          /\ \A i \in 1..Len(queue[l]) : queue'[l][i] = queue[l][i]
          /\ queue'[l][Len(queue[l]) + 1] = b
          /\ \A k \in Loops \ {l} : queue'[k] = queue[k]
      BY <1>t, <3>1, <3>2, GiveJob
    <3>4. /\ rec'[r] = "posted" /\ on'[r] = l
          /\ \A q \in Records \ {r} : rec'[q] = rec[q] /\ on'[q] = on[q]
      BY <1>t, <3>1
    <3> HIDE DEF b
    <3>5. ASSUME NEW k \in Loops, NEW i \in 1..Len(queue[k])
          PROVE  i \in 1..Len(queue'[k]) /\ queue'[k][i] = queue[k][i] /\ queue[k][i] # b
      BY <2>2, <3>2, <3>3
    <3>6. ASSUME NEW k \in Loops, NEW i \in 1..Len(queue'[k])
          PROVE  \/ i \in 1..Len(queue[k])
                 \/ k = l /\ i = Len(queue[k]) + 1 /\ queue'[k][i] = b
      BY <3>3
    <3>7. ASSUME NEW k \in Loops, NEW i \in 1..Len(queue'[k]), queue'[k][i].do = "record"
          PROVE  /\ rec'[queue'[k][i].rec] = "posted" /\ on'[queue'[k][i].rec] = k
                 /\ \A j \in 1..Len(queue'[k]) : queue'[k][j] = queue'[k][i] => i = j
      <4>1. CASE i \in 1..Len(queue[k])
        <5>1. queue'[k][i] = queue[k][i] /\ queue[k][i] \in Jobs /\ queue[k][i] # b
          BY <1>l, <3>5, <4>1
        <5>2. queue[k][i].rec \in Records /\ queue[k][i].rec # r
          BY <2>2, <3>7, <4>1, <5>1, JobKinds
        <5>3. rec'[queue'[k][i].rec] = "posted" /\ on'[queue'[k][i].rec] = k
          BY <1>j, <3>4, <3>7, <4>1, <5>1, <5>2
        <5>4. ASSUME NEW j \in 1..Len(queue'[k]), queue'[k][j] = queue'[k][i] PROVE i = j
          BY <1>j, <3>5, <3>6, <3>7, <4>1, <5>1, <5>4
        <5> QED
          BY <5>3, <5>4
      <4>2. CASE k = l /\ i = Len(queue[k]) + 1 /\ queue'[k][i] = b
        BY <3>2, <3>4, <3>5, <3>6, <4>2
      <4> QED
        BY <3>6, <4>1, <4>2
    <3>8. ASSUME NEW q \in Records, rec'[q] = "posted"
          PROVE  on'[q] # None /\ \E i \in 1..Len(queue'[on'[q]]) : queue'[on'[q]][i] = Do("record", q, None)
      <4>1. CASE q = r
        <5>1. Len(queue[l]) + 1 \in 1..Len(queue'[l])
          BY <3>3
        <5> QED
          BY <1>t, <3>3, <3>4, <4>1, <5>1 DEF b
      <4>2. CASE q # r
        BY <1>j, <1>t, <3>4, <3>5, <3>8, <4>2
      <4> QED
        BY <4>1, <4>2
    <3>9. \A q \in Records : rec'[q] \in OnLoop => on'[q] # None
      BY <1>j, <1>t, <3>4
    <3> QED
      BY <3>7, <3>8, <3>9 DEF JobInv
  <2> QED
    BY <2>3, <2>4
<1>4. ASSUME NEW l \in Loops, Callback(l) PROVE JobInv'
  <2>1. queue[l] # <<>> /\ queue' = [queue EXCEPT ![l] = Tail(@)] /\ on' = on
    BY <1>4 DEF Callback
  <2>2. /\ Len(queue[l]) \in Nat /\ Len(queue[l]) >= 1 /\ Len(queue'[l]) = Len(queue[l]) - 1
        /\ \A i \in 1..Len(queue'[l]) : queue'[l][i] = queue[l][i + 1]
        /\ \A k \in Loops \ {l} : queue'[k] = queue[k]
        /\ Head(queue[l]) = queue[l][1] /\ Head(queue[l]) \in Jobs
    BY <1>t, <2>1, TakeJob
  <2>3. PICK b \in Jobs : b = queue[l][1] /\ b = Head(queue[l])
    BY <2>2
  <2>4. \/ b.do = "record" /\ rec' = [rec EXCEPT ![b.rec] = "task"]
        \/ b.do # "record" /\ rec' = rec
    BY <1>4, <2>3 DEF Callback, Set
  <2>5. /\ b.do = "record" =>
             b.rec \in Records /\ b = Do("record", b.rec, None) /\ rec[b.rec] = "posted" /\ on[b.rec] = l
        /\ \A k \in Loops : \A i \in 1..Len(queue[k]) : queue[k][i].do = "record" =>
             queue[k][i].rec \in Records /\ queue[k][i] = Do("record", queue[k][i].rec, None)
    BY <1>j, <1>l, <2>2, <2>3, JobKinds
  <2>6. /\ \A q \in Records : rec'[q] = rec[q] \/ (b.do = "record" /\ q = b.rec /\ rec'[q] = "task")
        /\ b.do = "record" => rec'[b.rec] = "task"
    BY <1>t, <2>4, <2>5
  \* What was at i is at i, or one place ahead of it, and is not the job that is run.
  <2>7. ASSUME NEW k \in Loops, NEW i \in 1..Len(queue'[k])
        PROVE  \E n \in 1..Len(queue[k]) :
                 /\ queue'[k][i] = queue[k][n] /\ n = (IF k = l THEN i + 1 ELSE i)
                 /\ queue[k][n].do = "record" => queue[k][n] # b
    <3>1. CASE k = l
      <4>1. i + 1 \in 1..Len(queue[l]) /\ 1 \in 1..Len(queue[l]) /\ i + 1 # 1
        BY <2>2, <3>1
      <4> QED
        BY <1>j, <2>2, <2>3, <3>1, <4>1
    <3>2. CASE k # l
      <4>1. i \in 1..Len(queue[k]) /\ queue'[k][i] = queue[k][i]
        BY <2>2, <3>2
      <4>2. queue[k][i].do = "record" => queue[k][i] # b
        BY <1>j, <2>5, <3>2, <4>1
      <4> QED
        BY <3>2, <4>1, <4>2
    <3> QED
      BY <3>1, <3>2
  <2>8. ASSUME NEW k \in Loops, NEW i \in 1..Len(queue'[k]), queue'[k][i].do = "record"
        PROVE  /\ rec'[queue'[k][i].rec] = "posted" /\ on'[queue'[k][i].rec] = k
               /\ \A j \in 1..Len(queue'[k]) : queue'[k][j] = queue'[k][i] => i = j
    <3>1. PICK n \in 1..Len(queue[k]) :
                 /\ queue'[k][i] = queue[k][n] /\ n = (IF k = l THEN i + 1 ELSE i)
                 /\ queue[k][n].do = "record" => queue[k][n] # b
      BY <2>7
    <3>2. queue[k][n].rec \in Records /\ queue[k][n] = Do("record", queue[k][n].rec, None)
      BY <2>5, <2>8, <3>1
    <3>3. ~(b.do = "record" /\ queue[k][n].rec = b.rec)
      BY <2>5, <2>8, <3>1, <3>2
    <3>4. rec'[queue'[k][i].rec] = "posted" /\ on'[queue'[k][i].rec] = k
      BY <1>j, <2>1, <2>6, <2>8, <3>1, <3>2, <3>3
    <3>5. ASSUME NEW j \in 1..Len(queue'[k]), queue'[k][j] = queue'[k][i] PROVE i = j
      <4>1. PICK m \in 1..Len(queue[k]) : queue'[k][j] = queue[k][m] /\ m = (IF k = l THEN j + 1 ELSE j)
        BY <2>7
      <4>2. m = n
        BY <1>j, <2>8, <3>1, <3>5, <4>1
      <4> QED
        BY <3>1, <4>1, <4>2, <2>2, <1>l
    <3> QED
      BY <3>4, <3>5
  <2>9. ASSUME NEW q \in Records, rec'[q] = "posted"
        PROVE  on'[q] # None /\ \E i \in 1..Len(queue'[on'[q]]) : queue'[on'[q]][i] = Do("record", q, None)
    <3>1. rec[q] = "posted" /\ ~(b.do = "record" /\ q = b.rec)
      BY <2>6, <2>9
    <3>k. PICK k \in Loops : k = on[q]
      BY <1>j, <3>1
    <3>2. PICK i \in 1..Len(queue[k]) : k = on[q] /\ queue[k][i] = Do("record", q, None)
      BY <1>j, <3>1, <3>k
    <3>3. Do("record", q, None).do = "record" /\ Do("record", q, None).rec = q
      BY DEF Do
    <3>4. CASE k = l
      <4>1. i # 1
        BY <2>3, <3>1, <3>2, <3>3, <3>4
      <4>3. i \in Nat /\ i - 1 \in 1..Len(queue'[l]) /\ (i - 1) + 1 = i
        BY <2>2, <3>4, <4>1
      <4>4. queue'[l][i - 1] = queue[l][(i - 1) + 1]
        BY <2>2, <4>3
      <4>2. i - 1 \in 1..Len(queue'[l]) /\ queue'[l][i - 1] = queue[l][i]
        BY <4>3, <4>4
      <4> QED
        BY <1>t, <2>1, <3>2, <3>4, <4>2
    <3>5. CASE k # l
      BY <1>t, <2>1, <2>2, <3>2, <3>5
    <3> QED
      BY <3>4, <3>5
  <2>10. \A q \in Records : rec'[q] \in OnLoop => on'[q] # None
    BY <1>j, <1>t, <2>1, <2>5, <2>6
  <2> QED
    BY <2>8, <2>9, <2>10 DEF JobInv
<1>5. ASSUME NEW l \in Loops, DrainEnds(l) \/ DrainExpires(l) PROVE JobInv'
  <2>1. queue' = queue /\ on' = on
    BY <1>5 DEF DrainEnds, DrainExpires, tasks
  <2>2. \A r \in Records : rec'[r] = rec[r] \/ (rec'[r] = "void" /\ rec[r] # "posted")
    BY <1>5 DEF DrainEnds, DrainExpires, tasks
  <2> QED
    BY <1>1, <2>1, <2>2 DEF OnLoop
<1>6. ASSUME NEW q \in Records, TaskStep(q) \/ TakeUp(q) \/ WriteEnds(q) \/ ConnectEnds(q) PROVE JobInv'
  <2>1. queue' = queue /\ on' = on
    BY <1>6 DEF TaskStep, HandOver, Publish, Connect, TakeUp, WriteEnds, ConnectEnds
  <2>2. /\ rec[q] \in OnLoop
        /\ \E v \in RecordStates \ {"posted"} : rec' = [rec EXCEPT ![q] = v]
    BY <1>6 DEF TaskStep, HandOver, Publish, Connect, TakeUp, WriteEnds, ConnectEnds, Set, OnLoop,
       RecordStates
  <2>3. \A r \in Records : rec'[r] = rec[r] \/ (r = q /\ rec'[r] # "posted")
    BY <1>t, <2>2
  <2>4. rec[q] # "posted"
    BY <2>2 DEF OnLoop
  <2> QED
    BY <1>1, <2>1, <2>2, <2>3, <2>4
<1>7. ASSUME queue' = queue, UNCHANGED tasks PROVE JobInv'
  BY <1>1, <1>7 DEF tasks
<1>8. ASSUME ShutdownStarts \/ Shutdown PROVE JobInv'
  <2>1. \/ queue' = queue
        \/ \E b \in Jobs : loop \in Loops /\ b.do # "record" /\ Give(loop, b)
    BY <1>8, JobsMade DEF ShutdownStarts, Shutdown, DrainGivenUp, DrainConn, CloseClient, StopLoop, Join, Forget,
       ProcessExits, Types, TypeOK
  <2> QED
    BY <1>2, <1>7, <1>8, <2>1, ShutdownLeaves DEF tasks
<1>9. ASSUME (\E k \in Conns : Drop(k) \/ Reconnect(k) \/ Drained(k)) \/ UNCHANGED vars PROVE JobInv'
  BY <1>7, <1>9 DEF Drop, Reconnect, Drained, vars
<1>10. ASSUME NEW c \in Calls, Thread(c) PROVE JobInv'
  BY <1>3, <1>7, <1>10, ThreadLeaves
<1> QED
  BY <1>4, <1>5, <1>6, <1>8, <1>9, <1>10 DEF Next, World, LoopStep

\* Only the task that holds _nats_lock connects, and until the drain is over no record is lost.
LEMMA StepSink ==
  ASSUME Types, ThreadInv, LoopInv, JobInv, SinkInv, [Next]_vars
  PROVE  SinkInv'
<1>c. None \notin Records
  BY ConstantsOK
<1>t. /\ rec \in [Records -> RecordStates] /\ natsLock \in Nats \cup {None} /\ Nats \subseteq Records
      /\ config \in Configs
  BY DEF Types, TypeOK, Nats
<1>d. ASSUME NEW l \in Loops, DrainExpires(l)
      PROVE  /\ pending \subseteq Records /\ spc' \notin {"serves", "draining"} /\ client' = client
             /\ natsLock' = IF natsLock \in pending THEN None ELSE natsLock
             /\ \A r \in pending : rec'[r] # "connecting"
             /\ \A r \in Records \ pending : rec'[r] = rec[r]
  <2>1. /\ pending # None /\ spc' \notin {"serves", "draining"} /\ client' = client
        /\ natsLock' = IF natsLock \in pending THEN None ELSE natsLock
    BY <1>d DEF DrainExpires
  <2>2. pending \subseteq Records
    BY <2>1 DEF Types, TypeOK
  <2>3. \A r \in Records :
          rec'[r] = IF r \in pending /\ rec[r] \in {"task", "handed", "connecting"} THEN "void" ELSE rec[r]
    BY <1>d DEF DrainExpires
  <2> QED
    BY <2>1, <2>2, <2>3
\* The lock changes hands with the connecting task.
<1>1. \/ /\ natsLock' = natsLock
         /\ \A r \in Records : rec'[r] = "connecting" <=> rec[r] = "connecting"
      \/ \E r \in Records : /\ natsLock = None /\ natsLock' = r /\ rec'[r] = "connecting"
                            /\ \A q \in Records \ {r} : rec'[q] = rec[q]
      \/ \E r \in Records : /\ natsLock = r /\ natsLock' = None /\ rec'[r] # "connecting"
                            /\ \A q \in Records \ {r} : rec'[q] = rec[q]
      \/ \E l \in Loops : DrainExpires(l)
  <2>1. CASE \E r \in Records : Connect(r)
    <3>1. PICK r \in Records : Connect(r)
      BY <2>1
    <3> QED
      BY <1>t, <3>1 DEF Connect, MayConnect, Set
  <2>2. CASE \E r \in Records : ConnectEnds(r)
    <3>1. PICK r \in Records : ConnectEnds(r)
      BY <2>2
    <3>2. /\ rec[r] = "connecting" /\ natsLock' = None
          /\ \E v \in {"written", "failed"} : rec' = [rec EXCEPT ![r] = v]
      BY <3>1 DEF ConnectEnds, Set
    <3>3. natsLock = r
      BY <3>2 DEF SinkInv
    <3>4. rec'[r] # "connecting" /\ \A q \in Records \ {r} : rec'[q] = rec[q]
      BY <1>t, <3>2
    <3> QED
      BY <3>2, <3>3, <3>4
  <2>3. CASE /\ ~\E r \in Records : Connect(r) \/ ConnectEnds(r)
             /\ ~\E l \in Loops : DrainExpires(l)
    <3>1. \A r \in Records : rec'[r] = "connecting" <=> rec[r] = "connecting"
      <4> SUFFICES ASSUME NEW r \in Records PROVE rec'[r] = "connecting" <=> rec[r] = "connecting"
        OBVIOUS
      <4> QED
        BY <2>3, RecordMoves
    <3>2. natsLock' = natsLock
      <4>1. ASSUME NEW c \in Calls, Thread(c) PROVE natsLock' = natsLock
        BY <4>1, ThreadLeaves DEF sinkState
      <4>2. ASSUME NEW l \in Loops, LoopStep(l) PROVE natsLock' = natsLock
        BY <2>3, <4>2 DEF LoopStep, Callback, DrainEnds, sinkState
      <4>3. ASSUME NEW r \in Records, TaskStep(r) \/ TakeUp(r) \/ WriteEnds(r) \/ ConnectEnds(r)
            PROVE  natsLock' = natsLock
        BY <2>3, <4>3 DEF TaskStep, HandOver, Publish, TakeUp, WriteEnds, sinkState
      <4>4. ASSUME NEW k \in Conns, Drop(k) \/ Reconnect(k) \/ Drained(k) PROVE natsLock' = natsLock
        BY <4>4 DEF Drop, Reconnect, Drained
      <4>5. CASE ShutdownStarts \/ Shutdown \/ UNCHANGED vars
        BY <4>5, ShutdownLeaves DEF vars, sinkState
      <4> QED
        BY <4>1, <4>2, <4>3, <4>4, <4>5 DEF Next, World
    <3> QED
      BY <3>1, <3>2
  <2> QED
    BY <2>1, <2>2, <2>3
<1>2. \A r \in Records : rec'[r] = "connecting" <=> natsLock' = r
  <2>0. \A r \in Records : rec[r] = "connecting" <=> natsLock = r
    BY DEF SinkInv
  <2>1. CASE \E l \in Loops : DrainExpires(l)
    BY <1>c, <1>d, <2>0, <2>1
  <2>2. CASE ~\E l \in Loops : DrainExpires(l)
    BY <1>c, <1>1, <2>0, <2>2
  <2> QED
    BY <2>1, <2>2
<1>3. \A r \in Records : rec'[r] \in {"handed", "writing"} => r \in Influx
  <2> SUFFICES ASSUME NEW r \in Records, rec'[r] \in {"handed", "writing"} PROVE r \in Influx
    OBVIOUS
  <2>1. rec[r] \in {"handed", "writing"} \/ HandOver(r)
    BY RecordMoves
  <2> QED
    BY <2>1 DEF HandOver, SinkInv
<1>4. config' = config
  <2>1. ASSUME NEW c \in Calls, Thread(c) PROVE config' = config
    BY <2>1, ThreadLeaves
  <2> QED
    BY <2>1, TaskLeaves, LoopLeaves, ShutdownLeaves DEF Next, vars, threads
<1>5. \A r \in Records : rec'[r] # "none" => r[2] \in config'
  <2> SUFFICES ASSUME NEW r \in Records, rec'[r] # "none" PROVE r[2] \in config
    BY <1>4
  <2>1. rec[r] # "none" \/ \E c \in Calls : Post(c) /\ r = <<c, sink[c]>>
    BY NoneStays
  <2>2. ASSUME NEW c \in Calls, Post(c), r = <<c, sink[c]>> PROVE r[2] \in config
    <3>1. sink[c] \in config /\ r[2] = sink[c]
      BY <2>2 DEF Post, ThreadInv
    <3> QED
      BY <3>1
  <2> QED
    BY <2>1, <2>2 DEF SinkInv
<1>6. spc' \in BeforeClose \cup {"closing"} => ("influx" \in config' <=> client' = "open")
  <2>1. ASSUME spc' \in BeforeClose \cup {"closing"}
        PROVE  spc \in BeforeClose \cup {"closing"} /\ ~CloseClient /\ ~StopLoop
    <3>1. (CloseClient => spc' = "closed") /\ (StopLoop => spc' \in {"joining", "exits"})
      BY DEF CloseClient, StopLoop
    <3> QED
      BY <2>1, <3>1, MainMoves DEF BeforeClose
  <2>2. client' = client \/ CloseClient \/ StopLoop
    <3>1. ASSUME NEW c \in Calls, Thread(c) PROVE client' = client
      BY <3>1, ThreadLeaves DEF sinkState
    <3>2. ShutdownStarts \/ DrainGivenUp \/ DrainConn \/ Join \/ Forget \/ ProcessExits \/ UNCHANGED vars =>
            client' = client
      BY DEF ShutdownStarts, DrainGivenUp, DrainConn, Join, Forget, ProcessExits, sinkState, vars
    <3> QED
      BY <3>1, <3>2, TaskLeaves, LoopLeaves DEF Next, Shutdown
  <2> QED
    BY <1>4, <2>1, <2>2 DEF SinkInv
<1>7. spc' \in {"serves", "draining"} => \A r \in Records : rec'[r] # "void"
  <2> SUFFICES ASSUME spc' \in {"serves", "draining"}, NEW r \in Records PROVE rec'[r] # "void"
    OBVIOUS
  <2>1. spc \in {"serves", "draining"} /\ \A l \in Loops : ~DrainExpires(l)
    BY <1>d, MainMoves
  <2>2. rec[r] # "void"
    BY <2>1 DEF SinkInv
  <2>3. ~(rec'[r] = "void" /\ TakeUp(r))
    <3>1. TakeUp(r) => rec[r] = "handed" /\ rec'[r] = IF client = None THEN "void" ELSE "writing"
      BY <1>t DEF TakeUp, Set
    <3>2. rec[r] = "handed" => r[2] = "influx" /\ "influx" \in config
      BY DEF SinkInv, Influx
    <3>3. "influx" \in config => client = "open"
      BY <2>1 DEF SinkInv, BeforeClose
    <3> QED
      BY <3>1, <3>2, <3>3, ConstantsOK
  <2>4. ASSUME NEW c \in Calls, Post(c), r = <<c, sink[c]>> PROVE rec'[r] # "void"
    <3>1. mine[c] \in Loops /\ state[mine[c]] # "closed"
      BY <2>1, <2>4 DEF Post, ThreadInv, LoopInv, Types, TypeOK, BeforeStop, BeforeClose
    <3> QED
      BY <1>t, <2>4, <3>1 DEF Post, Set
  <2> QED
    BY <2>1, <2>2, <2>3, <2>4, RecordMoves
<1> QED
  BY <1>2, <1>3, <1>5, <1>6, <1>7 DEF SinkInv

\* What the drain waits for is set when the loop comes to its job, and by nothing else.
LEMMA PendingMoves ==
  ASSUME Types, [Next]_vars
  PROVE  \/ pending' = pending
         \/ \E l \in Loops : /\ Callback(l) /\ Head(queue[l]).do = "drain"
                             /\ pending' = {r \in Records : on[r] = l /\ rec[r] \in OnLoop}
                             /\ rec' = rec /\ spc' = spc
<1>1. ASSUME NEW c \in Calls, Thread(c) PROVE pending' = pending
  BY <1>1, ThreadLeaves DEF main
<1>2. ASSUME NEW l \in Loops, Callback(l)
      PROVE  \/ pending' = pending
             \/ /\ Head(queue[l]).do = "drain" /\ rec' = rec /\ spc' = spc
                /\ pending' = {r \in Records : on[r] = l /\ rec[r] \in OnLoop}
  BY <1>2 DEF Callback
<1>3. ASSUME NEW l \in Loops, DrainEnds(l) \/ DrainExpires(l) PROVE pending' = pending
  BY <1>3 DEF DrainEnds, DrainExpires
<1>4. (\E r \in Records : TaskStep(r) \/ TakeUp(r)) \/ World \/ UNCHANGED vars => pending' = pending
  BY TaskLeaves DEF main, vars
<1> QED
  BY <1>1, <1>2, <1>3, <1>4, ShutdownLeaves DEF Next, LoopStep

\* shutdown() fixes the early records; only a timeout of the drain gives up on them.
LEMMA EarlyStays ==
  ASSUME [Next]_vars
  PROVE  /\ early' = early \/ (ShutdownStarts /\ early' = {r \in Records : rec[r] # "none"})
         /\ expired' = expired \/ expired' = TRUE
<1>1. ASSUME NEW c \in Calls, Thread(c) PROVE early' = early /\ expired' = expired
  BY <1>1, ThreadLeaves DEF main
<1>2. ASSUME NEW l \in Loops, LoopStep(l)
      PROVE  early' = early /\ (expired' = expired \/ expired' = TRUE)
  BY <1>2 DEF LoopStep, Callback, DrainEnds, DrainExpires
<1>3. (\E r \in Records : TaskStep(r) \/ TakeUp(r)) \/ World \/ UNCHANGED vars =>
        early' = early /\ expired' = expired
  BY TaskLeaves DEF main, vars
<1>4. Shutdown => early' = early /\ (expired' = expired \/ expired' = TRUE)
  BY DEF Shutdown, DrainGivenUp, DrainConn, CloseClient, StopLoop, Join, Forget, ProcessExits
<1>5. ShutdownStarts => early' = {r \in Records : rec[r] # "none"} /\ expired' = expired
  BY DEF ShutdownStarts
<1> QED
  BY <1>1, <1>2, <1>3, <1>4, <1>5 DEF Next

\* A loop that there is stays until shutdown() forgets it.
LEMMA LoopStays ==
  ASSUME ThreadInv, [Next]_vars, loop # None, ~Forget
  PROVE  loop' = loop
<1>1. ASSUME NEW c \in Calls, Thread(c) PROVE loop' = loop
  <2>1. ~Make(c)
    BY DEF Make, ThreadInv
  <2> QED
    BY <1>1, <2>1, ThreadLeaves
<1>2. ShutdownStarts \/ Shutdown \/ UNCHANGED vars => loop' = loop
  BY DEF ShutdownStarts, Shutdown, DrainGivenUp, DrainConn, CloseClient, StopLoop, Join, ProcessExits,
     vars
<1> QED
  BY <1>1, <1>2, TaskLeaves, LoopLeaves DEF Next

\* The early records are run before the drain looks, and the drain waits for each.
LEMMA StepEarly ==
  ASSUME Types, ThreadInv, LoopInv, JobInv, SinkInv, SinkInv', EarlyInv, [Next]_vars
  PROVE  EarlyInv'
<1>c. /\ None \notin Records /\ None \notin Loops
      /\ \A S \in SUBSET Records : None # S
  BY ConstantsOK
<1>t. /\ early \subseteq Records /\ pending \in (SUBSET Records) \cup {None}
      /\ rec \in [Records -> RecordStates] /\ loop \in Loops \cup {None}
      /\ on \in [Records -> Loops \cup {None}] /\ QueueType
  BY DEF Types, TypeOK
<1>m. \A r \in Records : rec[r] # "none" => rec'[r] # "none"
  <2> SUFFICES ASSUME NEW r \in Records, rec[r] # "none" PROVE rec'[r] # "none"
    OBVIOUS
  <2> QED
    BY RecordMoves
<1>w. \A r \in Records : rec[r] \in {"written", "failed"} => rec'[r] = rec[r]
  <2> SUFFICES ASSUME NEW r \in Records, rec[r] \in {"written", "failed"} PROVE rec'[r] = rec[r]
    OBVIOUS
  <2> QED
    BY RecordMoves
<1>o. \A r \in Records : rec[r] \in OnLoop => rec'[r] \in OnLoop \cup Over
  <2> SUFFICES ASSUME NEW r \in Records, rec[r] \in OnLoop PROVE rec'[r] \in OnLoop \cup Over
    OBVIOUS
  <2> QED
    BY RecordMoves DEF OnLoop, Over
<1>l. spc \in {"serves", "draining"} =>
        \A r \in Records : rec[r] \in OnLoop \cup {"posted"} => on[r] = loop /\ loop # None
  <2>1. \A r \in Records : rec[r] \in OnLoop \cup {"posted"} => on[r] # None
    BY DEF JobInv
  <2>2. spc \in {"serves", "draining"} => \A r \in Records : on[r] # None => on[r] = loop
    BY DEF LoopInv, BeforeStop, BeforeClose
  <2> QED
    BY <2>1, <2>2
<1>h. ASSUME NEW l \in Loops, Callback(l), spc \in {"serves", "draining"}
      PROVE  /\ loop = l /\ queue[l] # <<>> /\ queue' = [queue EXCEPT ![l] = Tail(@)]
             /\ Len(queue[l]) \in Nat /\ 1 \in 1..Len(queue[l]) /\ Head(queue[l]) = queue[l][1]
             /\ Len(queue'[l]) = Len(queue[l]) - 1
             /\ \A i \in 1..Len(queue'[l]) : queue'[l][i] = queue[l][i + 1]
  <2>1. state[l] = "runs" /\ queue[l] # <<>> /\ queue' = [queue EXCEPT ![l] = Tail(@)]
    BY <1>h DEF Callback
  <2>2. loop = l
    <3>1. \A i \in 1..Len(queue[l]) : queue[l][i].do # "stop"
      BY <1>h DEF LoopInv, BeforeStop, BeforeClose
    <3>2. queue[l] \in Seq(Jobs)
      BY <1>t DEF QueueType
    <3>3. ~Posted(l, "stop")
      BY <3>1, <3>2, LenProperties DEF Posted
    <3> QED
      BY <2>1, <3>3 DEF LoopInv
  <2>3. /\ Len(queue[l]) \in Nat /\ Len(queue[l]) >= 1 /\ Len(queue'[l]) = Len(queue[l]) - 1
        /\ \A i \in 1..Len(queue'[l]) : queue'[l][i] = queue[l][i + 1]
        /\ Head(queue[l]) = queue[l][1]
    BY <1>t, <2>1, TakeJob
  <2> QED
    BY <2>1, <2>2, <2>3
<1>1. ASSUME spc' = "serves"
      PROVE  /\ early' = {} /\ pending' = None
             /\ \A k \in Loops : \A i \in 1..Len(queue'[k]) : queue'[k][i].do # "drain"
  <2>0. spc = "serves" /\ ~ShutdownStarts
    <3>1. ShutdownStarts => spc' # "serves"
      BY DEF ShutdownStarts
    <3> QED
      BY <1>1, <3>1, MainMoves
  <2>1. early = {} /\ pending = None /\ \A k \in Loops : \A i \in 1..Len(queue[k]) : queue[k][i].do # "drain"
    BY <2>0 DEF EarlyInv
  <2>2. early' = {}
    BY <2>0, <2>1, EarlyStays
  <2>3. pending' = None
    BY <1>h, <2>0, <2>1, PendingMoves
  <2>4. ASSUME NEW k \in Loops, NEW i \in 1..Len(queue'[k]) PROVE queue'[k][i].do # "drain"
    BY <2>0, <2>1, NewKind
  <2> QED
    BY <2>2, <2>3, <2>4
<1>2. \A r \in early' : rec'[r] # "none"
  <2>1. ShutdownStarts => rec' = rec
    BY ShutdownLeaves DEF tasks
  <2> QED
    BY <1>m, <1>t, <2>1, EarlyStays DEF EarlyInv
<1>3. ASSUME spc' = "draining", pending' = None, NEW r \in early', NEW i \in 1..Len(queue'[loop']),
             rec'[r] = "posted", queue'[loop'][i].do = "drain"
      PROVE  \E j \in 1..(i - 1) : queue'[loop'][j] = Do("record", r, None)
  <2>1. CASE ShutdownStarts
    <3>1. /\ spc = "serves" /\ loop' = loop /\ r \in Records /\ rec' = rec
          /\ loop # None /\ Give(loop, Do("drain", None, None))
      BY <1>3, <2>1, ShutdownLeaves, EarlyStays, <1>t DEF ShutdownStarts, tasks
    <3>2. PICK l \in Loops : l = loop
      BY <1>t, <3>1
    <3>3. /\ Len(queue[l]) \in Nat /\ Len(queue'[l]) = Len(queue[l]) + 1
          /\ \A n \in 1..Len(queue[l]) : queue'[l][n] = queue[l][n]
      BY <1>t, <3>1, <3>2, GiveJob, JobsMade
    <3>4. \A n \in 1..Len(queue[l]) : queue[l][n].do # "drain"
      BY <3>1 DEF EarlyInv
    <3>5. i = Len(queue[l]) + 1
      BY <1>3, <3>1, <3>2, <3>3, <3>4
    <3>6. on[r] = l
      BY <1>3, <1>l, <3>1, <3>2
    <3>7. PICK j \in 1..Len(queue[l]) : queue[l][j] = Do("record", r, None)
      BY <1>3, <3>1, <3>6 DEF JobInv
    <3> QED
      BY <3>1, <3>2, <3>3, <3>5, <3>7
  <2>2. CASE ~ShutdownStarts
    <3>1. /\ spc = "draining" /\ r \in early /\ r \in Records /\ pending = None
      <4>1. spc = "draining"
        BY <1>3, <2>2, MainMoves
      <4>2. r \in early /\ r \in Records
        BY <1>3, <1>t, <2>2, EarlyStays
      <4>3. \A l \in Loops : {q \in Records : on[q] = l /\ rec[q] \in OnLoop} # None
        BY <1>c
      <4>4. pending = None
        BY <1>3, <4>3, PendingMoves
      <4> QED
        BY <4>1, <4>2, <4>4
    <3>2. loop \in Loops /\ loop' = loop
      <4>1. loop # None /\ ~Forget
        BY <3>1 DEF LoopInv, Forget
      <4> QED
        BY <1>t, <4>1, LoopStays
    <3>3. PICK l \in Loops : l = loop
      BY <3>2
    <3>4. rec[r] = "posted"
      BY <1>3, <3>1, RecordMoves DEF EarlyInv
    <3>5. \A n \in 1..Len(queue[l]) : queue[l][n].do = "drain" =>
            \E j \in 1..(n - 1) : queue[l][j] = Do("record", r, None)
      BY <3>1, <3>3, <3>4 DEF EarlyInv
    <3>6. CASE Callback(l)
      <4>1. i + 1 \in 1..Len(queue[l]) /\ queue[l][i + 1].do = "drain" /\ i \in Nat
        BY <1>3, <1>h, <3>1, <3>2, <3>3, <3>6
      <4>2. PICK j \in 1..i : queue[l][j] = Do("record", r, None)
        BY <3>5, <4>1
      <4>3. j # 1
        <5>1. Head(queue[l]) # Do("record", r, None)
          <6>1. Do("record", r, None).do = "record" /\ Do("record", r, None).rec = r
            BY DEF Do
          <6>2. Head(queue[l]) = Do("record", r, None) => rec'[r] = "task"
            BY <1>t, <3>1, <3>6, <6>1 DEF Callback, Set
          <6> QED
            BY <1>3, <6>2
        <5> QED
          BY <1>h, <3>1, <3>6, <4>2, <5>1
      <4>4. j - 1 \in 1..(i - 1) /\ j - 1 \in 1..Len(queue'[l]) /\ (j - 1) + 1 = j
        BY <1>3, <1>h, <3>1, <3>2, <3>3, <3>6, <4>1, <4>2, <4>3
      <4>5. queue'[l][j - 1] = queue[l][j]
        BY <1>h, <3>1, <3>6, <4>4
      <4> QED
        BY <3>2, <3>3, <4>2, <4>4, <4>5
    <3>7. CASE ~Callback(l)
      <4>1. /\ \A n \in 1..Len(queue[l]) : n \in 1..Len(queue'[l]) /\ queue'[l][n] = queue[l][n]
            /\ \A n \in 1..Len(queue'[l]) : n \in 1..Len(queue[l]) \/ queue'[l][n].do = "record"
        <5>1. queue' = queue \/ \E k \in Loops, b \in Jobs : b.do = "record" /\ Give(k, b)
          <6>1. ASSUME NEW c \in Calls, Post(c), queue' # queue 
                PROVE  \E k \in Loops, b \in Jobs : b.do = "record" /\ Give(k, b)
            <7>1. mine[c] \in Loops /\ <<c, sink[c]>> \in Records
              BY <6>1 DEF Post, ThreadInv, Types, TypeOK, Records
            <7>3. Do("record", <<c, sink[c]>>, None).do = "record"
              BY DEF Do
            <7>2. Give(mine[c], Do("record", <<c, sink[c]>>, None))
              BY <6>1 DEF Post
            <7> QED
              BY <7>1, <7>2, <7>3, JobsMade
          <6>2. ASSUME NEW c \in Calls, Thread(c) 
                PROVE  queue' = queue \/ \E k \in Loops, b \in Jobs : b.do = "record" /\ Give(k, b)
            BY <6>1, <6>2, ThreadLeaves
          <6>3. ASSUME NEW k \in Loops, LoopStep(k) PROVE queue' = queue
            <7>1. ~Callback(k)
              BY <1>h, <3>1, <3>3, <3>7
            <7> QED
              BY <6>3, <7>1 DEF LoopStep, DrainEnds, DrainExpires
          <6>4. Shutdown => queue' = queue
            BY <3>1 DEF Shutdown, DrainGivenUp, DrainConn, CloseClient, StopLoop, Join, Forget, ProcessExits
          <6>5. UNCHANGED vars => queue' = queue
            BY DEF vars
          <6> QED
            BY <2>2, <6>2, <6>3, <6>4, <6>5, TaskLeaves DEF Next
        <5>2. CASE queue' = queue
          BY <5>2
        <5>3. ASSUME NEW k \in Loops, NEW b \in Jobs, b.do = "record", Give(k, b)
              PROVE  /\ \A n \in 1..Len(queue[l]) : n \in 1..Len(queue'[l]) /\ queue'[l][n] = queue[l][n]
                     /\ \A n \in 1..Len(queue'[l]) : n \in 1..Len(queue[l]) \/ queue'[l][n].do = "record"
          <6>1. CASE k = l
            BY <1>t, <5>3, <6>1, GiveJob
          <6>2. CASE k # l
            <7>1. queue'[l] = queue[l]
              BY <1>t, <5>3, <6>2, GiveJob
            <7> QED
              BY <7>1
          <6> QED
            BY <6>1, <6>2
        <5> QED
          BY <5>1, <5>2, <5>3
      <4>2. i \in 1..Len(queue[l]) /\ queue[l][i].do = "drain"
        BY <1>3, <3>2, <3>3, <4>1
      <4>3. PICK j \in 1..(i - 1) : queue[l][j] = Do("record", r, None)
        BY <3>5, <4>2
      <4>4. j \in 1..Len(queue[l])
        BY <1>t, <4>2, LenProperties DEF QueueType
      <4> QED
        BY <3>2, <3>3, <4>1, <4>3, <4>4
    <3> QED
      BY <3>6, <3>7
  <2> QED
    BY <2>1, <2>2
<1>4. ASSUME spc' = "draining", pending' # None, NEW r \in early'
      PROVE  rec'[r] \in {"written", "failed"} \/ (r \in pending' /\ rec'[r] \in OnLoop)
  <2>0. spc = "draining" /\ early' = early /\ r \in early /\ r \in Records
    <3>1. ~ShutdownStarts
      <4>1. ShutdownStarts => pending' = None
        BY ShutdownLeaves DEF ShutdownStarts, EarlyInv
      <4> QED
        BY <1>4, <4>1
    <3> QED
      BY <1>4, <1>t, <3>1, MainMoves, EarlyStays
  <2>1. rec[r] # "none" /\ rec[r] # "void" /\ rec'[r] # "void"
    BY <1>4, <2>0 DEF EarlyInv, SinkInv
  <2>2. CASE pending' = pending
    <3>1. rec[r] \in {"written", "failed"} \/ (r \in pending /\ rec[r] \in OnLoop)
      BY <1>4, <2>0, <2>2 DEF EarlyInv
    <3> QED
      BY <1>o, <1>w, <2>0, <2>1, <2>2, <3>1 DEF Over
  <2>3. CASE \E l \in Loops : /\ Callback(l) /\ Head(queue[l]).do = "drain"
                              /\ pending' = {q \in Records : on[q] = l /\ rec[q] \in OnLoop}
                              /\ rec' = rec
    <3>1. PICK l \in Loops : /\ Callback(l) /\ Head(queue[l]).do = "drain"
                             /\ pending' = {q \in Records : on[q] = l /\ rec[q] \in OnLoop}
                             /\ rec' = rec
      BY <2>3
    <3>2. loop = l /\ 1 \in 1..Len(queue[l]) /\ queue[l][1].do = "drain"
      BY <1>h, <2>0, <3>1
    <3>3. rec[r] # "posted"
      <4>1. CASE pending = None
        <5>1. 1..(1 - 1) = {}
          OBVIOUS
        <5> QED
          BY <2>0, <3>2, <4>1, <5>1 DEF EarlyInv
      <4>2. CASE pending # None
        BY <2>0, <4>2 DEF EarlyInv, OnLoop
      <4> QED
        BY <4>1, <4>2
    <3>4. rec[r] \in OnLoop \cup {"written", "failed"}
      BY <1>t, <2>0, <2>1, <3>3 DEF RecordStates, OnLoop
    <3> QED
      BY <1>l, <2>0, <3>1, <3>2, <3>4
  <2> QED
    BY <2>2, <2>3, PendingMoves
<1>5. ASSUME spc' \notin {"serves", "draining"}, ~expired', NEW r \in early'
      PROVE  rec'[r] \in {"written", "failed"}
  <2>1. CASE ShutdownStarts
    <3>1. /\ spc = "serves" /\ loop = None /\ rec' = rec /\ r \in Records /\ rec[r] # "none"
      BY <1>5, <2>1, ShutdownLeaves, EarlyStays, <1>t DEF ShutdownStarts, tasks, EarlyInv
    <3>2. rec[r] # "void" /\ rec[r] \notin OnLoop \cup {"posted"}
      BY <1>l, <3>1 DEF SinkInv
    <3> QED
      BY <1>t, <3>1, <3>2 DEF RecordStates, OnLoop
  <2>2. CASE ~ShutdownStarts
    <3>1. r \in early /\ r \in Records /\ ~expired /\ ~DrainGivenUp /\ \A l \in Loops : ~DrainExpires(l)
      <4>1. DrainGivenUp \/ (\E l \in Loops : DrainExpires(l)) => expired'
        BY DEF DrainExpires, DrainGivenUp
      <4>2. r \in early
        BY <1>5, <2>2, EarlyStays
      <4>3. expired' = expired \/ expired' = TRUE
        BY EarlyStays
      <4>4. ~expired
        BY <1>5, <4>3
      <4> QED
        BY <1>5, <1>t, <4>1, <4>2, <4>4
    <3>2. CASE spc \notin {"serves", "draining"}
      BY <1>w, <3>1, <3>2 DEF EarlyInv, EarlyRecordsReachSinks
    <3>3. CASE spc \in {"serves", "draining"}
      <4>1. spc = "draining" /\ \E l \in Loops : DrainEnds(l)
        BY <1>5, <2>2, <3>1, <3>3, MainMoves
      <4>2. pending # None /\ (\A q \in pending : rec[q] \in Over) /\ rec' = rec
        BY <4>1 DEF DrainEnds, tasks
      <4> QED
        BY <3>1, <4>1, <4>2 DEF EarlyInv, Over, OnLoop
    <3> QED
      BY <3>2, <3>3
  <2> QED
    BY <2>1, <2>2
<1> QED
  BY <1>1, <1>2, <1>3, <1>4, <1>5 DEF EarlyInv, EarlyRecordsReachSinks

\* The loop puts a connection to the drain, or stops with the drain unfinished.
ToDrain(l) ==
  /\ Callback(l) /\ Head(queue[l]).do = "close" /\ drops' = drops
  /\ conn' = [conn EXCEPT ![Head(queue[l]).conn] = IF @ = "up" THEN "draining" ELSE @]
LeavesDrain(l) ==
  /\ Callback(l) /\ Head(queue[l]).do = "stop" /\ drops' = drops
  /\ conn' = [k \in Conns |-> IF conn[k] = "draining" THEN "left" ELSE conn[k]]

\* What a step does to the connections.
LEMMA ConnMoves ==
  ASSUME Types, [Next]_vars
  PROVE  \/ conn' = conn /\ drops' = drops
         \/ \E r \in Records : ConnectEnds(r)
         \/ \E k \in Conns : Drop(k) \/ Reconnect(k) \/ Drained(k)
         \/ \E l \in Loops : ToDrain(l) \/ LeavesDrain(l)
<1>1. ASSUME NEW c \in Calls, Thread(c) PROVE conn' = conn /\ drops' = drops
  BY <1>1, ThreadLeaves DEF sinkState
<1>2. ASSUME NEW l \in Loops, Callback(l)
      PROVE  (conn' = conn /\ drops' = drops) \/ ToDrain(l) \/ LeavesDrain(l)
  BY <1>2 DEF Callback, ToDrain, LeavesDrain
<1>3. ASSUME NEW l \in Loops, DrainEnds(l) \/ DrainExpires(l) PROVE conn' = conn /\ drops' = drops
  BY <1>3 DEF DrainEnds, DrainExpires, sinkState
<1>4. ASSUME NEW r \in Records, TaskStep(r) \/ TakeUp(r) \/ WriteEnds(r) PROVE conn' = conn /\ drops' = drops
  BY <1>4 DEF TaskStep, HandOver, Publish, Connect, TakeUp, WriteEnds, sinkState
<1>5. UNCHANGED vars => conn' = conn /\ drops' = drops
  BY DEF vars, sinkState
<1> QED
  BY <1>1, <1>2, <1>3, <1>4, <1>5, ShutdownLeaves DEF Next, LoopStep, World

\* _nats_conn is set by the task that connects, and forgotten by shutdown().
LEMMA NatsConnMoves ==
  ASSUME [Next]_vars
  PROVE  \/ natsConn' = natsConn
         \/ \E r \in Records : ConnectEnds(r)
         \/ DrainConn
<1>1. ASSUME NEW c \in Calls, Thread(c) PROVE natsConn' = natsConn
  BY <1>1, ThreadLeaves DEF sinkState
<1>2. ASSUME NEW r \in Records, TaskStep(r) \/ TakeUp(r) \/ WriteEnds(r) PROVE natsConn' = natsConn
  BY <1>2 DEF TaskStep, HandOver, Publish, Connect, TakeUp, WriteEnds, sinkState
<1>3. ASSUME NEW k \in Conns, Drop(k) \/ Reconnect(k) \/ Drained(k) PROVE natsConn' = natsConn
  BY <1>3 DEF Drop, Reconnect, Drained
<1>4. ShutdownStarts \/ DrainGivenUp \/ CloseClient \/ StopLoop \/ Join \/ Forget \/ ProcessExits
        \/ UNCHANGED vars => natsConn' = natsConn
  BY DEF ShutdownStarts, DrainGivenUp, CloseClient, StopLoop, Join, Forget, ProcessExits, vars, sinkState
<1> QED
  BY <1>1, <1>2, <1>3, <1>4, LoopLeaves DEF Next, World, Shutdown

\* _nats_lock is taken by the task that is about to connect.
LEMMA NatsLockMoves ==
  ASSUME [Next]_vars
  PROVE  natsLock' \in {natsLock, None} \/ \E r \in Records : Connect(r)
<1>1. ASSUME NEW c \in Calls, Thread(c) PROVE natsLock' = natsLock
  BY <1>1, ThreadLeaves DEF sinkState
<1>2. ASSUME NEW r \in Records, TaskStep(r) \/ TakeUp(r) \/ WriteEnds(r) \/ ConnectEnds(r)
      PROVE  natsLock' \in {natsLock, None} \/ Connect(r)
  BY <1>2 DEF TaskStep, HandOver, Publish, TakeUp, WriteEnds, ConnectEnds, sinkState
<1>3. ASSUME NEW k \in Conns, Drop(k) \/ Reconnect(k) \/ Drained(k) PROVE natsLock' = natsLock
  BY <1>3 DEF Drop, Reconnect, Drained
<1>4. ASSUME NEW l \in Loops, LoopStep(l) PROVE natsLock' \in {natsLock, None}
  BY <1>4 DEF LoopStep, Callback, DrainEnds, DrainExpires, sinkState
<1>5. UNCHANGED vars => natsLock' = natsLock
  BY DEF vars, sinkState
<1> QED
  BY <1>1, <1>2, <1>3, <1>4, <1>5, ShutdownLeaves DEF Next, World

\* Connections are made one by one, each by the task that holds _nats_lock.
LEMMA Connecting ==
  ASSUME Types, LoopInv, SinkInv, NEW r \in Records, ConnectEnds(r)
  PROVE  /\ natsLock = r /\ natsLock' = None /\ UNCHANGED <<drops, spc, loop>>
         /\ spc \in BeforeStop => loop # None
         /\ \/ UNCHANGED <<conn, natsConn>>
            \/ \E k \in Conns : /\ k \notin Made /\ Made' = Made \cup {k} /\ natsConn' = k
                                /\ conn' = [conn EXCEPT ![k] = "up"]
<1>1. /\ rec[r] = "connecting" /\ Runs(r) /\ natsLock' = None /\ UNCHANGED <<drops, spc, loop>>
  BY DEF ConnectEnds, main
<1>2. natsLock = r
  BY <1>1 DEF SinkInv
<1>3. spc \in BeforeStop => loop # None
  BY <1>1 DEF Runs, LoopInv
<1>4. ASSUME NEW k \in Conns, conn[k] = "unmade", conn' = [conn EXCEPT ![k] = "up"]
      PROVE  k \notin Made /\ Made' = Made \cup {k}
  <2>1. conn'[k] = "up" /\ \A j \in Conns \ {k} : conn'[j] = conn[j]
    BY <1>4 DEF Types, TypeOK
  <2> QED
    BY <1>4, <2>1 DEF Made
<1>5. \/ UNCHANGED <<conn, natsConn>>
      \/ \E k \in Conns : conn[k] = "unmade" /\ natsConn' = k /\ conn' = [conn EXCEPT ![k] = "up"]
  BY DEF ConnectEnds
<1> QED
  BY <1>1, <1>2, <1>3, <1>4, <1>5

\* A connection is made only where there was none, or for one that dropped.
LEMMA StepMade ==
  ASSUME Types, Types', ThreadInv, LoopInv, SinkInv, MadeInv, [Next]_vars
  PROVE  MadeInv'
<1>c. None \notin Conns /\ None \notin Records
  BY ConstantsOK
<1>t. /\ conn \in [Conns -> ConnStates] /\ natsConn \in Conns \cup {None}
      /\ natsLock \in Nats \cup {None} /\ drops \in 0..Drops /\ Drops \in Nat /\ QueueType
  BY ConstantsOK DEF Types, TypeOK
<1>d. Dropped \in Nat
  BY <1>t DEF Dropped
<1>m. IsFiniteSet(Made) /\ Cardinality(Made) \in Nat
  BY FS_CardinalityType DEF MadeInv
<1>b. spc' \in BeforeClose => spc \in BeforeClose /\ ~DrainConn
  BY MainMoves DEF BeforeClose, DrainConn
<1>1. ASSUME spc' \in BeforeClose, NEW k \in Loops, NEW i \in 1..Len(queue'[k])
      PROVE  queue'[k][i].do # "close"
  <2>1. \A j \in 1..Len(queue[k]) : queue[k][j].do # "close"
    BY <1>1, <1>b DEF MadeInv
  <2> QED
    BY <1>1, <1>b, <2>1, NewKind
<1>2. ASSUME spc' \in BeforeStop, natsConn' # None PROVE loop' # None
  <2>1. spc \in BeforeStop /\ ~Forget
    BY <1>2, MainMoves DEF BeforeStop, BeforeClose, Forget
  <2>2. CASE \E r \in Records : ConnectEnds(r)
    BY <2>1, <2>2, Connecting
  <2>3. CASE natsConn' = natsConn
    BY <1>2, <2>1, <2>3, LoopStays DEF MadeInv
  <2>4. CASE DrainConn
    BY <1>2, <2>4 DEF DrainConn
  <2> QED
    BY <2>2, <2>3, <2>4, NatsConnMoves
<1> DEFINE Held == natsConn # None /\ (conn[natsConn] # "up" \/ natsLock # None)
           Count == /\ IsFiniteSet(Made)
                    /\ natsConn # None => natsConn \in Made
                    /\ spc \in BeforeClose =>
                         /\ natsConn = None => Made = {}
                         /\ natsConn # None => Cardinality(Made) <= 1 + Dropped
                         /\ Held => Cardinality(Made) <= Dropped
<1>3. Count
  BY DEF MadeInv
<1>4. ASSUME NEW r \in Records, ConnectEnds(r) PROVE Count'
  <2>1. /\ natsLock = r /\ natsLock # None /\ natsLock' = None /\ spc' = spc /\ Dropped' = Dropped
    BY <1>c, <1>4, Connecting DEF Dropped
  <2>2. CASE UNCHANGED <<conn, natsConn>>
    <3>1. Made' = Made
      BY <2>2 DEF Made
    <3> QED
      BY <1>3, <2>1, <2>2, <3>1
  <2>3. ASSUME NEW k \in Conns, k \notin Made, Made' = Made \cup {k}, natsConn' = k,
               conn' = [conn EXCEPT ![k] = "up"]
        PROVE  Count'
    <3>1. IsFiniteSet(Made') /\ Cardinality(Made') = Cardinality(Made) + 1
      BY <1>m, <2>3, FS_AddElement
    <3>2. spc \in BeforeClose => Cardinality(Made) <= Dropped
      <4>1. CASE natsConn = None
        <5>1. Cardinality({}) = 0
          BY FS_EmptySet
        <5> QED
          BY <1>3, <1>d, <4>1, <5>1
      <4>2. CASE natsConn # None
        BY <1>3, <2>1, <4>2
      <4> QED
        BY <4>1, <4>2
    <3>3. conn'[k] = "up" /\ k # None /\ k \in Made'
      BY <1>c, <1>t, <2>3
    <3>4. spc' \in BeforeClose => Cardinality(Made') <= 1 + Dropped'
      BY <1>d, <1>m, <2>1, <3>1, <3>2
    <3>5. ~Held'
      BY <2>1, <2>3, <3>3
    <3> QED
      BY <2>3, <3>1, <3>3, <3>4, <3>5
  <2> QED
    BY <1>4, <2>2, <2>3, Connecting
<1>5. ASSUME NEW k \in Conns, Drop(k) PROVE Count'
  <2>1. /\ conn[k] = "up" /\ conn' = [conn EXCEPT ![k] = "down"] /\ drops' = drops - 1
        /\ UNCHANGED <<natsConn, natsLock, spc>>
    BY <1>5 DEF Drop, main
  <2>2. Made' = Made
    BY <1>t, <2>1 DEF Made
  <2>3. Dropped' = Dropped + 1
    BY <1>t, <2>1 DEF Dropped
  <2>4. UNCHANGED <<natsConn, spc>> /\ (Held' => natsConn # None)
    BY <2>1
  <2>5. spc \in BeforeClose /\ natsConn # None => Cardinality(Made) <= Dropped'
    BY <1>3, <1>d, <1>m, <2>3
  <2>6. Cardinality(Made) <= Dropped' => Cardinality(Made) <= 1 + Dropped'
    BY <1>d, <1>m, <2>3
  <2> HIDE DEF Held
  <2> QED
    BY <1>3, <2>2, <2>4, <2>5, <2>6
<1>6. ASSUME NEW k \in Conns, Reconnect(k) PROVE Count'
  <2>1. /\ conn[k] = "down" /\ \E v \in {"up", "closed"} : conn' = [conn EXCEPT ![k] = v]
        /\ UNCHANGED <<natsConn, natsLock, spc, drops>>
    BY <1>6 DEF Reconnect, main
  <2>2. Made' = Made
    BY <1>t, <2>1 DEF Made
  <2>3. Dropped' = Dropped
    BY <2>1 DEF Dropped
  <2>6. Held' => Held
    BY <1>t, <2>1
  <2>4. spc \in BeforeClose /\ Held' => Cardinality(Made) <= Dropped
    BY <1>3, <2>6
  <2>5. UNCHANGED <<natsConn, spc>>
    BY <2>1
  <2> HIDE DEF Held
  <2> QED
    BY <1>3, <2>2, <2>3, <2>4, <2>5
<1>7. ASSUME NEW l \in Loops, ToDrain(l) \/ LeavesDrain(l) PROVE Count'
  <2>1. /\ queue[l] # <<>> /\ queue' = [queue EXCEPT ![l] = Tail(@)] /\ UNCHANGED natsConn
        /\ Head(queue[l]).do \in {"close", "stop"}
    BY <1>7 DEF ToDrain, LeavesDrain, Callback
  <2>2. 1 \in 1..Len(queue[l]) /\ Head(queue[l]) = queue[l][1]
    BY <1>t, <2>1, TakeJob
  <2>3. spc \notin BeforeClose
    BY <2>1, <2>2 DEF MadeInv, LoopInv, BeforeStop
  <2>4. Made' = Made
    BY <1>7, <1>t DEF ToDrain, LeavesDrain, Made
  <2> QED
    BY <1>3, <1>b, <2>1, <2>3, <2>4
<1>8. ASSUME conn' = conn, drops' = drops, natsConn' = natsConn \/ DrainConn PROVE Count'
  <2>1. Made' = Made /\ Dropped' = Dropped
    BY <1>8 DEF Made, Dropped
  <2>2. CASE DrainConn
    BY <1>3, <1>b, <2>1, <2>2 DEF DrainConn
  <2>3. CASE natsConn' = natsConn
    <3>1. spc' \in BeforeClose /\ Held' => Cardinality(Made) <= Dropped
      <4>1. CASE \E r \in Records : Connect(r)
        <5>1. natsConn = None \/ conn[natsConn] # "up"
          BY <4>1 DEF Connect, Connected
        <5> QED
          BY <1>3, <1>8, <1>b, <2>3, <5>1
      <4>2. CASE natsLock' \in {natsLock, None}
        BY <1>3, <1>8, <1>b, <2>3, <4>2
      <4> QED
        BY <4>1, <4>2, NatsLockMoves
    <3> HIDE DEF Held
    <3> QED
      BY <1>3, <1>b, <2>1, <2>3, <3>1
  <2> QED
    BY <1>8, <2>2, <2>3
<1>9. ASSUME NEW k \in Conns, Drained(k) PROVE Count'
  <2>1. /\ conn[k] = "draining" /\ \E v \in {"closed", "left"} : conn' = [conn EXCEPT ![k] = v]
        /\ UNCHANGED <<natsConn, natsLock, spc, drops>>
    BY <1>9 DEF Drained, main
  <2>2. Made' = Made /\ Dropped' = Dropped
    BY <1>t, <2>1 DEF Made, Dropped
  <2>3. Held' => Held
    BY <1>t, <2>1
  <2>4. spc \in BeforeClose /\ Held' => Cardinality(Made) <= Dropped
    BY <1>3, <2>3
  <2>5. UNCHANGED <<natsConn, spc>>
    BY <2>1
  <2> HIDE DEF Held
  <2> QED
    BY <1>3, <2>2, <2>4, <2>5
<1>10. Count'
  BY <1>4, <1>5, <1>6, <1>7, <1>8, <1>9, ConnMoves, NatsConnMoves
<1> QED
  BY <1>1, <1>2, <1>10 DEF MadeInv

\* What a step does to the loops' queues: only DrainConn gives a connection to the drain.
LEMMA QueueMoves ==
  ASSUME Types, ThreadInv, [Next]_vars
  PROVE  \/ queue' = queue
         \/ \E l \in Loops : queue[l] # <<>> /\ queue' = [queue EXCEPT ![l] = Tail(@)] /\ Callback(l)
         \/ \E l \in Loops, b \in Jobs : Give(l, b) /\ (b.do = "close" => DrainConn)
<1>1. ASSUME NEW c \in Calls, Post(c), queue' # queue
      PROVE  \E l \in Loops, b \in Jobs : Give(l, b) /\ b.do # "close"
  <2>1. mine[c] \in Loops /\ <<c, sink[c]>> \in Records /\ Give(mine[c], Do("record", <<c, sink[c]>>, None))
    BY <1>1 DEF Post, ThreadInv, Types, TypeOK, Records
  <2>2. Do("record", <<c, sink[c]>>, None).do # "close"
    BY DEF Do
  <2> QED
    BY <2>1, <2>2, JobsMade
<1>2. ASSUME ShutdownStarts \/ StopLoop, queue' # queue
      PROVE  \E l \in Loops, b \in Jobs : Give(l, b) /\ b.do # "close"
  <2>1. loop \in Loops /\ \E w \in {"drain", "stop"} : Give(loop, Do(w, None, None))
    BY <1>2 DEF ShutdownStarts, StopLoop, Types, TypeOK
  <2>2. \A w \in {"drain", "stop"} : Do(w, None, None).do # "close"
    BY DEF Do
  <2> QED
    BY <2>1, <2>2, JobsMade
<1>3. ASSUME DrainConn, queue' # queue PROVE \E l \in Loops, b \in Jobs : Give(l, b)
  <2>1. loop \in Loops /\ natsConn \in Conns /\ Give(loop, Do("close", None, natsConn))
    BY <1>3 DEF DrainConn, Types, TypeOK
  <2> QED
    BY <2>1, JobsMade
<1>4. ASSUME NEW c \in Calls, Thread(c) PROVE queue' = queue \/ Post(c)
  BY <1>4, ThreadLeaves
<1>5. ASSUME NEW l \in Loops, LoopStep(l)
      PROVE  queue' = queue \/ (queue[l] # <<>> /\ queue' = [queue EXCEPT ![l] = Tail(@)] /\ Callback(l))
  BY <1>5 DEF LoopStep, Callback, DrainEnds, DrainExpires
<1>6. DrainGivenUp \/ CloseClient \/ Join \/ Forget \/ ProcessExits \/ UNCHANGED vars => queue' = queue
  BY DEF DrainGivenUp, CloseClient, Join, Forget, ProcessExits, vars
<1> QED
  BY <1>1, <1>2, <1>3, <1>4, <1>5, <1>6, TaskLeaves DEF Next, Shutdown

\* shutdown() puts a connection to the drain once: it forgets which it was.
LEMMA StepGiven ==
  ASSUME Types, Types', ThreadInv, LoopInv, SinkInv, MadeInv, MadeInv', GivenInv, [Next]_vars
  PROVE  GivenInv'
<1>t. conn \in [Conns -> ConnStates] /\ QueueType /\ \A l \in Loops : Len(queue[l]) \in Nat
  BY LenProperties DEF Types, TypeOK, QueueType
\* Only the job of a connection puts it to the drain.
<1>1. \/ Given' \subseteq Given
      \/ \E l \in Loops : ToDrain(l) /\ Given' \subseteq Given \cup {Head(queue[l]).conn}
  <2>1. CASE conn' = conn
    BY <2>1 DEF Given
  <2>2. CASE \E r \in Records : ConnectEnds(r)
    <3>1. PICK r \in Records : ConnectEnds(r)
      BY <2>2
    <3>2. conn' = conn \/ \E k \in Conns : conn' = [conn EXCEPT ![k] = "up"]
      BY <3>1 DEF ConnectEnds
    <3> QED
      BY <1>t, <3>2 DEF Given
  <2>3. CASE \E k \in Conns : Drop(k) \/ Reconnect(k)
    <3>1. \E k \in Conns, v \in {"up", "down", "closed"} : conn' = [conn EXCEPT ![k] = v]
      BY <2>3 DEF Drop, Reconnect
    <3> QED
      BY <1>t, <3>1 DEF Given
  <2>4. CASE \E k \in Conns : Drained(k)
    <3>1. \E k \in Conns, v \in {"closed", "left"} : conn[k] = "draining" /\ conn' = [conn EXCEPT ![k] = v]
      BY <2>4 DEF Drained
    <3> QED
      BY <1>t, <3>1 DEF Given
  <2>5. CASE \E l \in Loops : LeavesDrain(l)
    BY <2>5 DEF LeavesDrain, Given
  <2>6. ASSUME NEW l \in Loops, ToDrain(l) PROVE Given' \subseteq Given \cup {Head(queue[l]).conn}
    <3>1. \A k \in Conns : k # Head(queue[l]).conn => conn'[k] = conn[k]
      BY <1>t, <2>6 DEF ToDrain
    <3> QED
      BY <3>1 DEF Given
  <2> QED
    BY <2>1, <2>2, <2>3, <2>4, <2>5, <2>6, ConnMoves
<1>2. ASSUME NEW l \in Loops, ToDrain(l)
      PROVE  /\ Given = {} /\ spc \notin BeforeClose /\ spc' = spc /\ Head(queue[l]).conn \in Conns
             /\ \A k \in Loops : \A j \in 1..Len(queue'[k]) : queue'[k][j].do # "close"
  <2>1. queue[l] # <<>> /\ queue' = [queue EXCEPT ![l] = Tail(@)] /\ Head(queue[l]).do = "close" /\ spc' = spc
    BY <1>2 DEF ToDrain, Callback
  <2>2. /\ Head(queue[l]) = queue[l][1] /\ Head(queue[l]) \in Jobs /\ Len(queue[l]) >= 1
        /\ Len(queue'[l]) = Len(queue[l]) - 1
        /\ \A i \in 1..Len(queue'[l]) : queue'[l][i] = queue[l][i + 1]
        /\ \A k \in Loops \ {l} : queue'[k] = queue[k]
    BY <1>t, <2>1, TakeJob
  <2>3. 1 \in 1..Len(queue[l]) /\ queue[l][1].do = "close"
    BY <1>t, <2>1, <2>2
  <2>4. /\ Given = {}
        /\ \A k \in Loops : \A j \in 1..Len(queue[k]) : queue[k][j].do = "close" => k = l /\ j = 1
    BY <2>3 DEF GivenInv
  <2>5. spc \notin BeforeClose
    BY <2>3 DEF MadeInv
  <2>6. ASSUME NEW k \in Loops, NEW j \in 1..Len(queue'[k]) PROVE queue'[k][j].do # "close"
    <3>1. CASE k = l
      <4>1. j + 1 \in 1..Len(queue[l]) /\ j + 1 # 1
        BY <1>t, <2>2, <3>1
      <4> QED
        BY <2>2, <2>4, <3>1, <4>1
    <3>2. CASE k # l
      BY <2>2, <2>4, <3>2
    <3> QED
      BY <3>1, <3>2
  <2> QED
    BY <2>1, <2>2, <2>4, <2>5, <2>6, JobKinds
<1>3. (\A j, k \in Given' : j = k) /\ (spc' \in BeforeClose => Given' = {})
  <2>1. CASE Given' \subseteq Given
    <3>1. spc' \in BeforeClose => spc \in BeforeClose
      BY MainMoves DEF BeforeClose
    <3> QED
      BY <2>1, <3>1 DEF GivenInv
  <2>2. CASE \E l \in Loops : ToDrain(l) /\ Given' \subseteq Given \cup {Head(queue[l]).conn}
    BY <1>2, <2>2
  <2> QED
    BY <1>1, <2>1, <2>2
<1> DEFINE Closes(l, i) == l \in Loops /\ i \in 1..Len(queue[l]) /\ queue[l][i].do = "close"
<1>g. \A l, i : Closes(l, i) => Given = {} /\ \A k, j : Closes(k, j) => k = l /\ j = i
  BY DEF GivenInv
<1>4. ASSUME NEW l, NEW i, Closes(l, i)' 
      PROVE  Given' = {} /\ \A k, j : Closes(k, j)' => k = l /\ j = i
  <2>0. Given' \subseteq Given
    BY <1>1, <1>2, <1>4
  <2>1. CASE queue' = queue
    BY <1>4, <1>g, <2>0, <2>1
  <2>2. ASSUME NEW m \in Loops, queue[m] # <<>>, queue' = [queue EXCEPT ![m] = Tail(@)]
        PROVE  Given' = {} /\ \A k, j : Closes(k, j)' => k = l /\ j = i
    <3>1. /\ Len(queue'[m]) = Len(queue[m]) - 1
          /\ \A n \in 1..Len(queue'[m]) : queue'[m][n] = queue[m][n + 1]
          /\ \A k \in Loops \ {m} : queue'[k] = queue[k]
      BY <1>t, <2>2, TakeJob
    <3>2. ASSUME NEW k, NEW j, Closes(k, j)' PROVE Closes(k, IF k = m THEN j + 1 ELSE j) /\ j \in Nat
      <4>1. CASE k = m
        <5>1. j \in 1..Len(queue'[m]) /\ queue'[m][j].do = "close"
          BY <3>2, <4>1
        <5>2. j + 1 \in 1..Len(queue[m]) /\ queue[m][j + 1].do = "close"
          BY <1>t, <3>1, <5>1
        <5> QED
          BY <2>2, <4>1, <5>1, <5>2
      <4>2. CASE k # m
        BY <3>1, <3>2, <4>2
      <4> QED
        BY <4>1, <4>2
    <3> HIDE DEF Closes
    <3>3. ASSUME NEW k, NEW j, Closes(k, j)' PROVE k = l /\ j = i
      <4>1. /\ Closes(k, IF k = m THEN j + 1 ELSE j) /\ j \in Nat
            /\ Closes(l, IF l = m THEN i + 1 ELSE i) /\ i \in Nat
        BY <1>4, <3>2, <3>3
      <4>2. k = l /\ (IF k = m THEN j + 1 ELSE j) = (IF l = m THEN i + 1 ELSE i)
        BY <1>g, <4>1
      <4> QED
        BY <4>1, <4>2
    <3>4. Closes(l, IF l = m THEN i + 1 ELSE i)
      BY <1>4, <3>2
    <3>5. Given' = {}
      BY <1>g, <2>0, <3>4
    <3> QED
      BY <3>3, <3>5
  <2>3. ASSUME NEW m \in Loops, NEW b \in Jobs, Give(m, b), b.do = "close" => DrainConn
        PROVE  Given' = {} /\ \A k, j : Closes(k, j)' => k = l /\ j = i
    <3>1. /\ Len(queue'[m]) = Len(queue[m]) + 1
          /\ \A n \in 1..Len(queue[m]) : queue'[m][n] = queue[m][n]
          /\ queue'[m][Len(queue[m]) + 1] = b
          /\ \A k \in Loops \ {m} : queue'[k] = queue[k]
      BY <1>t, <2>3, GiveJob
    <3>2. ASSUME NEW k, NEW j, Closes(k, j)'
          PROVE  Closes(k, j) \/ (b.do = "close" /\ k = m /\ j = Len(queue[m]) + 1)
      <4>1. CASE k = m
        <5>1. j \in 1..(Len(queue[m]) + 1) /\ queue'[m][j].do = "close"
          BY <3>1, <3>2, <4>1
        <5>2. j \in 1..Len(queue[m]) \/ j = Len(queue[m]) + 1
          BY <1>t, <5>1
        <5> QED
          BY <2>3, <3>1, <4>1, <5>1, <5>2
      <4>2. CASE k # m
        BY <3>1, <3>2, <4>2
      <4> QED
        BY <4>1, <4>2
    <3>3. DrainConn => Given = {} /\ \A k, j : ~Closes(k, j)
      BY DEF DrainConn, MadeInv, GivenInv, BeforeClose
    <3> HIDE DEF Closes
    <3>4. CASE b.do = "close"
      BY <1>4, <2>0, <2>3, <3>2, <3>3, <3>4
    <3>5. CASE b.do # "close"
      BY <1>4, <1>g, <2>0, <3>2, <3>5
    <3> QED
      BY <3>4, <3>5
  <2> HIDE DEF Closes
  <2> QED
    BY <2>1, <2>2, <2>3, QueueMoves
<1>5. \A l \in Loops : \A i \in 1..Len(queue'[l]) : queue'[l][i].do = "close" =>
        /\ Given' = {}
        /\ \A k \in Loops : \A j \in 1..Len(queue'[k]) : queue'[k][j].do = "close" => k = l /\ j = i
  BY <1>4
<1> QED
  BY <1>3, <1>5 DEF GivenInv

\* If shutdown() was quiet, it was quiet before, and no task is left to connect.
LEMMA QuietStays ==
  ASSUME Types, ThreadInv, JobInv, EarlyInv, [Next]_vars, Quiet', spc' \notin {"serves", "draining"}
  PROVE  /\ ~ShutdownStarts => Quiet
         /\ ~ShutdownStarts /\ spc # "draining" => \A r \in Records : ~ConnectEnds(r)
<1>1. SUFFICES ASSUME ~ShutdownStarts
               PROVE  Quiet /\ (spc # "draining" => \A r \in Records : ~ConnectEnds(r))
  OBVIOUS
<1>2. early' = early
  BY <1>1, EarlyStays
<1>3. expired' = expired \/ expired' = TRUE
  BY EarlyStays
<1>4. ~expired
  BY <1>3 DEF Quiet
<1>5. early \subseteq {r \in Records : rec[r] # "none"}
  BY DEF EarlyInv, Types, TypeOK
<1>6. ASSUME NEW r \in Records, rec[r] # "none" PROVE r \in early
  <2>1. rec'[r] # "none"
    BY <1>6, RecordMoves
  <2> QED
    BY <1>2, <2>1 DEF Quiet
<1>7. Quiet
  <2>1. stalls' = stalls
    BY ThreadLeaves, TaskLeaves, LoopLeaves, ShutdownLeaves DEF Next, threads, vars
  <2> QED
    BY <1>4, <1>5, <1>6, <2>1 DEF Quiet
<1>8. ASSUME spc # "draining", NEW r \in Records, ConnectEnds(r) PROVE FALSE
  <2>1. rec[r] = "connecting" /\ spc' = spc
    BY <1>8 DEF ConnectEnds, main
  <2>2. rec[r] \in {"written", "failed"}
    BY <1>4, <1>6, <1>8, <2>1 DEF EarlyInv, EarlyRecordsReachSinks
  <2> QED
    BY <2>1, <2>2
<1> QED
  BY <1>7, <1>8

\* After a quiet drain nothing is opened any more; the connection that is up is closed.
LEMMA StepOpen ==
  ASSUME Types, Types', ThreadInv, LoopInv, LoopInv', JobInv, EarlyInv, MadeInv, OpenInv, [Next]_vars
  PROVE  OpenInv'
<1>c. None \notin Conns
  BY ConstantsOK
<1>t. /\ conn \in [Conns -> ConnStates] /\ natsConn \in Conns \cup {None}
      /\ loop \in Loops \cup {None} /\ drops \in 0..Drops /\ Drops \in Nat /\ QueueType
  BY ConstantsOK DEF Types, TypeOK
<1>d. Dropped \in Nat
  BY <1>t DEF Dropped
<1>f. /\ IsFiniteSet(Open) /\ Cardinality(Open) \in Nat /\ Cardinality(Open) <= Cardinality(Made)
      /\ Cardinality(Made) \in Nat
  <2>1. Open \subseteq Made
    BY DEF Open, Made
  <2>2. IsFiniteSet(Made)
    BY DEF MadeInv
  <2> QED
    BY <2>1, <2>2, FS_Subset, FS_CardinalityType
<1>r. ASSUME NEW S, S \subseteq Open
      PROVE  IsFiniteSet(S) /\ Cardinality(S) \in Nat /\ Cardinality(S) <= Cardinality(Open)
  BY <1>f, <1>r, FS_Subset, FS_CardinalityType
<1> DEFINE After == {"closed", "joining", "forgets", "exits", "gone"}
\* Nothing is opened, and what closes was counted.
<1>1. ASSUME Quiet', spc \in {"closing"} \cup After, spc' \in {"closing"} \cup After
      PROVE  /\ Quiet /\ Open' \subseteq Open /\ Dropped' \in Nat /\ Dropped <= Dropped'
             /\ \A k \in Conns : conn[k] = "up" =>
                  \/ conn'[k] = "up"
                  \/ Dropped' = Dropped + 1
                  \/ conn'[k] = "draining"
  <2>1. ~ShutdownStarts /\ spc \notin {"serves", "draining"} /\ spc' \notin {"serves", "draining"}
    BY <1>1 DEF ShutdownStarts
  <2>2. Quiet /\ \A r \in Records : ~ConnectEnds(r)
    BY <1>1, <2>1, QuietStays
  <2>3. CASE conn' = conn /\ drops' = drops
    BY <1>d, <2>2, <2>3 DEF Open, Dropped
  <2>4. ASSUME NEW k \in Conns, Drop(k)
        PROVE  /\ Open' \subseteq Open /\ Dropped' = Dropped + 1
    <3>1. conn[k] = "up" /\ conn' = [conn EXCEPT ![k] = "down"] /\ drops' = drops - 1
      BY <2>4 DEF Drop
    <3>2. Dropped' = Dropped + 1
      BY <1>t, <3>1 DEF Dropped
    <3>3. \A j \in Conns : conn'[j] = conn[j] \/ conn[j] = "up"
      BY <1>t, <3>1
    <3> QED
      BY <3>2, <3>3 DEF Open
  <2>5. ASSUME NEW k \in Conns, Reconnect(k)
        PROVE  /\ Open' \subseteq Open /\ Dropped' = Dropped
               /\ \A j \in Conns : conn[j] = "up" => conn'[j] = "up"
    <3>1. conn[k] = "down" /\ (\E v \in {"up", "closed"} : conn' = [conn EXCEPT ![k] = v]) /\ drops' = drops
      BY <2>5 DEF Reconnect
    <3>2. \A j \in Conns : conn'[j] = conn[j] \/ conn[j] = "down"
      BY <1>t, <3>1
    <3> QED
      BY <3>1, <3>2 DEF Open, Dropped
  <2>6. ASSUME NEW k \in Conns, Drained(k)
        PROVE  /\ Open' = Open /\ Dropped' = Dropped
               /\ \A j \in Conns : conn[j] = "up" => conn'[j] = "up"
    <3>1. conn[k] = "draining" /\ (\E v \in {"closed", "left"} : conn' = [conn EXCEPT ![k] = v]) /\ drops' = drops
      BY <2>6 DEF Drained
    <3>2. \A j \in Conns : conn'[j] = conn[j] \/ (conn[j] = "draining" /\ conn'[j] \in {"closed", "left"})
      BY <1>t, <3>1
    <3> QED
      BY <3>1, <3>2 DEF Open, Dropped
  <2>7. CASE \E k \in Conns : Drop(k) \/ Reconnect(k) \/ Drained(k)
    BY <1>d, <2>2, <2>4, <2>5, <2>6, <2>7
  <2>8. ASSUME NEW l \in Loops, ToDrain(l) \/ LeavesDrain(l)
        PROVE  /\ Dropped' = Dropped
               /\ \A j \in Conns : conn'[j] # conn[j] =>
                    \/ conn[j] = "up" /\ conn'[j] = "draining"
                    \/ conn[j] = "draining" /\ conn'[j] = "left"
    BY <1>t, <2>8 DEF ToDrain, LeavesDrain, Dropped
  <2>9. CASE \E l \in Loops : ToDrain(l) \/ LeavesDrain(l)
    <3>1. /\ Dropped' = Dropped
          /\ \A j \in Conns : conn'[j] # conn[j] =>
                    \/ conn[j] = "up" /\ conn'[j] = "draining"
                    \/ conn[j] = "draining" /\ conn'[j] = "left"
      BY <2>9, <2>8
    <3>2. Open' \subseteq Open
      BY <3>1 DEF Open
    <3>3. \A j \in Conns : conn[j] = "up" => conn'[j] = "up" \/ conn'[j] = "draining"
      BY <3>1
    <3> QED
      BY <1>d, <2>2, <3>1, <3>2, <3>3
  <2> QED
    BY <2>2, <2>3, <2>7, <2>9, ConnMoves
\* As shutdown() hands the connection over, it is the one that may be open beyond the drops.
<1>2. ASSUME Quiet', spc # "closing", spc' = "closing"
      PROVE  \/ Cardinality(Open') <= Dropped'
             \/ /\ Cardinality(Open') <= 1 + Dropped'
                /\ loop' # None
                /\ \E i \in 1..Len(queue'[loop']) :
                     queue'[loop'][i].do = "close" /\ conn'[queue'[loop'][i].conn] = "up"
  <2>0. ShutdownStarts => spc' # "closing"
    BY DEF ShutdownStarts
  <2>1. DrainConn /\ spc = "drained"
    BY <1>2, <2>0, MainMoves
  <2>2. UNCHANGED <<loop, conn, drops>>
    BY <2>1 DEF DrainConn
  <2>3. Open' = Open /\ Dropped' = Dropped
    BY <2>2 DEF Open, Dropped
  <2>4. CASE natsConn = None
    <3>1. Cardinality(Made) = 0
      BY <2>1, <2>4, FS_EmptySet DEF MadeInv, BeforeClose
    <3> QED
      BY <1>d, <1>f, <2>3, <3>1
  <2>5. CASE natsConn # None /\ conn[natsConn] # "up"
    <3>1. Cardinality(Made) <= Dropped
      BY <2>1, <2>5 DEF MadeInv, BeforeClose
    <3> QED
      BY <1>d, <1>f, <2>3, <3>1
  <2>6. CASE natsConn # None /\ conn[natsConn] = "up"
    <3>1. Cardinality(Made) <= 1 + Dropped /\ loop # None
      BY <2>1, <2>6 DEF MadeInv, BeforeClose, BeforeStop
    <3>2. loop \in Loops /\ natsConn \in Conns /\ Give(loop, Do("close", None, natsConn))
      BY <1>t, <2>1, <2>6, <3>1 DEF DrainConn
    <3>3. Do("close", None, natsConn) \in Jobs
      BY <3>2, JobsMade
    <3>4. /\ Len(queue[loop]) \in Nat /\ Len(queue'[loop]) = Len(queue[loop]) + 1
          /\ queue'[loop][Len(queue[loop]) + 1] = Do("close", None, natsConn)
      BY <1>t, <3>2, <3>3, GiveJob
    <3>5. Len(queue[loop]) + 1 \in 1..Len(queue'[loop])
      BY <3>4
    <3>6. Do("close", None, natsConn).do = "close" /\ Do("close", None, natsConn).conn = natsConn
      BY DEF Do
    <3>7. Cardinality(Open') <= 1 + Dropped'
      BY <1>d, <1>f, <2>3, <3>1
    <3> QED
      BY <2>2, <2>6, <3>1, <3>4, <3>5, <3>6, <3>7
  <2> QED
    BY <2>4, <2>5, <2>6
\* While shutdown() waits for the loop.
<1>3. ASSUME Quiet', spc = "closing", spc' = "closing"
      PROVE  \/ Cardinality(Open') <= Dropped'
             \/ /\ Cardinality(Open') <= 1 + Dropped'
                /\ loop' # None
                /\ \E i \in 1..Len(queue'[loop']) :
                     queue'[loop'][i].do = "close" /\ conn'[queue'[loop'][i].conn] = "up"
  <2>1. /\ Quiet /\ Open' \subseteq Open /\ Dropped' \in Nat /\ Dropped <= Dropped'
        /\ \A k \in Conns : conn[k] = "up" => conn'[k] = "up" \/ Dropped' = Dropped + 1 \/ conn'[k] = "draining"
    BY <1>1, <1>3
  <2>r. Cardinality(Open') \in Nat /\ Cardinality(Open') <= Cardinality(Open)
    BY <1>r, <2>1
  <2>2. CASE Cardinality(Open) <= Dropped
    BY <1>d, <1>f, <2>1, <2>2, <2>r
  <2>3. CASE ~(Cardinality(Open) <= Dropped)
    <3>1. /\ Cardinality(Open) <= 1 + Dropped /\ loop # None
          /\ \E i \in 1..Len(queue[loop]) : queue[loop][i].do = "close" /\ conn[queue[loop][i].conn] = "up"
      BY <1>3, <2>1, <2>3 DEF OpenInv
    <3>2. PICK l \in Loops : l = loop
      BY <1>t, <3>1
    <3>3. PICK i \in 1..Len(queue[l]) : queue[l][i].do = "close" /\ conn[queue[l][i].conn] = "up"
      BY <3>1, <3>2
    <3>4. queue[l][i] \in Jobs
      BY <1>t, ElementOfSeq DEF QueueType
    <3>5. PICK k \in Conns : k = queue[l][i].conn
      BY <3>3, <3>4, JobKinds
    <3>6. loop' = loop
      <4>1. ~Forget
        BY <1>3 DEF Forget
      <4> QED
        BY <3>1, <4>1, LoopStays
    <3>7. CASE Dropped' = Dropped + 1
      BY <1>d, <1>f, <2>r, <3>1, <3>7
    <3>8. CASE conn'[k] = "draining"
      <4>1. k \in Open /\ Open' \subseteq Open \ {k}
        BY <2>1, <3>3, <3>5, <3>8 DEF Open
      <4>2. Cardinality(Open \ {k}) = Cardinality(Open) - 1 /\ IsFiniteSet(Open \ {k})
        BY <1>f, <4>1, FS_RemoveElement
      <4>3. Cardinality(Open') <= Cardinality(Open) - 1
        BY <4>1, <4>2, FS_Subset
      <4> QED
        BY <1>d, <1>f, <2>1, <2>r, <3>1, <4>3
    <3>9. CASE conn'[k] = "up"
      <4>1. ASSUME Callback(l), Head(queue[l]) = queue[l][i] PROVE conn'[k] = "draining"
        <5>1. conn' = [conn EXCEPT ![k] = IF @ = "up" THEN "draining" ELSE @]
          BY <3>3, <3>5, <4>1 DEF Callback
        <5> QED
          BY <1>t, <3>3, <3>5, <5>1
      <4>2. \E j \in 1..Len(queue'[l]) : queue'[l][j] = queue[l][i]
        BY <3>9, <4>1, OldJob
      <4>3. Cardinality(Open') <= 1 + Dropped'
        BY <1>d, <1>f, <2>1, <2>r, <3>1
      <4> QED
        BY <3>1, <3>2, <3>3, <3>5, <3>6, <3>9, <4>2, <4>3
    <3> QED
      BY <2>1, <3>3, <3>5, <3>7, <3>8, <3>9
  <2> QED
    BY <2>2, <2>3
\* Once it no longer waits, the loop has run the job.
<1>4. ASSUME Quiet', spc' \in After PROVE Cardinality(Open') <= Dropped'
  <2>1. spc \in {"closing"} \cup After
    <3>1. ShutdownStarts => spc' \in {"draining", "drained"}
      BY DEF ShutdownStarts
    <3> QED
      BY <1>4, <3>1, MainMoves
  <2>2. Quiet /\ Open' \subseteq Open /\ Dropped' \in Nat /\ Dropped <= Dropped'
    BY <1>1, <1>4, <2>1
  <2>3. Cardinality(Open) <= Dropped
    <3>1. CASE spc = "closing"
      <4>1. CloseClient
        BY <1>4, <3>1, MainMoves DEF ShutdownStarts
      <4>2. loop # None => \A i \in 1..Len(queue[loop]) : queue[loop][i].do # "close"
        <5>1. loop # None => queue[loop] \in Seq(Jobs)
          BY <1>t DEF QueueType
        <5> QED
          BY <2>2, <4>1, <5>1, LenProperties DEF CloseClient, ResultWaited, Posted, Quiet
      <4> QED
        BY <2>2, <3>1, <4>2 DEF OpenInv
    <3>2. CASE spc \in After
      BY <2>2, <3>2 DEF OpenInv
    <3> QED
      BY <2>1, <3>1, <3>2
  <2> QED
    BY <1>d, <1>f, <1>r, <2>2, <2>3
<1> QED
  BY <1>2, <1>3, <1>4 DEF OpenInv

-----------------------------------------------------------------------------
(* The theorems. *)

\* How threads, loops, records and the main thread fit together in every state.
IInv == Types /\ ThreadInv /\ LoopInv /\ JobInv /\ SinkInv /\ EarlyInv /\ MadeInv
          /\ GivenInv /\ OpenInv

\* It holds as the process starts.
LEMMA InitInv ==
  ASSUME Init
  PROVE  IInv
<1>c. /\ None \notin Calls /\ None \notin Records /\ None \notin Conns /\ None \notin Loops
      /\ Drops \in Nat /\ None # "open"
  BY ConstantsOK
<1>q. \A l \in Loops : Len(queue[l]) = 0 /\ 1..Len(queue[l]) = {}
  BY DEF Init
<1>1. Types
  <2>1. lock = None /\ (\A c \in Calls : tpc[c] # "make")
    BY DEF Init
  <2>2. TypeOK
    <3>1. /\ rec \in [Records -> RecordStates] /\ on \in [Records -> Loops \cup {None}]
          /\ sink \in [Calls -> Sinks \cup {None}] /\ mine \in [Calls -> Loops \cup {None}]
      BY DEF Init, RecordStates
    <3>2. drops \in 0..Drops /\ stalls \in BOOLEAN
      BY <1>c, ConstantsOK DEF Init
    <3> QED
      BY <2>1, <3>1, <3>2 DEF Init, TypeOK, ConnStates
  <2>3. QueueType
    BY DEF Init, QueueType
  <2> QED
    BY <2>2, <2>3 DEF Types
<1>2. ThreadInv
  BY <1>c DEF Init, ThreadInv, Records
<1>3. LoopInv
  BY <1>c, <1>q DEF Init, LoopInv, BeforeStop, BeforeClose
<1>4. JobInv
  BY <1>c, <1>q DEF Init, JobInv, OnLoop
<1>5. SinkInv
  BY <1>c DEF Init, SinkInv, BeforeClose
<1>6. EarlyInv
  BY <1>q DEF Init, EarlyInv, EarlyRecordsReachSinks
<1>7. MadeInv
  <2>1. Made = {}
    BY DEF Init, Made
  <2> QED
    BY <1>c, <1>q, <2>1, FS_EmptySet DEF Init, MadeInv, BeforeStop, BeforeClose
<1>8. GivenInv
  <2>1. Given = {}
    BY DEF Init, Given
  <2> QED
    BY <1>q, <2>1 DEF GivenInv
<1>9. OpenInv
  BY DEF Init, OpenInv
<1> QED
  BY <1>1, <1>2, <1>3, <1>4, <1>5, <1>6, <1>7, <1>8, <1>9 DEF IInv

\* And every step keeps it.
LEMMA StepInv ==
  ASSUME IInv, [Next]_vars
  PROVE  IInv'
<1>1. ThreadInv'
  BY StepThread DEF IInv
<1>2. Types'
  BY <1>1, StepType DEF IInv
<1>3. LoopInv' /\ JobInv'
  BY <1>2, StepLoop, StepJob DEF IInv
<1>4. SinkInv'
  BY StepSink DEF IInv
<1>5. EarlyInv'
  BY <1>4, StepEarly DEF IInv
<1>6. MadeInv' /\ GivenInv' /\ OpenInv'
  BY <1>2, <1>3, StepMade, StepGiven, StepOpen DEF IInv
<1> QED
  BY <1>1, <1>2, <1>3, <1>4, <1>5, <1>6 DEF IInv

\* The invariant of the specification.
LEMMA InvHolds == Spec => []IInv
BY InitInv, StepInv, PTL DEF Spec

\* Every variable has its type in every state.
THEOREM TypeCorrect == Spec => []TypeOK
<1>1. IInv => TypeOK
  BY DEF IInv, Types
<1> QED
  BY <1>1, InvHolds, PTL

\* _ensure_loop's lock: however many threads emit first at once, and however late, no two
\* sink loops run at the same time, but for those that stalled past shutdown()'s wait.
THEOREM AtMostOneLoop == Spec => []OneLoop
<1>1. ASSUME IInv PROVE OneLoop
  <2> DEFINE Running == {l \in Loops : state[l] = "runs" /\ ~(stalls /\ Posted(l, "stop"))}
  <2>1. Running \subseteq {loop}
    BY <1>1 DEF IInv, LoopInv
  <2>2. IsFiniteSet({loop}) /\ Cardinality({loop}) = 1
    BY FS_Singleton
  <2>3. Cardinality(Running) <= 1
    BY <2>1, <2>2, FS_Subset
  <2> QED
    BY <2>3 DEF OneLoop
<1>2. IInv => OneLoop
  BY <1>1
<1> QED
  BY <1>2, InvHolds, PTL

\* _drain_pending: what was scheduled before shutdown() is not lost to it.
THEOREM NothingEarlyIsLost == Spec => []EarlyRecordsReachSinks
<1>1. IInv => EarlyRecordsReachSinks
  BY DEF IInv, EarlyInv
<1> QED
  BY <1>1, InvHolds, PTL

\* _nats_lock: publishes that find no connection at the same time make one between them.
THEOREM ConnectionsShared == Spec => []OneConnection
<1>1. ASSUME IInv PROVE OneConnection
  <2>1. ASSUME spc = "serves" PROVE Cardinality(Made) <= 1 + Dropped
    <3>1. Dropped \in Nat
      BY <1>1, ConstantsOK DEF IInv, Types, TypeOK, Dropped
    <3>2. CASE natsConn = None
      <4>1. Cardinality(Made) = 0
        BY <1>1, <2>1, <3>2, FS_EmptySet DEF IInv, MadeInv, BeforeClose
      <4> QED
        BY <3>1, <4>1
    <3>3. CASE natsConn # None
      BY <1>1, <2>1, <3>3 DEF IInv, MadeInv, BeforeClose
    <3> QED
      BY <3>2, <3>3
  <2> QED
    BY <2>1 DEF OneConnection, Made, Dropped
<1>2. IInv => OneConnection
  BY <1>1
<1> QED
  BY <1>2, InvHolds, PTL

\* shutdown(): after a drain that was not cut short, with no call that came late and a loop
\* that kept up, no connection is open but for one per drop, and at most one was put to the
\* drain without being closed by it.
THEOREM ConnectionsAreClosed == Spec => []ConnectionsClosed
<1>1. IInv => ConnectionsClosed
  BY DEF IInv, OpenInv, GivenInv, ConnectionsClosed, Quiet, Open, Given, Dropped
<1> QED
  BY <1>1, InvHolds, PTL

=============================================================================
