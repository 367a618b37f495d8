----------------------------- MODULE Telemetry ------------------------------
(***************************************************************************)
(* The network sinks of telemetry.py.  Worker threads emit one record per  *)
(* finished tool call and sink; a background event loop, started by the    *)
(* first of them, turns records into tasks; InfluxDB writes run on threads *)
(* of the loop's executor, NATS publishes share one connection; and        *)
(* shutdown() drains all that while calls may still be finishing.          *)
(*                                                                         *)
(* A step is what happens between two points where another thread, or      *)
(* another task of the loop, can run.  Time is left out: a wait of         *)
(* shutdown() runs out when what it waits for is up to a server, or to a   *)
(* loop whose thread is held up (stalls).                                  *)
(***************************************************************************)
EXTENDS Naturals, Sequences, FiniteSets

CONSTANTS
  Calls,     \* tool calls
  Configs,   \* the sets of sinks that may be configured
  Loops,     \* event loops, 1, 2, ...: bounds how many are ever made
  Conns,     \* NATS connections: bounds how many are ever made
  Workers,   \* threads of the executor
  Drops,     \* bound: how often a NATS connection drops
  Stalling,  \* whether the loop's thread may be held up: TRUE, FALSE or both
  None

Sinks == {"influx", "nats"}
Records == Calls \X Sinks
Influx == {r \in Records : r[2] = "influx"}
Nats == {r \in Records : r[2] = "nats"}

ASSUME ConstantsOK ==
  /\ Configs \subseteq (SUBSET Sinks) \ {{}}
  /\ Loops \subseteq Nat \ {0} /\ Conns \subseteq Nat \ {0}
  /\ Workers \in Nat \ {0} /\ Drops \in Nat /\ Stalling \subseteq BOOLEAN
  /\ None \notin Calls \cup Records \cup Loops \cup Conns
  /\ None \notin Sinks \cup {"open", "closed"} /\ \A s \in SUBSET Records : None # s

VARIABLES
  config,    \* the sinks that are configured
  stalls,    \* the loop's thread may be held up longer than shutdown() waits
  tpc,       \* each call's thread: "runs", "emit", "lock", "make", "post", "done"
  sink,      \* the sink _emit is at; None when through
  mine,      \* what _ensure_loop gave the thread
  lock,      \* _loop_lock
  loop,      \* _loop
  state,     \* each loop: "unmade", "runs", "stopped", "closed"
  queue,     \* callbacks each loop has yet to run
  rec,       \* each record's coroutine: see RecordStates
  on,        \* the loop it was given to
  client,    \* _influx_client: "open", "closed" or None
  natsLock,  \* _nats_lock: the record whose task holds it
  natsConn,  \* _nats_conn
  conn,      \* each connection: see ConnStates
  drops,     \* drops that may still happen
  spc,       \* the main thread: "serves", then the steps of shutdown()
  pending,   \* what _drain_pending waits for; None before it looked
  expired,   \* the drain ran into its timeout, or shutdown() into its own
  early      \* records given to the loop before the drain was

threads == <<config, stalls, tpc, sink, mine, lock>>
tasks == <<rec, on>>
sinkState == <<client, natsLock, natsConn, conn, drops>>
main == <<spc, pending, expired, early>>
vars == <<threads, loop, state, queue, tasks, sinkState, main>>

\* none: not scheduled; posted: a callback of the loop; task: created, not yet
\* started; handed: with the executor; writing, connecting: at the sink;
\* written, failed: over; void: never run or cancelled.
RecordStates ==
  {"none", "posted", "task", "handed", "writing", "connecting", "written", "failed", "void"}
Over == {"written", "failed", "void"}
\* down: reconnecting; draining: conn.drain() runs; left: it failed or will not end.
ConnStates == {"unmade", "up", "down", "draining", "left", "closed"}
OnLoop == {"task", "handed", "writing", "connecting"}

Set(r, s) == rec' = [rec EXCEPT ![r] = s]
\* What the loop's thread is given to do.
Do(what, r, k) == [do |-> what, rec |-> r, conn |-> k]
Give(l, b) == queue' = [queue EXCEPT ![l] = Append(@, b)]
Goto(c, l) == tpc' = [tpc EXCEPT ![c] = l]

-----------------------------------------------------------------------------
(* The threads of tool calls: record_tool_call's end, _emit, _schedule. *)

NextSink(s) == IF s = "influx" /\ "nats" \in config THEN "nats" ELSE None

Finish(c) ==
  /\ tpc[c] = "runs"
  /\ Goto(c, "emit")
  /\ sink' = [sink EXCEPT ![c] = IF "influx" \in config THEN "influx" ELSE "nats"]
  /\ UNCHANGED <<config, stalls, mine, lock, loop, state, queue, tasks, sinkState, main>>

\* Mutant of Emit: the thread waits for what it scheduled.
EmitWaits(c) ==
  /\ tpc[c] = "emit"
  /\ \A r \in Records : r[1] = c => rec[r] \in Over \cup {"none"}
  /\ Goto(c, IF sink[c] = None THEN "done" ELSE "lock")
  /\ UNCHANGED <<config, stalls, sink, mine, lock, loop, state, queue, tasks, sinkState, main>>

\* _emit: which sinks are there now?
Emit(c) ==
  /\ tpc[c] = "emit"
  /\ IF sink[c] = None
       THEN Goto(c, "done") /\ UNCHANGED sink
       ELSE IF sink[c] = "influx" /\ client = None
              THEN sink' = [sink EXCEPT ![c] = NextSink("influx")] /\ UNCHANGED tpc
              ELSE Goto(c, "lock") /\ UNCHANGED sink
  /\ UNCHANGED <<config, stalls, mine, lock, loop, state, queue, tasks, sinkState, main>>

\* Mutant of Lock: the lock is not waited for.
LockIgnored(c) ==
  /\ tpc[c] = "lock"
  /\ lock' = c
  /\ Goto(c, IF loop # None THEN "post" ELSE "make")
  /\ mine' = [mine EXCEPT ![c] = loop]
  /\ UNCHANGED <<config, stalls, sink, loop, state, queue, tasks, sinkState, main>>

\* _ensure_loop up to its test; the lock is let go if there is a loop.
Lock(c) ==
  /\ tpc[c] = "lock" /\ lock = None
  /\ lock' = IF loop # None THEN None ELSE c
  /\ Goto(c, IF loop # None THEN "post" ELSE "make")
  /\ mine' = [mine EXCEPT ![c] = loop]
  /\ UNCHANGED <<config, stalls, sink, loop, state, queue, tasks, sinkState, main>>

\* The rest of _ensure_loop: a new loop and its thread.
Make(c) ==
  /\ tpc[c] = "make"
  /\ \E l \in Loops :
       /\ state[l] = "unmade" /\ \A k \in Loops : state[k] = "unmade" => l <= k
       /\ state' = [state EXCEPT ![l] = "runs"]
       /\ loop' = l
       /\ mine' = [mine EXCEPT ![c] = l]
  /\ lock' = None
  /\ Goto(c, "post")
  /\ UNCHANGED <<config, stalls, sink, queue, tasks, sinkState, main>>

\* run_coroutine_threadsafe: a closed loop refuses, a stopped one never answers.
Post(c) ==
  /\ tpc[c] = "post"
  /\ LET r == <<c, sink[c]>>
         l == mine[c]
     IN IF state[l] = "closed"
          THEN Set(r, "void") /\ UNCHANGED <<on, queue>>
          ELSE /\ Set(r, "posted")
               /\ on' = [on EXCEPT ![r] = l]
               /\ Give(l, Do("record", r, None))
  /\ sink' = [sink EXCEPT ![c] = NextSink(@)]
  /\ Goto(c, "emit")
  /\ UNCHANGED <<config, stalls, mine, lock, loop, state, sinkState, main>>

Thread(c) == Finish(c) \/ Emit(c) \/ Lock(c) \/ Make(c) \/ Post(c)

-----------------------------------------------------------------------------
(* The loop's thread. *)

Posted(l, what) == \E i \in DOMAIN queue[l] : queue[l][i].do = what

\* The next callback: a record becomes a task, the drain looks at the tasks,
\* conn.drain() begins, which raises at once unless the connection is up, or
\* the loop stops, and what it has not ended never will.
Callback(l) ==
  /\ state[l] = "runs" /\ queue[l] # <<>>
  /\ queue' = [queue EXCEPT ![l] = Tail(@)]
  /\ LET b == Head(queue[l]) IN
       \/ /\ b.do = "record"
          /\ Set(b.rec, "task")
          /\ UNCHANGED <<state, conn, pending>>
       \/ /\ b.do = "drain"
          /\ pending' = {r \in Records : on[r] = l /\ rec[r] \in OnLoop}
          /\ UNCHANGED <<rec, state, conn>>
       \/ /\ b.do = "close"
          /\ conn' = [conn EXCEPT ![b.conn] = IF @ = "up" THEN "draining" ELSE @]
          /\ UNCHANGED <<rec, state, pending>>
       \/ /\ b.do = "stop"
          /\ state' = [state EXCEPT ![l] = "stopped"]
          /\ conn' = [k \in Conns |-> IF conn[k] = "draining" THEN "left" ELSE conn[k]]
          /\ UNCHANGED <<rec, pending>>
  /\ UNCHANGED <<threads, loop, on, client, natsLock, natsConn, drops, spc, expired, early>>

Runs(r) == on[r] # None /\ state[on[r]] = "runs"

\* asyncio.to_thread hands the write to the executor.
HandOver(r) ==
  /\ r \in Influx /\ rec[r] = "task" /\ Runs(r)
  /\ Set(r, "handed")
  /\ UNCHANGED <<threads, loop, state, queue, on, sinkState, main>>

Connected == natsConn # None /\ conn[natsConn] = "up"

\* Mutant of MayConnect: connections are made without _nats_lock.
MayConnectUnlocked(r) == TRUE

\* async with _nats_lock.
MayConnect(r) == natsLock = None

\* _nats_publish with a connection: it is published in one step, or fails.
Publish(r) ==
  /\ r \in Nats /\ rec[r] = "task" /\ Runs(r) /\ MayConnect(r) /\ Connected
  /\ Set(r, "written") \/ Set(r, "failed")
  /\ UNCHANGED <<threads, loop, state, queue, on, sinkState, main>>

\* _nats_publish without one: connecting suspends the task.
Connect(r) ==
  /\ r \in Nats /\ rec[r] = "task" /\ Runs(r) /\ MayConnect(r) /\ ~Connected
  /\ Set(r, "connecting")
  /\ natsLock' = r
  /\ UNCHANGED <<threads, loop, state, queue, on, client, natsConn, conn, drops, main>>

\* The endpoint answered, and the record is published at once; or it did not.
ConnectEnds(r) ==
  /\ rec[r] = "connecting" /\ Runs(r)
  /\ \/ /\ \E k \in Conns :
             /\ conn[k] = "unmade" /\ \A j \in Conns : conn[j] = "unmade" => k <= j
             /\ conn' = [conn EXCEPT ![k] = "up"]
             /\ natsConn' = k
        /\ Set(r, "written") \/ Set(r, "failed")
     \/ Set(r, "failed") /\ UNCHANGED <<conn, natsConn>>
  /\ natsLock' = None
  /\ UNCHANGED <<threads, loop, state, queue, on, client, drops, main>>

\* The drain is over with the last task it waits for.
DrainEnds(l) ==
  /\ state[l] = "runs" /\ spc = "draining" /\ pending # None /\ loop = l
  /\ \A r \in pending : rec[r] \in Over
  /\ spc' = "drained"
  /\ UNCHANGED <<threads, loop, state, queue, tasks, sinkState, pending, expired, early>>

\* Or at its timeout, which cancels: a write that runs goes on in its thread.
\* shutdown() may have given the drain up before.
DrainExpires(l) ==
  /\ state[l] = "runs" /\ pending # None
  /\ spc = "draining" \/ (stalls /\ spc # "serves")
  /\ \E r \in pending : on[r] = l /\ rec[r] \notin Over
  /\ expired' = TRUE
  /\ rec' = [r \in Records |->
               IF r \in pending /\ rec[r] \in {"task", "handed", "connecting"}
                 THEN "void" ELSE rec[r]]
  /\ natsLock' = IF natsLock \in pending THEN None ELSE natsLock
  /\ spc' = IF spc = "draining" THEN "drained" ELSE spc
  /\ UNCHANGED <<threads, loop, state, queue, on, client, natsConn, conn, drops, pending, early>>

LoopStep(l) == Callback(l) \/ DrainEnds(l) \/ DrainExpires(l)
TaskStep(r) == HandOver(r) \/ Publish(r) \/ Connect(r)

-----------------------------------------------------------------------------
(* The executor's threads, InfluxDB and the NATS server. *)

\* A free thread takes up a write: _influx_write up to the client's write().
TakeUp(r) ==
  /\ rec[r] = "handed"
  /\ Cardinality({q \in Records : rec[q] = "writing"}) < Workers
  /\ Set(r, IF client = None THEN "void" ELSE "writing")
  /\ UNCHANGED <<threads, loop, state, queue, on, sinkState, main>>

\* The write returns or raises; into a client that is closed it raises.
WriteEnds(r) ==
  /\ rec[r] = "writing"
  /\ (client = "open" /\ Set(r, "written")) \/ Set(r, "failed")
  /\ UNCHANGED <<threads, loop, state, queue, on, sinkState, main>>

\* A connection is lost; nats-py reconnects, or gives up in the end.
Drop(k) ==
  /\ drops > 0 /\ conn[k] = "up"
  /\ conn' = [conn EXCEPT ![k] = "down"]
  /\ drops' = drops - 1
  /\ UNCHANGED <<threads, loop, state, queue, tasks, client, natsLock, natsConn, main>>

Reconnect(k) ==
  /\ conn[k] = "down"
  /\ \E s \in {"up", "closed"} : conn' = [conn EXCEPT ![k] = s]
  /\ UNCHANGED <<threads, loop, state, queue, tasks, client, natsLock, natsConn, drops, main>>

\* conn.drain() flushes to the server: it closes the connection, or fails.
Drained(k) ==
  /\ conn[k] = "draining"
  /\ \E s \in {"closed", "left"} : conn' = [conn EXCEPT ![k] = s]
  /\ UNCHANGED <<threads, loop, state, queue, tasks, client, natsLock, natsConn, drops, main>>

World ==
  \/ \E r \in Records : WriteEnds(r) \/ ConnectEnds(r)
  \/ \E k \in Conns : Drop(k) \/ Reconnect(k) \/ Drained(k)

-----------------------------------------------------------------------------
(* shutdown(), on the main thread. *)

\* Mutant of ShutdownStarts: the client is closed before the drain.
ShutdownClosesFirst ==
  /\ spc = "serves"
  /\ client' = None
  /\ early' = {r \in Records : rec[r] # "none"}
  /\ IF loop # None
       THEN Give(loop, Do("drain", None, None)) /\ spc' = "draining"
       ELSE spc' = "drained" /\ UNCHANGED queue
  /\ UNCHANGED <<threads, loop, state, tasks, natsLock, natsConn, conn, drops, pending, expired>>

\* The server has stopped serving; threads of tool calls may not be through.
ShutdownStarts ==
  /\ spc = "serves"
  /\ early' = {r \in Records : rec[r] # "none"}
  /\ IF loop # None
       THEN Give(loop, Do("drain", None, None)) /\ spc' = "draining"
       ELSE spc' = "drained" /\ UNCHANGED queue
  /\ UNCHANGED <<threads, loop, state, tasks, sinkState, pending, expired>>

\* The drain's result does not come within _DRAIN_TIMEOUT + 2.
DrainGivenUp ==
  /\ spc = "draining" /\ stalls
  /\ expired' = TRUE
  /\ spc' = "drained"
  /\ UNCHANGED <<threads, loop, state, queue, tasks, sinkState, pending, early>>

\* Mutant of DrainConn: the connection is forgotten before it is looked at.
DrainConnForgets ==
  /\ spc = "drained"
  /\ natsConn' = None
  /\ spc' = "closing"
  /\ UNCHANGED <<threads, loop, state, queue, tasks, client, natsLock, conn, drops, pending,
                 expired, early>>

\* _nats_conn is forgotten and its drain given to the loop.
DrainConn ==
  /\ spc = "drained"
  /\ IF natsConn # None /\ loop # None
       THEN Give(loop, Do("close", None, natsConn))
       ELSE UNCHANGED queue
  /\ natsConn' = None
  /\ spc' = "closing"
  /\ UNCHANGED <<threads, loop, state, tasks, client, natsLock, conn, drops, pending,
                 expired, early>>

\* Mutant of ResultWaited: the result of conn.drain() is waited for without a timeout.
ResultWaitedForGood ==
  /\ loop # None => ~Posted(loop, "close")
  /\ \A k \in Conns : conn[k] # "draining"

\* The result of conn.drain() is in, or does not come within 5 s: the server, if
\* not the loop, may take longer.
ResultWaited == loop # None /\ ~stalls => ~Posted(loop, "close")

\* The client's close().
CloseClient ==
  /\ spc = "closing" /\ ResultWaited
  /\ client' = IF client = None THEN None ELSE "closed"
  /\ spc' = "closed"
  /\ UNCHANGED <<threads, loop, state, queue, tasks, natsLock, natsConn, conn, drops, pending,
                 expired, early>>

StopLoop ==
  /\ spc = "closed"
  /\ client' = None
  /\ IF loop # None
       THEN Give(loop, Do("stop", None, None)) /\ spc' = "joining"
       ELSE spc' = "exits" /\ UNCHANGED queue
  /\ UNCHANGED <<threads, loop, state, tasks, natsLock, natsConn, conn, drops, pending, expired,
                 early>>

\* The join and the loop's close; after 5 s the loop may still run, and then its
\* close fails.
Join ==
  /\ spc = "joining"
  /\ \/ state[loop] = "stopped" /\ state' = [state EXCEPT ![loop] = "closed"]
     \/ state[loop] = "runs" /\ stalls /\ UNCHANGED state
  /\ spc' = "forgets"
  /\ UNCHANGED <<threads, loop, queue, tasks, sinkState, pending, expired, early>>

\* The globals are forgotten.
Forget ==
  /\ spc = "forgets"
  /\ loop' = None
  /\ spc' = "exits"
  /\ UNCHANGED <<threads, state, queue, tasks, sinkState, pending, expired, early>>

\* The interpreter's exit joins the executor's threads, daemons or not.
ProcessExits ==
  /\ spc = "exits"
  /\ \A r \in Influx : rec[r] \notin {"handed", "writing"}
  /\ spc' = "gone"
  /\ UNCHANGED <<threads, loop, state, queue, tasks, sinkState, pending, expired, early>>

Shutdown ==
  \/ DrainGivenUp \/ DrainConn \/ CloseClient \/ StopLoop \/ Join \/ Forget \/ ProcessExits

-----------------------------------------------------------------------------
Init ==
  /\ config \in Configs /\ stalls \in Stalling
  /\ tpc = [c \in Calls |-> "runs"]
  /\ sink = [c \in Calls |-> None] /\ mine = [c \in Calls |-> None]
  /\ lock = None /\ loop = None
  /\ state = [l \in Loops |-> "unmade"] /\ queue = [l \in Loops |-> <<>>]
  /\ rec = [r \in Records |-> "none"] /\ on = [r \in Records |-> None]
  /\ client = IF "influx" \in config THEN "open" ELSE None
  /\ natsLock = None /\ natsConn = None
  /\ conn = [k \in Conns |-> "unmade"]
  /\ drops = Drops
  /\ spc = "serves" /\ pending = None /\ expired = FALSE /\ early = {}

Next ==
  /\ spc # "gone"
  /\ \/ \E c \in Calls : Thread(c)
     \/ \E l \in Loops : LoopStep(l)
     \/ \E r \in Records : TaskStep(r) \/ TakeUp(r)
     \/ World
     \/ ShutdownStarts \/ Shutdown

Spec == Init /\ [][Next]_vars
\* Threads, the executor and the main thread are scheduled, and so is the loop,
\* unless it stalls.  Nothing is assumed of the sinks: a write, a connect or the
\* drain of a connection may never end.
FairSpec ==
  /\ Spec
  /\ \A c \in Calls : WF_vars(spc # "gone" /\ Thread(c))
  /\ \A l \in Loops : WF_vars(spc # "gone" /\ ~stalls /\ LoopStep(l))
  /\ \A r \in Records : WF_vars(spc # "gone" /\ ((~stalls /\ TaskStep(r)) \/ TakeUp(r)))
  /\ WF_vars(Shutdown)

-----------------------------------------------------------------------------
(* Properties. *)

TypeOK ==
  /\ config \in Configs /\ stalls \in BOOLEAN
  /\ tpc \in [Calls -> {"runs", "emit", "lock", "make", "post", "done"}]
  /\ sink \in [Calls -> Sinks \cup {None}] /\ mine \in [Calls -> Loops \cup {None}]
  /\ lock \in Calls \cup {None} /\ loop \in Loops \cup {None}
  /\ state \in [Loops -> {"unmade", "runs", "stopped", "closed"}]
  /\ rec \in [Records -> RecordStates] /\ on \in [Records -> Loops \cup {None}]
  /\ client \in {"open", "closed", None}
  /\ natsLock \in Nats \cup {None} /\ natsConn \in Conns \cup {None}
  /\ conn \in [Conns -> ConnStates]
  /\ drops \in 0..Drops
  /\ pending \in (SUBSET Records) \cup {None} /\ expired \in BOOLEAN /\ early \subseteq Records
  /\ lock = None <=> \A c \in Calls : tpc[c] # "make"

\* A record that was scheduled before shutdown began is not lost to it: unless
\* the drain timed out, it was written, or its own sink refused it, before
\* anything is closed (shutdown, _drain_pending).
EarlyRecordsReachSinks ==
  spc \notin {"serves", "draining"} /\ ~expired =>
    \A r \in early : rec[r] \in {"written", "failed"}

\* However many threads emit first at once, or while shutdown runs, no two sink
\* loops run at the same time (_ensure_loop's lock), but for one that stalls and
\* has been told to stop: shutdown waits for it for 5 s and then forgets it.
OneLoop ==
  Cardinality({l \in Loops : state[l] = "runs" /\ ~(stalls /\ Posted(l, "stop"))}) <= 1

\* While the server serves, publishes that find no connection at the same time
\* make one between them (_nats_lock), and one more for each that dropped.
OneConnection ==
  spc = "serves" => Cardinality({k \in Conns : conn[k] # "unmade"}) <= 1 + (Drops - drops)

\* "Flush and close backends" (shutdown): once shutdown is over, if the drain did
\* not time out, the loop kept up and no call came late, every NATS connection is
\* closed but for at most one per drop (replaced, or put to the drain, while it
\* reconnected) and one that was put to the drain while it was up: its server did
\* not answer in 5 s, or refused.
ConnectionsClosed ==
  /\ spc \in {"exits", "gone"} /\ ~expired /\ ~stalls
  /\ {r \in Records : rec[r] # "none"} = early
  => /\ Cardinality({k \in Conns : conn[k] \in {"up", "down"}}) <= Drops - drops
     /\ \A j, k \in Conns : {conn[j], conn[k]} \subseteq {"draining", "left"} => j = k

\* A tool call is never held up by its metrics: its thread gets through _emit
\* whatever the sinks and the loop do.
EmitsReturn == \A c \in Calls : tpc[c] = "emit" ~> tpc[c] = "done" \/ spc = "gone"

\* shutdown() returns whatever the sinks do, though a drain that it waits for may
\* hang with its server, and even if the loop stalls.
ShutdownReturns == spc = "draining" ~> spc \in {"exits", "gone"}

\* "A metrics sink must not hold the process open" (_ensure_loop).
ProcessNotHeldOpen == spc = "exits" ~> spc = "gone"

=============================================================================
