----------------------------- MODULE RunCommand -----------------------------
(***************************************************************************)
(* run_command of server.py: one call, the bash it starts, and whatever    *)
(* that starts.  The call reads both pipes until they end, a stream is     *)
(* full, or the deadline passes; then it waits for bash, kills the group   *)
(* if it was cut short, and reaps bash, all against the clock.             *)
(*                                                                         *)
(* Time is discrete, and the call's own steps take none of it: the clock   *)
(* advances only while the call is blocked in select or wait.              *)
(* A byte is of a kind: ASCII, the lead byte of a character of two, three  *)
(* or four bytes, a byte that continues one, or one that is not UTF-8      *)
(* where it stands.  A decoded character is the bytes it takes in UTF-8.   *)
(***************************************************************************)
EXTENDS Naturals, Sequences, SequencesExt

CONSTANTS
  Bash,        \* the process the call starts
  Children,    \* processes it may start in turn
  Streams,     \* stdout and stderr
  Limit,       \* bytes captured per stream: _output_limit()
  Chunk,       \* _READ_CHUNK
  PipeSize,    \* bytes a pipe holds before a write blocks
  MaxOutput,   \* bound: bytes written to one stream
  Timeout,     \* the call's timeout
  ReapTimeout, \* _REAP_TIMEOUT
  Writes,      \* bound: the kinds of bytes written to each stream
  Stalls,      \* whether processes can be in uninterruptible sleep
  SpawnFaults, \* system calls that may fail: "popen", "selector"
  None

Procs == {Bash} \cup Children
Needs == [lead2 |-> 2, lead3 |-> 3, lead4 |-> 4]   \* the bytes of the character begun
Bytes == {"ascii", "cont", "bad"} \cup DOMAIN Needs
Replacement == 3     \* U+FFFD
Codes == {0, 1}      \* how bash may exit on its own
Killed == 9          \* what wait gives for SIGKILL, negated
Unknown == 255       \* -1

ASSUME ConstantsOK ==
  /\ Bash \notin Children
  /\ Limit \in Nat \ {0} /\ Chunk \in Nat \ {0} /\ PipeSize \in Nat \ {0}
  /\ MaxOutput \in Nat /\ Timeout \in Nat /\ ReapTimeout \in Nat
  /\ Writes \in [Streams -> SUBSET Bytes] /\ Stalls \in BOOLEAN
  /\ None \notin Codes \cup {Killed, Unknown}

VARIABLES
  pc,        \* the call: "start", "select", "read", "wait", "kill", "reap", "done"
  open,      \* streams still registered with the selector
  events,    \* streams the last select reported and not yet read
  buf,       \* the bytearrays
  truncated, timedOut, failed,
  exit,      \* exit_code
  marked,    \* streams given the truncation marker
  now, reapBy,
  proc,      \* each process: "unborn", "runs", "stalls", "dies" (killed, stalls), "dead"
  group,     \* the process group of bash
  holds,     \* the write ends each process has open
  written,   \* what was written to each stream, since the start
  taken,     \* how many of these bytes the call has read
  code,      \* how bash ended
  reaped     \* bash's pid has been given back to the system

call == <<pc, open, events, buf, truncated, timedOut, failed, exit, marked, reapBy, reaped>>
world == <<proc, group, holds, written, code>>
vars == <<call, now, taken, world>>

Alive(p) == proc[p] \in {"runs", "stalls", "dies"}
BashGone == proc[Bash] = "dead"
Waiting(s) == Len(written[s]) - taken[s]     \* bytes in the pipe
AtEof(s) == Waiting(s) = 0 /\ \A p \in Procs : s \notin holds[p]
Ready == {s \in open : Waiting(s) > 0 \/ AtEof(s)}
Expired == now >= Timeout
Least(m, n) == IF m <= n THEN m ELSE n

-----------------------------------------------------------------------------
(* bytes.decode(errors="replace") and str.encode. *)

\* One more byte: a sequence it does not continue comes out as one U+FFFD,
\* however many bytes of it there are, and so does a byte that starts none.
Feed(d, b) ==
  LET t == IF d.have > 0 /\ b # "cont" THEN Append(d.text, Replacement) ELSE d.text
  IN CASE b = "cont" /\ d.have > 0 ->
            IF d.have + 1 < d.need
              THEN [text |-> t, need |-> d.need, have |-> d.have + 1]
              ELSE [text |-> Append(t, d.need), need |-> 0, have |-> 0]
       [] b \in DOMAIN Needs -> [text |-> t, need |-> Needs[b], have |-> 1]
       [] OTHER ->
            [text |-> Append(t, IF b = "ascii" THEN 1 ELSE Replacement), need |-> 0, have |-> 0]

FedAll(bytes) == FoldLeft(Feed, [text |-> <<>>, need |-> 0, have |-> 0], bytes)

\* The text of the bytes, in characters; so comes out what the cap cut in two.
Decoded(bytes) ==
  LET d == FedAll(bytes) IN IF d.have > 0 THEN Append(d.text, Replacement) ELSE d.text

\* Its length in bytes.
EncodedLength(text) == FoldLeft(LAMBDA n, w : n + w, 0, text)

-----------------------------------------------------------------------------
(* The call. *)

\* run_command up to the loop of _run_capped.  Popen may fail (no such cwd, no
\* processes left); so may the selector (no descriptors left), bash running.
Start ==
  /\ pc = "start"
  /\ \/ /\ proc' = [proc EXCEPT ![Bash] = "runs"]
        /\ holds' = [holds EXCEPT ![Bash] = Streams]
        /\ group' = {Bash}
        /\ open' = Streams
        /\ \/ pc' = "select" /\ UNCHANGED <<failed, exit>>
           \/ "selector" \in SpawnFaults /\ pc' = "done" /\ failed' = TRUE /\ exit' = Unknown
     \/ /\ "popen" \in SpawnFaults
        /\ pc' = "done" /\ failed' = TRUE /\ exit' = Unknown
        /\ UNCHANGED <<proc, holds, group, open>>
  /\ UNCHANGED <<events, buf, truncated, timedOut, marked, reapBy, reaped, now, taken,
                 written, code>>

\* The head of the loop: done with the pipes, full, out of time, or one select.
Select ==
  /\ pc = "select"
  /\ \/ /\ open = {} \/ truncated
        /\ pc' = IF truncated THEN "kill" ELSE "wait"
        /\ UNCHANGED <<events, timedOut>>
     \/ /\ open # {} /\ ~truncated /\ Expired
        /\ pc' = "kill" /\ timedOut' = TRUE /\ UNCHANGED events
     \/ /\ open # {} /\ ~truncated /\ ~Expired /\ Ready # {}
        /\ pc' = "read" /\ events' = Ready /\ UNCHANGED timedOut
  /\ UNCHANGED <<open, buf, truncated, failed, exit, marked, reapBy, reaped, now, taken, world>>

\* Mutant of Kept: the whole chunk is kept as long as the buffer is not full.
KeptWhole(b, chunk) == IF Len(b) < Limit THEN b \o chunk ELSE b

\* A buffer takes of a chunk what it has room for.
Kept(b, chunk) == b \o SubSeq(chunk, 1, Least(Len(chunk), Limit - Len(b)))

\* Mutant of Full: the cap must be passed, not reached.
FullPast(b) == Len(b) > Limit
Full(b) == Len(b) >= Limit

\* The body of the for loop, for one stream: os.read, which gives b"" at EOF.
Read(s) ==
  /\ pc = "read" /\ s \in events
  /\ LET n == Least(Waiting(s), Chunk)
         chunk == SubSeq(written[s], taken[s] + 1, taken[s] + n)
     IN IF n = 0
          THEN open' = open \ {s} /\ UNCHANGED <<buf, taken, truncated>>
          ELSE /\ taken' = [taken EXCEPT ![s] = @ + n]
               /\ buf' = [buf EXCEPT ![s] = Kept(@, chunk)]
               /\ truncated' = (truncated \/ Full(Kept(buf[s], chunk)))
               /\ UNCHANGED open
  /\ events' = events \ {s}
  /\ pc' = IF events = {s} THEN "select" ELSE "read"
  /\ UNCHANGED <<timedOut, failed, exit, marked, reapBy, reaped, now, world>>

\* Mutant of WaitOver: the wait for the exit has no timeout.
WaitOverAtExit == BashGone
WaitOver == BashGone \/ Expired

WaitThen(gone, over) ==
  /\ pc = "wait" /\ WaitOver
  /\ IF BashGone
       THEN pc' = gone /\ reaped' = TRUE /\ UNCHANGED timedOut
       ELSE pc' = over /\ timedOut' = TRUE /\ UNCHANGED reaped
  /\ reapBy' = now + ReapTimeout
  /\ UNCHANGED <<open, events, buf, truncated, failed, exit, marked, now, taken, world>>

\* Mutant of Wait: a command that is over is killed.
WaitAlwaysKill == WaitThen("kill", "kill")

\* Both pipes have ended: proc.wait until the deadline.
Wait == WaitThen("reap", "kill")

\* Mutant of Victims: the signal goes to bash alone.
VictimsBash == {Bash}

\* The processes SIGKILL reaches: killpg of bash's group, and bash.
Victims == group \cup {Bash}

\* _kill_group.
Kill ==
  /\ pc = "kill"
  /\ proc' = [p \in Procs |->
                IF p \notin Victims THEN proc[p]
                ELSE IF proc[p] = "runs" THEN "dead"
                ELSE IF proc[p] = "stalls" THEN "dies" ELSE proc[p]]
  /\ holds' = [p \in Procs |-> IF p \in Victims /\ proc[p] = "runs" THEN {} ELSE holds[p]]
  /\ code' = IF proc[Bash] = "runs" THEN Killed ELSE code
  /\ reapBy' = now + ReapTimeout
  /\ pc' = "reap"
  /\ UNCHANGED <<open, events, buf, truncated, timedOut, failed, exit, marked, reaped, now,
                 taken, group, written>>

\* Mutant of ReapOver: the reap has no timeout.
ReapOverAtExit == BashGone
ReapOver == BashGone \/ now >= reapBy

\* Mutant of Marks: the text's characters are counted, not its bytes.
MarksChars == IF ~truncated THEN {} ELSE {s \in Streams : Len(Decoded(buf[s])) >= Limit}

\* Streams whose decoded text is as long as the cap.
Marks ==
  IF ~truncated THEN {} ELSE {s \in Streams : EncodedLength(Decoded(buf[s])) >= Limit}

\* Mutants of ExitCode: a timeout is not told; a wait that failed is not caught.
ExitCodeRaw == IF BashGone THEN code ELSE Unknown
ExitCodeUncaught == IF timedOut THEN Unknown ELSE code

\* What the answer says of the exit.
ExitCode == IF BashGone /\ ~timedOut THEN code ELSE Unknown

\* The last proc.wait, and the answer run_command makes of it.
Reap ==
  /\ pc = "reap" /\ ReapOver
  /\ reaped' = (reaped \/ BashGone)
  /\ exit' = ExitCode
  /\ marked' = Marks
  /\ pc' = "done"
  /\ UNCHANGED <<open, events, buf, truncated, timedOut, failed, reapBy, now, taken, world>>

\* Time passes while the call is blocked.
Tick ==
  /\ \/ pc = "select" /\ open # {} /\ ~truncated /\ ~Expired /\ Ready = {}
     \/ pc = "wait" /\ ~WaitOver
     \/ pc = "reap" /\ ~ReapOver
  /\ now < Timeout + ReapTimeout + 1
  /\ now' = now + 1
  /\ UNCHANGED <<call, taken, world>>

Call == Start \/ Select \/ (\E s \in Streams : Read(s)) \/ Wait \/ Kill \/ Reap \/ Tick

-----------------------------------------------------------------------------
(* Bash and its children: any program. *)

Fork(p, q) ==
  /\ proc[p] = "runs" /\ proc[q] = "unborn"
  /\ proc' = [proc EXCEPT ![q] = "runs"]
  /\ holds' = [holds EXCEPT ![q] = holds[p]]
  /\ group' = IF p \in group THEN group \cup {q} ELSE group
  /\ UNCHANGED <<call, now, taken, written, code>>

\* A write that fits in the pipe; one that does not, blocks.
Write(p, s, b) ==
  /\ proc[p] = "runs" /\ s \in holds[p]
  /\ Waiting(s) < PipeSize /\ Len(written[s]) < MaxOutput
  /\ written' = [written EXCEPT ![s] = Append(@, b)]
  /\ UNCHANGED <<call, now, taken, proc, group, holds, code>>

\* exec >>"$LOG" 2>&1, or one of the two.
Redirect(p, s) ==
  /\ proc[p] = "runs" /\ s \in holds[p]
  /\ holds' = [holds EXCEPT ![p] = @ \ {s}]
  /\ UNCHANGED <<call, now, taken, proc, group, written, code>>

\* setsid: a child leaves the group.
Leave(p) ==
  /\ proc[p] = "runs" /\ p \in group /\ p # Bash
  /\ group' = group \ {p}
  /\ UNCHANGED <<call, now, taken, proc, holds, written, code>>

Exit(p) ==
  /\ proc[p] = "runs"
  /\ proc' = [proc EXCEPT ![p] = "dead"]
  /\ holds' = [holds EXCEPT ![p] = {}]
  /\ IF p = Bash THEN code' \in Codes ELSE UNCHANGED code
  /\ UNCHANGED <<call, now, taken, group, written>>

\* Uninterruptible sleep; a kill takes effect at its end.
Stall(p) ==
  /\ Stalls /\ proc[p] = "runs"
  /\ proc' = [proc EXCEPT ![p] = "stalls"]
  /\ UNCHANGED <<call, now, taken, group, holds, written, code>>

Resume(p) ==
  /\ proc[p] \in {"stalls", "dies"}
  /\ IF proc[p] = "stalls"
       THEN proc' = [proc EXCEPT ![p] = "runs"] /\ UNCHANGED <<holds, code>>
       ELSE /\ proc' = [proc EXCEPT ![p] = "dead"]
            /\ holds' = [holds EXCEPT ![p] = {}]
            /\ code' = IF p = Bash THEN Killed ELSE code
  /\ UNCHANGED <<call, now, taken, group, written>>

Program ==
  \/ \E p, q \in Procs : Fork(p, q)
  \/ \E p \in Procs, s \in Streams : Redirect(p, s) \/ \E b \in Writes[s] : Write(p, s, b)
  \/ \E p \in Procs : Leave(p) \/ Exit(p) \/ Stall(p) \/ Resume(p)

-----------------------------------------------------------------------------
Init ==
  /\ pc = "start"
  /\ open = {} /\ events = {} /\ marked = {}
  /\ buf = [s \in Streams |-> <<>>]
  /\ truncated = FALSE /\ timedOut = FALSE /\ failed = FALSE
  /\ exit = None
  /\ now = 0 /\ reapBy = 0
  /\ proc = [p \in Procs |-> "unborn"]
  /\ group = {}
  /\ holds = [p \in Procs |-> {}]
  /\ written = [s \in Streams |-> <<>>]
  /\ taken = [s \in Streams |-> 0]
  /\ code = None
  /\ reaped = FALSE

Next == Call \/ Program

Spec == Init /\ [][Next]_vars

\* The thread that runs the call is scheduled, and time passes.  Nothing is
\* assumed of the program.
FairSpec == Spec /\ WF_vars(Call)

-----------------------------------------------------------------------------
(* Properties. *)

TypeOK ==
  /\ pc \in {"start", "select", "read", "wait", "kill", "reap", "done"}
  /\ open \subseteq Streams /\ events \subseteq Streams /\ marked \subseteq Streams
  /\ buf \in [Streams -> Seq(Bytes)] /\ written \in [Streams -> Seq(Bytes)]
  /\ truncated \in BOOLEAN /\ timedOut \in BOOLEAN /\ failed \in BOOLEAN
  /\ reaped \in BOOLEAN
  /\ exit \in Codes \cup {Killed, Unknown, None} /\ (exit = None) = (pc # "done")
  /\ code \in Codes \cup {Killed, None}
  /\ now \in Nat /\ reapBy \in Nat
  /\ proc \in [Procs -> {"unborn", "runs", "stalls", "dies", "dead"}]
  /\ group \subseteq Procs
  /\ holds \in [Procs -> SUBSET Streams]
  /\ taken \in [Streams -> Nat]
  /\ \A s \in Streams : taken[s] <= Len(written[s])

\* However the program and the loop interleave, each buffer is what the program
\* wrote to that stream, from the beginning, up to the cap (_run_capped).
CaptureIsPrefix ==
  \A s \in Streams : buf[s] = SubSeq(written[s], 1, Least(taken[s], Limit))

\* The flags say all: "truncated" is set if and only if a stream reached the cap,
\* no call is both truncated and timed out, and one that is neither has all the
\* program wrote, with nobody left who could write more.
FlagsAreTrue ==
  /\ truncated = \E s \in Streams : Len(buf[s]) = Limit
  /\ ~(truncated /\ timedOut)
  /\ pc = "done" /\ ~truncated /\ ~timedOut /\ ~failed =>
       \A s \in Streams : buf[s] = written[s] /\ AtEof(s)

\* Once the call has killed, and for good, nothing of the group runs: at most a
\* process the kernel has not let go of is left, and it never runs again ("so
\* nothing is left behind").  And once the capture has begun, bash does not outlive
\* the call: "a deadline that covers the command's exit as well as its output,
\* enforced by killing the process group" (ARCHITECTURE.md).  A call that fails in
\* Start leaves bash to run: the selector is made outside the try.
NothingLeftBehind ==
  /\ pc \in {"reap", "done"} /\ (truncated \/ timedOut) =>
       \A p \in group \cup {Bash} : proc[p] \in {"dies", "dead"}
  /\ pc = "done" /\ ~failed => proc[Bash] # "runs"

\* SIGKILL is never sent once bash's pid was given back: it may be another's.
NeverKillsReapedPid == [][pc = "kill" => ~reaped]_vars

\* The answer's exit code is bash's, and unknown only after a timeout, after a
\* failure of the call itself, or when bash cannot be reaped.
ExitCodeIsBashs ==
  pc = "done" /\ ~failed =>
    IF timedOut \/ ~reaped THEN exit = Unknown ELSE exit = code

\* The call is over by the timeout and the time to reap, whatever the program does.
InTime == now <= Timeout + ReapTimeout

\* Every stream that reached the cap carries the marker, though what is measured is
\* no longer the bytes that reached it but the text they decode to: however few its
\* characters, and wherever the cap cuts one (run_command's test, _mark_truncated).
CutStreamsMarked ==
  pc = "done" /\ truncated => \A s \in Streams : Len(buf[s]) = Limit => s \in marked

\* Every call returns.
Returns == <>(pc = "done")

=============================================================================
