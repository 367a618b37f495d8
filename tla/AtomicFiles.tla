---------------------------- MODULE AtomicFiles ----------------------------
(***************************************************************************)
(* What write_file and edit_file of server.py promise, with no temporary   *)
(* files, inodes, links or system calls: a call that succeeds has put the  *)
(* file it was asked for under one name in one step; a call that fails, is *)
(* a dry run, or dies with the server has changed no name.                 *)
(***************************************************************************)
EXTENDS Naturals, Sequences

CONSTANTS
  Calls,    \* tool calls
  Names,    \* names in the directory
  Toks,     \* tokens of file text
  Things,   \* what another process may put under a name
  Requests, \* the calls clients may make
  Events,   \* bound: how often something else than a call does something
  None

VARIABLES
  file,     \* what each name holds: its kind and text, or None
  phase,    \* "waiting", "running", "ok", "error" or "crashed"
  asked,    \* each call's request
  seen,     \* the text an edit works from
  left      \* events that may still happen

vars == <<file, phase, asked, seen, left>>

File(t) == [kind |-> "reg", text |-> t]

\* The text a call asks for.
Outcome(c) ==
  IF asked[c].op = "write" THEN asked[c].text
  ELSE [i \in DOMAIN seen[c] |->
          IF seen[c][i] = asked[c].old THEN asked[c].new ELSE seen[c][i]]

Init ==
  /\ file \in [Names -> Things \cup {None}]
  /\ phase = [c \in Calls |-> "waiting"]
  /\ asked = [c \in Calls |-> None]
  /\ seen = [c \in Calls |-> None]
  /\ left = Events

Start(c) ==
  /\ phase[c] = "waiting"
  /\ \E r \in Requests, p \in {"running", "error"} :
       /\ asked' = [asked EXCEPT ![c] = r]
       /\ phase' = [phase EXCEPT ![c] = p]
  /\ UNCHANGED <<file, seen, left>>

\* An edit reads a file that is there, once, at some moment of the call.
Look(c) ==
  /\ phase[c] = "running" /\ asked[c].op # "write" /\ seen[c] = None
  /\ \E n \in Names :
       /\ file[n] # None /\ file[n].kind = "reg"
       /\ seen' = [seen EXCEPT ![c] = file[n].text]
  /\ UNCHANGED <<file, phase, asked, left>>

\* The only step of a call that changes a name.
Install(c) ==
  /\ phase[c] = "running" /\ asked[c].op # "dry"
  /\ asked[c].op = "edit" => seen[c] # None
  /\ \E n \in Names : file' = [file EXCEPT ![n] = File(Outcome(c))]
  /\ phase' = [phase EXCEPT ![c] = "ok"]
  /\ UNCHANGED <<asked, seen, left>>

Preview(c) ==
  /\ phase[c] = "running" /\ asked[c].op = "dry" /\ seen[c] # None
  /\ phase' = [phase EXCEPT ![c] = "ok"]
  /\ UNCHANGED <<file, asked, seen, left>>

Fail(c) ==
  /\ phase[c] = "running"
  /\ phase' = [phase EXCEPT ![c] = "error"]
  /\ UNCHANGED <<file, asked, seen, left>>

Event == left > 0 /\ left' = left - 1

\* Another process changes one name: a thing of its own, nothing, or a second
\* name for a file that is there.
Elsewhere ==
  /\ Event
  /\ \E n \in Names, f \in Things \cup {None} \cup {file[m] : m \in Names} :
       file' = [file EXCEPT ![n] = f]
  /\ UNCHANGED <<phase, asked, seen>>

\* The server dies.
Crash ==
  /\ Event
  /\ phase' = [c \in Calls |-> IF phase[c] = "running" THEN "crashed" ELSE phase[c]]
  /\ UNCHANGED <<file, asked, seen>>

Next ==
  \/ \E c \in Calls : Start(c) \/ Look(c) \/ Install(c) \/ Preview(c) \/ Fail(c)
  \/ Elsewhere \/ Crash

Spec == Init /\ [][Next]_vars

=============================================================================
