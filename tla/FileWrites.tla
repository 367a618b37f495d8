----------------------------- MODULE FileWrites -----------------------------
(***************************************************************************)
(* write_file and edit_file of server.py: many calls at once, each on a    *)
(* worker thread of one process, over one directory that other processes   *)
(* change as well.  A step is what one call does between two system calls  *)
(* another thread or process may slip between: look at one link of the     *)
(* path, read it, open the directory, stat the name, open the file, read   *)
(* it, create the temporary file, fill it, rename it, remove it.           *)
(*                                                                         *)
(* A file's text is a sequence of tokens; old_str and new_str are single   *)
(* tokens, so "matches exactly once" is "occurs at exactly one position".  *)
(***************************************************************************)
EXTENDS Naturals, Sequences

CONSTANTS
  Calls,      \* tool calls; a call runs once
  Names,      \* names in the directory, temporary files apart
  Inodes,     \* inode numbers, never reused: bounds how many files are made
  Toks,       \* tokens of file text
  BadTok,     \* a token that is not valid UTF-8
  Uids,       \* owners of symbolic links
  Euid,       \* the server's own uid
  DirOwner,   \* owner of the directory
  SharedDir,  \* the directory is sticky and world-writable, like /tmp
  Requests,   \* the calls clients may make
  Layouts,    \* directory contents the server may start with
  Foreign,    \* files another process may put under a name
  MaxHops,    \* _MAX_LINK_HOPS
  MaxBytes,   \* _EDIT_MAX_BYTES, in tokens
  EnvOps,     \* what else happens: see Env
  EnvSteps,   \* bound: how many such events
  BadPath,    \* a path _resolve_path refuses
  None

VARIABLES
  dir,        \* directory entries: a name, or the call whose temporary file it is
  node,       \* the inode table
  parent,     \* the directory exists
  pc,         \* where each call is, and in the end how it returned
  req,        \* its arguments
  at,         \* the name its path resolved to so far; _Target.name
  hops,       \* symbolic links followed so far
  st,         \* _Target.st: what stat saw under the name
  fd,         \* the inode edit_file opened for reading
  text,       \* the bytes to be written
  stuck,      \* calls whose removal of their temporary file failed
  env         \* events of EnvOps that may still happen

files == <<dir, node, parent>>
locals == <<req, at, hops, st, fd, text>>
vars == <<files, pc, locals, stuck, env>>

RegFile(t, w, m) == [kind |-> "reg", text |-> t, whole |-> w, mode |-> m]
Plain(k) == [kind |-> k]

\* What an inode holds.  "whole" is FALSE while only part of the text has
\* reached the file.
Node ==
  [kind : {"reg"}, text : Seq(Toks), whole : BOOLEAN, mode : Nat]
    \cup [kind : {"link"}, to : Names, owner : Uids]
    \cup [kind : {"free", "dir", "fifo"}]

Request ==
  [op : {"write", "edit", "dry"}, path : Names \cup {BadPath}, create : BOOLEAN,
   text : Seq(Toks), old : Toks, new : Toks]

\* Modes are what st_mode & 07777 gives, in decimal.
NewMode == 384              \* 0600
Permissions(m) == m % 512   \* m & 0777

Returned == {"ok", "error"}
Idle == {"idle", "crashed"} \cup Returned
Unlinked == {"walk", "readlink", "opendir", "stat", "open", "slurp", "create"}
Linked == {"fill", "rename", "cleanup"}
Busy == Unlinked \cup Linked

Entries == Names \cup Calls

\* The bytes a file holds can be seen under a name only once it is complete.
Finished(f) == f.kind # "free" /\ (f.kind = "reg" => f.whole)

ASSUME ConstantsOK ==
  /\ Names \cap Calls = {}
  /\ Inodes \subseteq Nat
  /\ None \notin Inodes \cup Node \cup Names \cup Request
  /\ None \notin Seq(Toks) \cup [kind : {"reg"}, text : Seq(Toks)]
  /\ BadPath \notin Names
  /\ BadTok \in Toks
  /\ SharedDir \in BOOLEAN
  /\ Requests \subseteq Request
  /\ Foreign \subseteq {f \in Node : Finished(f)}
  /\ MaxHops \in Nat
  /\ MaxBytes \in Nat
  /\ EnvSteps \in Nat

ASSUME LayoutsOK ==
  \A l \in Layouts :
    /\ l.node \in [Inodes -> Node]
    /\ l.dir \in [Names -> Inodes \cup {None}]
    /\ l.parent \in BOOLEAN
    /\ ~l.parent => \A n \in Names : l.dir[n] = None
    /\ \A n \in Names : l.dir[n] # None => Finished(l.node[l.dir[n]])

-----------------------------------------------------------------------------
Goto(c, l) == pc' = [pc EXCEPT ![c] = l]

IsLink(n) == dir[n] # None /\ node[dir[n]].kind = "link"

\* st_nlink > 1: the same inode under another name.
HardLinked(n) ==
  /\ dir[n] # None
  /\ node[dir[n]].kind = "reg"
  /\ \E m \in Names \ {n} : dir[m] = dir[n]

\* _link_hop_allowed: the fs.protected_symlinks rule for one link.
HopAllowed(n) == SharedDir => node[dir[n]].owner \in {Euid, DirOwner}

Matches(t, tok) == {i \in DOMAIN t : t[i] = tok}
MatchesOnce(t, tok) == \E i \in DOMAIN t : Matches(t, tok) = {i}
Replace(t, old, new) == [i \in DOMAIN t |-> IF t[i] = old THEN new ELSE t[i]]
NotUtf8(t) == Matches(t, BadTok) # {}

\* The mode of the file that takes the name.
InstallMode(s) == IF s # None /\ s.kind = "reg" THEN Permissions(s.mode) ELSE NewMode

\* The next unused inode number.
Fresh(i) ==
  /\ node[i].kind = "free"
  /\ \A j \in Inodes : node[j].kind = "free" => i <= j

-----------------------------------------------------------------------------
(* One tool call. *)

\* _resolve_path refuses a relative path and one with a literal "~".
PathRefused(path) == path = BadPath

\* The call arrives.
Begin(c) ==
  /\ pc[c] = "idle"
  /\ \E r \in Requests :
       /\ req' = [req EXCEPT ![c] = r]
       /\ at' = [at EXCEPT ![c] = r.path]
       /\ text' = [text EXCEPT ![c] = r.text]
       /\ Goto(c, IF PathRefused(r.path) THEN "error" ELSE "walk")
  /\ UNCHANGED <<files, hops, st, fd, stuck, env>>

\* Mutants of MayFollow: the limit is off by one; only the first link is checked.
MayFollowOneMore(c) == HopAllowed(at[c]) /\ hops[c] <= MaxHops
MayFollowFirstOnly(c) == (hops[c] = 0 => HopAllowed(at[c])) /\ hops[c] < MaxHops

MayFollow(c) == HopAllowed(at[c]) /\ hops[c] < MaxHops

\* _checked_resolve, one component: a link may be followed if the rule allows it
\* and the hop limit is not passed; anything else, or nothing, ends the walk.
Walk(c) ==
  /\ pc[c] = "walk"
  /\ \/ /\ ~IsLink(at[c])
        /\ Goto(c, "opendir") /\ UNCHANGED hops
     \/ /\ IsLink(at[c]) /\ MayFollow(c)
        /\ hops' = [hops EXCEPT ![c] = @ + 1]
        /\ Goto(c, "readlink")
     \/ /\ IsLink(at[c]) /\ ~MayFollow(c)
        /\ Goto(c, "error") /\ UNCHANGED hops
  /\ UNCHANGED <<files, req, at, st, fd, text, stuck, env>>

\* Its readlink, which fails if there is no link any more, and which reads the
\* link that is there now, not the one the rule was applied to.
Follow(c) ==
  /\ pc[c] = "readlink"
  /\ IF IsLink(at[c])
       THEN at' = [at EXCEPT ![c] = node[dir[at[c]]].to] /\ Goto(c, "walk")
       ELSE Goto(c, "error") /\ UNCHANGED at
  /\ UNCHANGED <<files, req, hops, st, fd, text, stuck, env>>

\* _open_dir: write_file may create the directory, edit_file never does.
OpenDir(c) ==
  /\ pc[c] = "opendir"
  /\ IF parent \/ (req[c].op = "write" /\ req[c].create)
       THEN parent' = TRUE /\ Goto(c, "stat")
       ELSE Goto(c, "error") /\ UNCHANGED parent
  /\ UNCHANGED <<dir, node, locals, stuck, env>>

\* Mutant of StatRefuses: hard links matter to edit_file only.
StatRefusesNoLinkCheck(c) ==
  \/ dir[at[c]] = None /\ req[c].op # "write"
  \/ dir[at[c]] # None /\ node[dir[at[c]]].kind = "dir"
  \/ req[c].op = "edit" /\ HardLinked(at[c])

\* The checks of _Target.__init__ on the name itself, and edit_file's "not found".
StatRefuses(c) ==
  \/ dir[at[c]] = None /\ req[c].op # "write"
  \/ dir[at[c]] # None /\ node[dir[at[c]]].kind = "dir"
  \/ HardLinked(at[c])

Stat(c) ==
  /\ pc[c] = "stat"
  /\ st' = [st EXCEPT ![c] = IF dir[at[c]] = None THEN None ELSE node[dir[at[c]]]]
  /\ Goto(c, IF StatRefuses(c) THEN "error"
             ELSE IF req[c].op = "write" THEN "create" ELSE "open")
  /\ UNCHANGED <<files, req, at, hops, fd, text, stuck, env>>

\* Mutant of OpenForRead: without O_NONBLOCK, opening a FIFO waits for a writer.
OpenForReadBlocks(c) ==
  /\ pc[c] = "open"
  /\ dir[at[c]] # None => node[dir[at[c]]].kind # "fifo"
  /\ Goto(c, "error")
  /\ UNCHANGED <<files, locals, stuck, env>>

\* _read_regular up to fstat: no link is followed, and O_NONBLOCK keeps a FIFO
\* from holding the thread, so whatever is there now is decided at once.
OpenForRead(c) ==
  /\ pc[c] = "open"
  /\ LET i == dir[at[c]] IN
       IF i # None /\ node[i].kind = "reg" /\ Len(node[i].text) <= MaxBytes
         THEN fd' = [fd EXCEPT ![c] = i] /\ Goto(c, "slurp")
         ELSE Goto(c, "error") /\ UNCHANGED fd
  /\ UNCHANGED <<files, req, at, hops, st, text, stuck, env>>

\* The read itself, and _edit: decode, match exactly once, replace.
Slurp(c) ==
  /\ pc[c] = "slurp"
  /\ LET t == node[fd[c]].text
         r == req[c]
     IN IF Len(t) > MaxBytes \/ NotUtf8(t) \/ ~MatchesOnce(t, r.old)
          THEN Goto(c, "error") /\ UNCHANGED text
          ELSE IF r.op = "dry"
                 THEN Goto(c, "ok") /\ UNCHANGED text
                 ELSE /\ text' = [text EXCEPT ![c] = Replace(t, r.old, r.new)]
                      /\ Goto(c, "create")
  /\ UNCHANGED <<files, req, at, hops, st, fd, stuck, env>>

CreateAs(c, i) ==
  /\ pc[c] = "create"
  /\ node' = [node EXCEPT ![i] = RegFile(<<>>, FALSE, NewMode)]
  /\ dir' = [dir EXCEPT ![c] = i]
  /\ Goto(c, "fill")
  /\ UNCHANGED <<parent, locals, stuck, env>>

\* Mutants of Create: without O_EXCL, a temporary name two calls share; the file
\* itself opened and truncated.
CreateShared(c) ==
  \E i \in Inodes : (Fresh(i) \/ \E o \in Calls : i = dir[o]) /\ CreateAs(c, i)
CreateInPlace(c) ==
  /\ pc[c] = "create"
  /\ \E i \in Inodes : (i = dir[at[c]] \/ (dir[at[c]] = None /\ Fresh(i))) /\ CreateAs(c, i)

\* _create_temp: O_EXCL under a random name, mode 0600.
Create(c) == \E i \in Inodes : Fresh(i) /\ CreateAs(c, i)

FillAs(c, m) ==
  /\ pc[c] = "fill"
  /\ node' = [node EXCEPT ![dir[c]] = RegFile(text[c], TRUE, m)]
  /\ Goto(c, "rename")
  /\ UNCHANGED <<dir, parent, locals, stuck, env>>

\* Mutant of Fill: fchmod is left out.
FillNoChmod(c) == FillAs(c, NewMode)

\* write, fchmod, close: the temporary file is complete.
Fill(c) == FillAs(c, InstallMode(st[c]))

\* os.replace: the entry now under the name is replaced, whatever it is, but
\* a directory cannot be.
Rename(c) ==
  /\ pc[c] = "rename"
  /\ IF dir[at[c]] # None /\ node[dir[at[c]]].kind = "dir"
       THEN Goto(c, "cleanup") /\ UNCHANGED dir
       ELSE /\ dir' = [dir EXCEPT ![at[c]] = dir[c], ![c] = None]
            /\ Goto(c, "ok")
  /\ UNCHANGED <<node, parent, locals, stuck, env>>

\* Mutant of Cleanup: the exception is not raised again.
CleanupSwallows(c) ==
  /\ pc[c] = "cleanup"
  /\ dir' = [dir EXCEPT ![c] = None]
  /\ Goto(c, "ok")
  /\ UNCHANGED <<node, parent, locals, stuck, env>>

\* The except branch of _write_into: remove the temporary file; a failure to
\* do so is suppressed.
Cleanup(c) ==
  /\ pc[c] = "cleanup"
  /\ \/ dir' = [dir EXCEPT ![c] = None] /\ UNCHANGED stuck
     \/ stuck' = stuck \cup {c} /\ UNCHANGED dir
  /\ Goto(c, "error")
  /\ UNCHANGED <<node, parent, locals, env>>

\* Mutants of FailsTo: a failed write does not stop the rename; a failed write
\* leaves without removing the temporary file.
FailsToIgnored(l) ==
  CASE l \in Unlinked -> {"error"} [] l = "fill" -> {"rename"} [] OTHER -> {}
FailsToReturn(l) ==
  CASE l \in Unlinked \cup {"fill"} -> {"error"} [] OTHER -> {}

\* Where an exception takes a call.
FailsTo(l) ==
  CASE l \in Unlinked -> {"error"}
    [] l \in {"fill", "rename"} -> {"cleanup"}
    [] OTHER -> {}

\* Any system call may fail (EACCES, ENOSPC, EIO, ...), encoding the text too.
Fault(c) ==
  /\ \E l \in FailsTo(pc[c]) : Goto(c, l)
  /\ UNCHANGED <<files, locals, stuck, env>>

Step(c) ==
  \/ Walk(c) \/ Follow(c) \/ OpenDir(c) \/ Stat(c) \/ OpenForRead(c) \/ Slurp(c)
  \/ Create(c) \/ Fill(c) \/ Rename(c) \/ Cleanup(c)

-----------------------------------------------------------------------------
(* Other processes, and the end of this one.  They leave temporary files    *)
(* alone: their names are random.                                           *)

Happens(o) == o \in EnvOps /\ env > 0 /\ env' = env - 1

\* Another process moves a file of its own, a link or a directory under a name;
\* only a directory replaces a directory.
EnvPut(n) ==
  /\ Happens("put") /\ parent
  /\ \E i \in Inodes, f \in Foreign :
       /\ Fresh(i)
       /\ dir[n] # None => (node[dir[n]].kind = "dir" <=> f.kind = "dir")
       /\ node' = [node EXCEPT ![i] = f]
       /\ dir' = [dir EXCEPT ![n] = i]
  /\ UNCHANGED <<parent, pc, locals, stuck>>

EnvUnlink(n) ==
  /\ Happens("unlink") /\ dir[n] # None
  /\ dir' = [dir EXCEPT ![n] = None]
  /\ UNCHANGED <<node, parent, pc, locals, stuck>>

EnvHardLink(n, m) ==
  /\ Happens("link") /\ dir[n] # None /\ dir[m] = None
  /\ node[dir[n]].kind # "dir"
  /\ dir' = [dir EXCEPT ![m] = dir[n]]
  /\ UNCHANGED <<node, parent, pc, locals, stuck>>

\* Another process rewrites a file where it stands, or changes its mode.
EnvInPlace(n) ==
  /\ Happens("inplace") /\ dir[n] # None
  /\ \E f \in Foreign :
       /\ f.kind = "reg" /\ node[dir[n]].kind = "reg"
       /\ node' = [node EXCEPT ![dir[n]] = f]
  /\ UNCHANGED <<dir, parent, pc, locals, stuck>>

\* The server process dies and is restarted: its calls are gone, what they
\* had done to the directory is not.
Crash ==
  /\ Happens("crash")
  /\ pc' = [c \in Calls |-> IF pc[c] \in Busy THEN "crashed" ELSE pc[c]]
  /\ UNCHANGED <<files, locals, stuck>>

Env ==
  \/ \E n \in Names : EnvPut(n) \/ EnvUnlink(n) \/ EnvInPlace(n)
  \/ \E n, m \in Names : EnvHardLink(n, m)
  \/ Crash

-----------------------------------------------------------------------------
Init ==
  /\ \E l \in Layouts :
       /\ dir = [e \in Entries |-> IF e \in Names THEN l.dir[e] ELSE None]
       /\ node = l.node
       /\ parent = l.parent
  /\ pc = [c \in Calls |-> "idle"]
  /\ req = [c \in Calls |-> None]
  /\ at = [c \in Calls |-> None]
  /\ hops = [c \in Calls |-> 0]
  /\ st = [c \in Calls |-> None]
  /\ fd = [c \in Calls |-> None]
  /\ text = [c \in Calls |-> <<>>]
  /\ stuck = {}
  /\ env = EnvSteps

Next ==
  \/ \E c \in Calls : Begin(c) \/ Step(c) \/ Fault(c)
  \/ Env

Spec == Init /\ [][Next]_vars

\* A worker thread that can take a step is eventually scheduled, and every
\* system call it makes returns.  No system call has to fail.
FairSpec == Spec /\ \A c \in Calls : WF_vars(Step(c))

-----------------------------------------------------------------------------
(* Properties. *)

\* The types, with the facts that make them hold: a call has a request and a
\* name once it has begun, and reads only from a regular file.
TypeOK ==
  /\ dir \in [Entries -> Inodes \cup {None}]
  /\ node \in [Inodes -> Node]
  /\ parent \in BOOLEAN
  /\ pc \in [Calls -> Idle \cup Busy]
  /\ req \in [Calls -> Request \cup {None}]
  /\ at \in [Calls -> Names \cup {BadPath, None}]
  /\ hops \in [Calls -> 0..MaxHops]
  /\ st \in [Calls -> Node \cup {None}]
  /\ fd \in [Calls -> Inodes \cup {None}]
  /\ text \in [Calls -> Seq(Toks)]
  /\ stuck \subseteq Calls
  /\ env \in 0..EnvSteps
  /\ \A c \in Calls : pc[c] \in Busy => req[c] # None /\ at[c] \in Names
  /\ \A c \in Calls : pc[c] = "slurp" => fd[c] # None
  /\ \A c \in Calls : fd[c] # None => node[fd[c]].kind = "reg"

\* A name always holds a complete file, the old one or the new one: no
\* interleaving, failed system call or crash of the server shows a reader a
\* truncated mix (_write_into).
WholeOnly == \A n \in Names : dir[n] # None => Finished(node[dir[n]])

\* The temporary file of a call is in no other call's hands and under no name
\* before its rename, and from there on it is complete: two calls that write
\* the same name never fill the same file (_create_temp, _write_into).
TempsPrivate ==
  /\ \A c \in Calls : dir[c] # None => \A e \in Entries \ {c} : dir[e] # dir[c]
  /\ \A c \in Calls : pc[c] \in Linked => dir[c] # None
  /\ \A c \in Calls : pc[c] = "rename" => Finished(node[dir[c]])
  /\ \A e \in Entries : dir[e] # None => node[dir[e]].kind # "free"

\* A temporary file outlives its call only if the server died during the call
\* or could not remove it (_write_into's except branch).
NoLitter ==
  \A c \in Calls :
    dir[c] # None => pc[c] \in Linked \cup {"crashed"} \/ c \in stuck

\* The server never changes a file that has a name, not even when a link or
\* another file was put there after its checks: what is under the name is
\* replaced, never written through (_write_into).
NoWriteThrough ==
  [][env' = env =>
       \A i \in Inodes : node'[i] # node[i] => \A n \in Names : dir[n] # i]_vars

\* The names links lead through, from a name on.
Trails(name) ==
  {t \in [0..MaxHops -> Names] :
     /\ t[0] = name
     /\ \A k \in 1..MaxHops : t[k] = IF IsLink(t[k-1]) THEN node[dir[t[k-1]]].to ELSE t[k-1]}

Installs(c) == pc[c] = "rename" /\ pc'[c] = "ok"

\* While no other process changes the directory, a write goes through links to
\* the file they lead to, and never replaces a link, however many calls
\* overlap (write_file's docstring); and every link it went through is one that
\* fs.protected_symlinks lets the server follow (_link_hop_allowed).
WritesThroughLinks ==
  [][\A c \in Calls : Installs(c) =>
       \E trail \in Trails(req[c].path) :
         /\ at[c] = trail[MaxHops] /\ ~IsLink(at[c])
         /\ \A k \in 0..MaxHops : IsLink(trail[k]) => HopAllowed(trail[k])]_vars

\* A rename never detaches a name from its other hard links, unless another
\* process made such a link after the check (LinkedFileError).
HardLinksIntact ==
  [][\A c \in Calls : Installs(c) => ~HardLinked(at[c])]_vars

\* A file that is replaced leaves its permission bits to the new one, and a new
\* file is private, whichever of two overlapping calls comes last (_write_into).
PermissionsKept ==
  [][\A c \in Calls : Installs(c) =>
       node[dir[c]].mode = InstallMode(IF dir[at[c]] = None THEN None
                                       ELSE node[dir[at[c]]])]_vars

\* "Only the matched span changes; every other byte is written back as it was"
\* (edit_file): what an edit installs is what it replaces, edited.
EditOnlyChangesSpan ==
  [][\A c \in Calls : Installs(c) /\ req[c].op = "edit" /\ dir[at[c]] # None =>
       node[dir[c]].text = Replace(node[dir[at[c]]].text, req[c].old, req[c].new)]_vars

\* Every call returns, whatever other processes do to the directory meanwhile:
\* links that form a cycle or a chain that keeps growing do not hold it.
Returns == \A c \in Calls : pc[c] \in Busy ~> pc[c] \in Idle

-----------------------------------------------------------------------------
(* What is seen under the names, and how each call stands. *)

View(f) == IF f.kind = "reg" THEN [kind |-> "reg", text |-> f.text] ELSE f

Phase(l) ==
  CASE l = "idle" -> "waiting" [] l \in Busy -> "running" [] OTHER -> l

Abstract == INSTANCE AtomicFiles WITH
  Things <- {View(f) : f \in Foreign} \cup
            UNION {{View(l.node[l.dir[n]]) : n \in {m \in Names : l.dir[m] # None}} : l \in Layouts},
  Events <- EnvSteps,
  file <- [n \in Names |-> IF dir[n] = None THEN None ELSE View(node[dir[n]])],
  phase <- [c \in Calls |-> Phase(pc[c])],
  asked <- req,
  seen <- [c \in Calls |-> IF fd[c] = None THEN None ELSE node[fd[c]].text],
  left <- env

\* Through all its system calls and whatever happens between them, a call is one
\* atomic change of one name if it succeeds and no change if it does not, and
\* an edit's outcome is a text it read during the call, edited (as long as no
\* other process rewrites files where they stand).
ImplementsAtomicFiles == Abstract!Spec

=============================================================================
