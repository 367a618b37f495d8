# Verification of homelab-ops-mcp

TLA+ specifications of homelab-ops-mcp, an MCP server that gives every client on
a host the same few tools: run a command, read, write and edit files, list
directories and processes. One process serves all clients, each tool call on a
worker thread, and other processes use the same file system meanwhile. The
specifications are written from the code (`src/homelab_ops_mcp/`), checked with TLC
on small instances, and proved with TLAPS where that is done. `PROJECT.json` lists
the runs, the mutants that show that each property can fail, the source lines of each
definition, the disagreements found between the code and its own words, the hazards
the properties are for, and the theorems.

## Inventory

| Component | State | Operations | Hard behaviour | What makes it correct |
|---|---|---|---|---|
| File writes (`write_file`, `edit_file`) | the directory, the inodes, each call's target, open file, temporary file | resolve, open the directory, stat, read, create, fill, rename, clean up | calls on one name at once; other processes between any two system calls; any of these failing; the server dying | a name shows a whole file always; a call is one atomic change or none; nothing is left behind; links, hard links and modes are respected; calls return |
| Command execution (`run_command`) | the two buffers, flags, bash and what it starts, the pipes, the clock | start, select, read, wait, kill, reap | program and loop interleave; caps and deadlines at the same moment; processes that leave the group or cannot be killed | what is captured is what was written, up to the cap; the flags and the exit code are true; nothing runs on; the call is in time |
| File reading (`read_file`) | decoder, content, line counter, budget | one chunk at a time | chunks end inside lines and characters; budgets end inside characters; files end without newline | content, range, totals and flags are those of the file |
| Several files (`read_multiple_files`) | budget, entries | one path at a time | repeated and missing files, files that change | one budget for all, counts of what is there |
| Telemetry (`telemetry.py`) | the sink loop and its lock, tasks, the executor, the InfluxDB client, the NATS connection, shutdown's progress | emit, schedule, publish, write, drain, shut down | threads emit first at once, or while shutdown runs; sinks that hang; connections that drop | one loop, one connection; what was recorded before shutdown is not lost to it; nobody waits for a sink |
| Path validation (`_resolve_path`, `_checked_resolve`) | hops, components left | one component at a time | links and `..` resolved in userspace, then by the kernel | the answer is the kernel's, and the rule is applied to every link the kernel follows |
| Edit text (`_edit`, `_closest_match`) | none | match, replace, hint | CRLF, overlapping matches, the hint's shortcuts | one span changes, CRLF files stay so, the hint is the best window |
| Directory listing (`read_directory`) | the open calls of `_list`, the entries so far | look up, list, look at an entry, descend | the tree changes between any two system calls; links, also in cycles; what may not be read | what stays is listed; nothing is said that never was so |
| Command classification (`verbclass.py`) | none | tokenise, split, strip wrappers, classify | nesting, wrappers, options, length | the class is that of the most significant command that runs |
| Child environment | none | filter | - | a withheld name is not passed on |
| Process listing, Host and Origin check, logging, entry point | none | - | - | - |

The components meet in few places: every tool call is wrapped by telemetry
(`_instrumented`), which sees only its name, its duration and whether it failed;
`read_multiple_files` calls `read_file`'s body with what is left of its budget;
`write_file` and `edit_file` share the target and the write; `main` calls
`telemetry.shutdown` when the server has stopped. The tools share no state in the
process: calls meet in the file system.

## Modules

| Module | Models | State and actions |
|---|---|---|
| `FileWrites` | `write_file`, `edit_file` and all they call | `dir` and `node` are the directory and the inode table; a call's temporary file is the entry `dir[c]`. `Begin` is the call's arrival, `Walk` and `Follow` `_checked_resolve` (lstat and the rule; readlink), `OpenDir` `_open_dir`, `Stat` `_Target.__init__`, `OpenForRead` and `Slurp` `_read_regular` and `_edit`, `Create`, `Fill`, `Rename`, `Cleanup` `_create_temp` and `_write_into`; `Fault` is any system call failing; `Env` is other processes, and `Crash` the death of the server |
| `AtomicFiles` | what these two promise | one step per call changes one name, or none does |
| `FileWritesProofs` | - | theorems about `FileWrites`: types and whole files; that it implements `AtomicFiles`; links, hard links and permissions |
| `RunCommand` | `run_command`, `_run_capped`, `_kill_group` | `pc` is where the call is; `proc`, `group`, `holds`, `written` are bash and its children; `Program` is what they may do; `Tick` is the clock while the call blocks |
| `RunCommandProofs`, `ReadLinesProofs`, `ReadFilesProofs`, `TelemetryProofs` | - | theorems about the module of that name |
| `Utf8Text` | the measure and the cut of decoded text | operators only |
| `FoldLemmas` | - | what the folds over sequences and sets, and `Size` and `CutTo` of `Utf8Text`, return |
| `ReadLines` | `_read_file`, `_read_lines_capped` | one action per branch of the loop over chunks |
| `ReadFiles` | `read_multiple_files` | one action per branch of the loop over paths; a read returns what `ContentIsRange` of `ReadLines` says, which is proved |
| `Telemetry` | the sinks of `telemetry.py` | `tpc` is each call's thread (`Finish`, `Emit`, `Lock`, `Make`, `Post`), `rec` each record's coroutine (`HandOver`, `Publish`, `Connect`, `TakeUp`, ...), `spc` the main thread in `shutdown` |
| `Trees` | the file system, as `PathResolve` and `ReadDirectory` see it | no state: a tree is a function from places to nodes, and `Physical` is path resolution as the kernel does it, component by component, with a link resolved as a whole where it is met; written apart from the code |
| `PathResolve` | `_resolve_path`, `_link_hop_allowed`, `_checked_resolve` | `parts`, `resolved` and `hops` are the code's; `Validate` is `_resolve_path`, then one action per branch of the loop: `Climb` (`..`), `JoinMissing`, `CannotLook`, `Pass`, `Hop` (a link), `Arrive`. The tree stands still |
| `EditText` | the matching in `_edit`, `_closest_match` | `call` is the call, which nothing changes: `Edit` is what `_edit` makes of a text, `Closest` the scan over windows |
| `VerbClass` | `verbclass.py` | no state: one operator per function, tokens as the lexer leaves them |
| `ReadDirectory` | `read_directory` | `stack` holds the calls of `_list`, each its directory and what is left of its names; `Exists`, `IsDirectory`, `ListDir`, `Look`, `SizeOf`, `Descend` are its system calls; `Change` is other processes; `was` remembers the trees there have been |
| `TreeProofs`, `EditTextProofs` | - | theorems about `PathResolve` and `ReadDirectory`, and about `EditText` |
| `MCTools` | - | one call of any of these four: the grammar of commands, the trees, texts and windows they are given |
| other `MC*` | small instances | |

A step of a model is what the code does between two points where something else
can run: two system calls of a thread, two suspensions of a task, two waits of the
capture loop.

What is abstracted: text is a sequence of tokens (`FileWrites`), of characters that are
CR, LF or neither (`EditText`), or of bytes, of which only the kind is kept (`RunCommand`, `ReadLines`), as
far as the properties tell them apart; `FileWrites` has names in one directory, `PathResolve` and
`ReadDirectory` have trees; each table of `VerbClass` has a few words of its kind; wording and
logging are left out. difflib's similarity of two texts is a number in `EditText`, with what
difflib promises of its quick bound; that none is made for a file or an `old_str` that is too long (`_CLOSEST_MATCH_MAX_BYTES`, `_CLOSEST_MATCH_MAX_OLD`) is left out. `ReadDirectory` has pathlib's behaviour in Python 3.11 to
3.13, where `is_dir` raises PermissionError (from 3.14 on it does not). The fill of a temporary
file is one step, since nobody can see it half done: its name is random, and the
model's `Crash` before it and after it leave what a crash in the middle leaves.
`RunCommand`'s own steps take no time. In `Telemetry`, a NATS publish over a connection
is one step, and the InfluxDB client's `close()` returns; a write or a connect may take for ever.
`conn.drain()` raises at once on a connection that is not up; on one that is, it awaits the server, and then
closes the connection, fails, or never ends (`Callback`, `Drained`). Time is left out there: each
wait of `shutdown` that has a timeout may run out if what it waits for is up to a server, or to a
loop whose thread is held up (`stalls`): the drain's result (`DrainGivenUp`), that of `conn.drain()`
(`ResultWaited`), the join, after which the loop's `close` fails (`Join`).
A wait whose end is only up to a loop that is free to run is taken to see it: its 5 s are not the time of a few callbacks.

## Runs

Passing runs, with their bounds:

| Run | Question | Bounds |
|---|---|---|
| `file_race` | Are names always whole, temporary files private and gone, named files untouched, and is each call one atomic change (`ImplementsAtomicFiles`, a refinement of `AtomicFiles`)? | two calls, three names, a file and a link to it, two events of other processes or a crash |
| `file_quiet` | Do writes land where links lead, over links the rule allows? Is no name ever detached from its hard links? Do permission bits survive overlapping calls? | two calls and a crash, but no other process; a sticky shared directory with chains up to the hop limit of 2, cycles, dangling links, a foreign link first or second, two names of one file, a setuid file, no directory |
| `file_returns` | Does each call return? | one call against directories, FIFOs, cycles, files too long or not UTF-8, and two events that plant files, FIFOs and links or write in place |
| `cmd_race` | Are buffers, flags, exit code and markers true, is nothing left running, is the call in time, and does it return? | bash and one child, cap 2, chunk 2, pipe 2, three bytes per stream (lead bytes of two and of three and continuations on one, ASCII on the other), timeout 1, reap 1; Popen or the selector may fail |
| `read_range` | Is the answer that of decoding the range as a whole? | every file of up to 5 bytes of 4 kinds, starts 0..3, ends 0..2, budgets 1, 2, 3, 5, chunks of 2 |
| `read_many` | Is there one budget, used up before anything is refused, and are the counts true? | lists of up to 4 of 3 paths, 5 texts, 4 budgets, one change |
| `tel_race` | One loop, one connection, nothing early lost, connections closed but for one per drop and one whose server held up its drain? | two calls, both sinks, one executor thread, one drop, a loop that keeps up |
| `tel_returns` | Do tool calls and shutdown get through whatever the sink does? | two calls; InfluxDB with one executor thread, or NATS with one drop and a drain that may hang; a loop that keeps up or stalls |
| `tools` | Is what an edit changes one span, and is CRLF kept? Is the hint the best window? Does the walk in userspace agree with the kernel's and check every link? Is a command's class that of what it runs? Does a listing say what is there? | texts of up to 5 characters, `old_str` of up to 3; 2 windows; trees of 3 places below the root, paths of up to 4 components, 2 hops; 28 simple commands and two with a `-c` of git's own, wrapped, joined or nested twice, depth 2, cut at 12 tokens; directories three deep with links, locked and closed ones, `max_depth` 0..3, two changes |

The bounds are small, but each is past the point where the interesting case
happens: two calls are enough for every race between calls, since no step depends
on more than one other call's; a cap of two and three bytes to write put the cap before, at and after
a chunk's end; a cycle is longer than any hop limit; the grammar of commands has the forms the project's
README says are seen through, and those known not to be, and two wraps put each form inside each other one; two changes to a
tree take away a directory that was seen and put another in its place; five bytes hold a
character split by a chunk, an invalid byte and three line ends. TLC explores all of
each instance. A cap of two cuts a character of three bytes, and a whole one of two bytes fills it: counted in
characters, neither would reach it. `tel_race` with a loop that may stall passes as well, in 19 million states; the
run keeps to one that does not, and the theorem `AtMostOneLoop` is about both. Symmetry between calls or paths is used only in runs without liveness
properties. Deadlock is not checked: every model ends, with its calls over.

Runs that find a violation, each of a sentence in the repository:

| Run | The words | The code |
|---|---|---|
| `file_lost_edit` | `edit_file`: "Only the matched span changes" | of two overlapping edits, the first to be installed is undone by the second |
| `tel_held` | `_ensure_loop`: "must not hold the process open" | the executor's threads are joined at exit |
| `verb_config` | `classify_verb`: "`other` is a positive claim that this was not a repo operation" | an argument `-c` is taken to bear a command before the name `git` is looked at: `git -c user.name=x commit` and `git switch -c b` are `other` |

More disagreements have no run of their own; each can be seen in the models.

- `_mark_truncated` is to make "truncation distinguishable from brevity", but once one stream was cut,
  a complete one with invalid bytes is marked too if its decoded text, U+FFFD for each of them, is
  as long as the cap (`server.py:691`, `Marks` of `RunCommand`). `CutStreamsMarked` states the direction that holds.
- "A line counts as returned only if some of it was" (`server.py:767`), but a last line that is
  only a partial character is shown and not counted: `Flush` of `ReadLines` does not touch
  `returnedLast`. `NamedLinesAreThere` states the direction that holds.
- `edit_file` says that an `old_str` with LF breaks is matched against the CRLF form. One that
  only begins with LF matches as it stands, at the second half of a CRLF, and `new_str` is put in with
  its LF: `StaysCrlf` of `EditText` asks for a break after the first character, and is violated without.
- "Must match exactly once" is `str.count`: matches that overlap count once (`xx` in `xxx`), and
  the first is replaced. `OneSpan` therefore speaks of places apart from each other.
- Some commands are misread, and most of them as less than they are, although "Ambiguity resolves toward *write*"
  (`verbclass.py:13`). The grammar of `MCTools` builds them and names the reason, `odd`, and
  `ClassIsWhatRuns` excepts just those; without the exception of one kind it is violated by that kind. They
  are: git's own `-c` (`ownC`, the run `verb_config`); a flag of a wrapper that the table has wrong (`flag`): one that takes
  no value there but is skipped with one, `sudo -n git push`, or takes one that is not known, `timeout -k 5 30 git push`;
  arguments that only `xargs` adds (`xargs`): `xargs git tag` makes tags and is `git_read`; and a
  substitution within double quotes (`quotes`): `echo "$(git push)"` is `other`. Left out of the
  grammar, and misread too: `find . -exec git tag {} \;`, since `{}` is dropped from the payload
  (`verbclass.py:551`; the grammar puts in `find` only commands whose class one more argument does not change);
  shell keywords (`if`, `then`); `gh api -XPOST`. A payload nested deeper than four is `other`, where
  a command that is too long is `unclassified`; and of one that is too long the property says only that, since
  a write beyond the cut, after a read before it, is classified as the read.
- `..` after a file, or in a directory that may not be searched, is refused by the kernel and accepted by `_checked_resolve`
  (`server.py:293`): the write then lands in the parent. `ResolvesAsKernel` names the exception (`above`).
- `read_directory` gives up a directory at its first entry that is denied, a link into a closed
  directory say, and the entries sorted after it are missing with only the error entry to tell; a
  subdirectory that is removed between `is_dir` and `iterdir` fails the whole call; and an entry that
  is removed after its name was read is a "file". `ListsWhatStays` and `SaysWhatWas` say
  what can be relied on.

- `DefaultSelector()` is made after `Popen` and outside the `try` (`server.py:500`). If it
  fails, the call reports an error and bash runs on with no deadline: the second way through
  `Start` of `RunCommand`. `NothingLeftBehind` therefore speaks of calls that did not
  fail there; without its last `~failed` it is violated in `cmd_race`.
- A NATS connection that is reconnecting is replaced by the next record and forgotten
  (`telemetry.py:227`); one that is reconnecting when `shutdown` drains it may refuse.
  Either may stay open: `ConnectionsClosed` allows one per drop, and with none left
  (`= 0`) it is violated in `tel_race`. So may one that is up: `shutdown` gives its drain up
  after 5 s (`telemetry.py:366`) and never calls `close()` on it. The property allows one such connection, since
  `shutdown` puts only the last one to the drain.
- `shutdown` forgets a loop whose thread does not stop within 5 s (`telemetry.py:377`), and a tool call that
  finishes late then starts another: `OneLoop` does not count a loop that stalls and was told to stop.
- `_write_into` keeps `st_mode & 0o777` (`server.py:398`), so setuid, setgid and sticky are
  dropped where its docstring says that an existing file's mode is kept. `PermissionsKept`
  is about the nine bits the code keeps.
- A line longer than the budget has a rest that no later `start_line` reaches, where
  `read_file` says to read the rest with one (`server.py:858`).

## Fairness

Safety runs assume none. `FileWrites!FairSpec`: a worker thread that can take a step
is scheduled and its system calls return (`WF` of each call's own steps, not of
`Fault`, of `Begin` or of other processes). `RunCommand!FairSpec`: the thread of the call is scheduled
and time passes; nothing is assumed of the program. `Telemetry!FairSpec`: threads,
the executor and the main thread (once shutdown has begun) are scheduled, and so are the loop and its tasks unless the loop stalls;
nothing is assumed of the sinks, of a write, a connect or the drain of a connection. The operating system's and asyncio's schedulers
give this much; only weak fairness is used.

## Proofs

TLC checks an instance; the theorems hold for every value of the constants. They rest on the
assumptions of each module (`ConstantsOK`, `LayoutsOK` of `FileWrites`, `NoneIsNoEntry` of `ReadFiles`, `HopsOK`, `PathsOK` and
`ListOK` of the trees) and on nothing else: constants have their types, inode numbers are numbers, other processes and the initial
directory hold whole files, `None` is none of the values it stands beside, what is in a tree is in
directories of it, and no entry is called `..`. Every
inductive invariant of a specification was checked by TLC on the instance of the runs before it was proved, and
every safety property of a passing run is a theorem but one, `ClassIsWhatRuns`.

### File writes

For any number of calls, names, inodes, requests, layouts and events.

First types and whole files:

- `TypeCorrect`: `Spec => []TypeOK`. The last conjuncts of `TypeOK` are needed to be
  inductive: a call in progress has a request and a name, and reads from a regular file.
- `NamesShowWholeFiles`, `TemporaryFilesPrivate`: `Spec => []WholeOnly`,
  `Spec => []TempsPrivate`. `WholeOnly` is not inductive: a rename puts a file under a
  name, so it must be complete, and nobody else may be filling it. That is
  `TempsPrivate`, and `IInv == TypeOK /\ WholeOnly /\ TempsPrivate` is inductive. Two lemmas
  carry the steps that are alike: `QuietStep` for those that leave directory and inodes
  alone, `EntryStep` for other processes that put something under a name.
- `NoTemporaryFileLeft`: `Spec => []NoLitter`, inductive with `TypeOK`.
- `NamedFilesNeverWritten`: `Spec => NoWriteThrough`, an action property: by `IInv`, `Create` takes an
  inode no entry has, and `Fill` one only the call has.

Then the refinement:

- `WritesAreAtomic`: `Spec => ImplementsAtomicFiles`, if `"inplace" \notin EnvOps`. `InitMaps` and
  `StepMaps` map the initial states and each step. Under `RInv`, which adds to `IInv` what a call has in
  hand: its text is the one given, or the one it read, edited (`HandInv`); what it read from
  and what it fills are whole and not whole (`FillInv`). The rename is then the abstract call's one
  change, an answer of success or failure its end, and all else a stutter. The
  hypothesis is the exact limit: a process that writes in place, as an editor may,
  changes a file between the read and the rename, so that no single moment explains the edit.

Last, what needs to say of other processes what they do not do:

- `HardLinksStayWhole`: `Spec => HardLinksIntact`, if `"link" \notin EnvOps`. Once a call has looked,
  its name is not one of several (`SoleInv`), whatever other calls rename and others put or remove. The code
  cannot do better: a hard link made after the `stat` is one it does not see.
- `WritesGoThroughLinks`: `Spec => WritesThroughLinks`, if `EnvOps \subseteq {"crash"}`. The
  call came along a trail of links the rule allows (`LinkInv`), which stays because a rename
  of the server never replaces a link. Another process that puts a link under the name can
  make a write land beside it, so without the hypothesis the property is not true.
- `PermissionsStay`: `Spec => PermissionsKept`, under the same hypothesis. What a call saw is, as to its permission
  bits, what it will replace, also when an overlapping call replaced it since (`ModeInv`):
  cutting a mode to its bits twice is cutting it once.

`file_race` allows no in-place writes and `file_quiet` only crashes, so the runs are instances of the theorems.

### Commands

`RunCommandProofs`, for any streams, children, cap, chunk and pipe size, timeouts and output:
`TypeCorrect`, `CapturesPrefix`, `FlagsTellTruth`, `NothingIsLeft`, `ExitCodeTrue`, `CallInTime`,
`CutIsMarked` and, of steps, `KillsOnlyItsOwn`. The invariant has a part per concern:
`ProcInv` (bash is the first to run, and gone exactly if it has a code), `BufInv` (`truncated` is a full buffer),
`EofInv` (a stream is given up only at its end, and what `select` reported stays true until
it is read), `StageInv` (why the call is where it is), `ClockInv` (the two deadlines),
`KillInv` (what the kill reached stays dead). `FlagsAreTrue` needs `EofInv`: an answer without
flags is complete only since a closed pipe can get no more writers. `CutIsMarked` needs `DecodedIsLong`: in UTF-8, decoded
text is at least as long as the bytes it was decoded from. A whole character is as long as it was; what comes out as one
U+FFFD, of three bytes, is at most three bytes of a sequence that was cut or broken. The induction along the
bytes carries the sequence that has begun: with the bytes the decoder holds back, the text is as long as what was fed (`Feed`).

### Reading

`ReadLinesProofs`, for any files, ranges, budgets and chunk sizes:
`TotalIsOfTheFile`, `NoLineIsSkipped`, `ContentIsWhatWasAsked`. The loop is compared with an answer that
knows no chunks. `Places` ties `lineNo` and `pending` to the position; `Texts` the bytes used to
the content, `Lines` the returned lines to its line ends; `Contents` says that what was kept is the decoding
of a span of the file that begins where the first line does, with the decoder's held byte,
until something was cut, and that from then on it is the cut of all that was asked.

`ReadFilesProofs`, for any lists, texts, budgets and changes: `BudgetIsOne`,
`NothingIsKeptBack`, `CountsAreTrue`. `BudgetInv` is the account: the texts of the entries and what is left of
the budget add up to the limit. That only the new entry adds to the sum is
a fact about sums over finite sets.

Both, and `CutIsMarked`, need what the operators compute: `Size` and `Decode`, and `FedAll` and `EncodedLength`
of `RunCommand`, are folds. `FoldLemmas` proves what a fold does at one more element. The
library's induction theorems cannot be used here, so each induction is the search for a least
counterexample (`LeastNumber`), which needs no operator as a parameter. From there come
`SizeOfConcat` and the facts about `CutTo`: it fits, it is a prefix, it is the whole if that fits
(`CutWhole`), and to cut a text and more is to cut the text once it is too long (`CutOfMore`, `CutOfConcat`).

### Telemetry

`TelemetryProofs`, for any number of calls, loops, connections, executor threads and drops:
`TypeCorrect`, `AtMostOneLoop`, `NothingEarlyIsLost`, `ConnectionsShared`, `ConnectionsAreClosed`. The
invariant: only the holder of the lock makes a loop, and only while there is none
(`ThreadInv`); the loop that runs is the current one, but for loops that stall and were told to stop, and until it is stopped nothing was scheduled on
another (`LoopInv`); a record is in the queue exactly while it is posted, once (`JobInv`);
the client is there until shutdown closes it (`SinkInv`); early records are ahead of the drain in
the queue, and once the drain has looked it waits for the rest (`EarlyInv`); a connection is made
only if there was none or the last one dropped since (`MadeInv`); what is open beyond the drops is up
and waits in the queue to be put to the drain (`OpenInv`); and only one ever is put to it (`GivenInv`), so no
second one is left by a server that does not answer.

### Paths and listings

`TreeProofs`, for any trees, links, owners, modes, paths and hop limit. The kernel's resolution is recursive twice over, along
the components and into links within links, and the code's loop is not: it puts a link's target in front of what is left. That
both go the same way rests on two lemmas. `KernelSteps`: the kernel takes one component after
the other, and a link leads where the kernel itself gets from there; for two depths agree where so many links are
met that neither goes deeper (`LevelsAgree`). `FromConcat`: to resolve a path and then what follows it is to resolve both
in one. `KernelKeeps` carries what holds of each step to what is reached: the links met stay
met, no path ends at a link, below what is missing a path is joined (`FromMet`, `KernelEnds`, `FromNew`).

- `AsKernel`: `PathSpec => []ResolvesAsKernel`, and `LinksChecked`: `PathSpec => []EveryLinkChecked`. Neither is inductive: nothing in them says
  where the loop is on its way. `PathInv` does: the kernel, from the place reached and with the
  links followed so far, all of them allowed, gets from what is left of the path to where it gets
  from the whole (`Agrees`), or the loop has gone up from where the kernel cannot (`Lenient`), and
  then the kernel refuses the path. A cycle needs no case of its own: both sides count the links.
- `NothingLeftOut`: `ListSpec => []ListsWhatStays`, and `NothingMadeUp`: `ListSpec => []SaysWhatWas`. `StackOK` says of each open call of
  `_list` that its directory was one, that each name it has left was in it, and how deep it is;
  `AtHand` ties the program counter to the stack and the type at hand to a tree; `Covered`
  says that an entry that stays is in the answer, or its name or that of a directory above it is still to be
  taken. What stays to the end has stayed until now (`StayedBefore`), and what was so once still was, so
  other processes, who may do anything to the tree, disturb neither.

`tools` starts a path as `PathInit` and a listing as `ListInit` do and takes their steps, so it is an instance of these.

### Edit text and the hint

`EditTextProofs`, for texts over any characters among which are CR and LF, and for any windows
whose numbers are what difflib promises: no more matches than characters in either text, and a quick bound that is not less.

- `EditChangesOneSpan`: `OnlySpanChanges`. `CountIs` is what `str.count` says of the places where a text
  occurs: with 0 there is none, with 1 all of them overlap the first, with more two are apart. The
  scan's invariant `Counted` says where the next match may begin.
- `EditStaysCrlf`: `CrlfKept`. The CRLF form of any text without CR is one of CRLF breaks that
  begins with no LF and ends with no CR (`CrlfIs`); so are what is left and right of a span that is (`PartsCrlf`), and what is joined of
  such parts (`CrlfConcat`). In a file of CRLF breaks an `old_str` with LF alone after its first character
  is nowhere as it stands (`NotAsGiven`).
- `HintQuotesBest`: `HintIsBest`. The scan's invariant `IsBest` speaks of the windows that are not too
  long; `TooLong` shows that the others are less than half alike, and `GoodMore` that they could then not be quoted.
  The similarities are compared as fractions, by `MoreTrans`.

### What the proofs changed

They found slips in the models that no instance shows: an expression of
`Telemetry` that parsed as another one than was meant, and `None` not set apart from
all it is compared with in `FileWrites`, `Telemetry` and `ReadFiles`. `Trails` of `FileWrites` was put in
a form that can be reasoned about: the functions that satisfy a condition at each hop. `_checked_resolve` was one
recursive operator and is a state machine now, with the kernel's resolution a recursive function in a module of its own;
the scans of `EditText` are folds.

### Only model-checked

- Liveness: `Returns` (of both modules), `EmitsReturn`, `ShutdownReturns`. TLAPS proves nothing under fairness.
- `ClassIsWhatRuns`: classification calls itself for each payload within a payload, and strips
  wrappers until there are none, so `VerbClass` holds RECURSIVE operators, which the provers cannot take; and what a
  command runs is not defined apart from the grammar of `MCTools` that wraps it, whose instances TLC enumerates.

## Not modelled

See `components` in `PROJECT.json`. Out of scope for good: the wording of answers and logs;
`list_processes` (one pass over psutil and a sort); the child's environment (one set comprehension
over names, of which a property could only repeat the comprehension); the Host and Origin check (a
stateless filter of a library); OTLP (its SDK's own); argument parsing and deployment files.
The models have no disk cache: a crash is the death of the process, not of the machine. A file that
is read stands still in `ReadLines`. The lexer is taken as given: a command arrives in `VerbClass` as
tokens, and what shlex makes of unbalanced quotes, also of those a cut leaves, is not modelled.
Permissions are a directory's right to be listed or searched, in `PathResolve` and `ReadDirectory` only.

## What remains

The components are modelled, and all that is checked of them is proved but what *Only model-checked* lists.
A change to the code is a change to the module that maps its lines (`map` of `PROJECT.json`), then a run, then the proof:
a step of an inductive invariant has one lemma per action, so what a change disturbs is where it fails.
