------------------------------ MODULE MCTools -------------------------------
(***************************************************************************)
(* One call of what has no state of its own: an edit's text, the hint, a   *)
(* path to resolve, a command to classify; or of read_directory, while the *)
(* tree changes.                                                           *)
(***************************************************************************)
EXTENDS ReadDirectory, PathResolve, EditText, VerbClass, TLC

CONSTANTS
  TextLen, OldLen,   \* lengths of a file and of old_str
  MaxWindows,        \* windows of the hint
  PathLen            \* components of a path

vars == <<call, pathVars, listVars>>

UpTo(S, n) == UNION {[1..k -> S] : k \in 0..n}

-----------------------------------------------------------------------------
(* Edits and hints. *)
SomeNew == {<<>>, <<"x">>, <<"lf">>, <<"x", "lf", "lf">>, <<"cr", "lf">>, <<"x", "cr">>}
EditCalls == [tool : {"edit"}, text : UpTo({"x", "cr", "lf"}, TextLen),
              old : UpTo({"x", "cr", "lf"}, OldLen), new : SomeNew]

Least(a, b) == IF a < b THEN a ELSE b
Windows(old) ==
  {w \in [len : {1, 2, 4, 6, 7, 9}, common : 0..3, bound : 0..3] :
     w.common <= w.bound /\ w.bound <= Least(old, w.len)}
HintCalls == UNION {[tool : {"hint"}, old : {old}, windows : UpTo(Windows(old), MaxWindows),
                     late : {2, MaxWindows + 1}] : old \in {1, 2, 3}}

-----------------------------------------------------------------------------
(* Paths: a root, two names in it, and a name in the first of them. *)
Targets == {<<"a">>, <<"b">>, <<"..", "b">>, <<"a", "b">>, <<"b", "..", "a">>}
SomeLinks == {Link(o, abs, p) : o \in {"me", "other"}, abs \in BOOLEAN, p \in Targets}
SomeDirs == {Dir("root", FALSE, "open"), Dir("root", TRUE, "open"), Dir("other", TRUE, "open"),
             Dir("root", FALSE, "closed")}
Nothing == [kind |-> "nothing"]
\* The nodes there are: a spot with Nothing is left out.
Tree(root, a, b, ab) ==
  LET p == (<<"a">> :> a) @@ (<<"b">> :> b) @@ (<<"a", "b">> :> ab)
      there == {q \in DOMAIN p : p[q] # Nothing /\ (Len(q) = 1 \/ a \in SomeDirs)}
  IN (<<>> :> root) @@ [q \in there |-> p[q]]
PathTrees ==
  {Tree(r, a, b, ab) : r \in {Dir("root", FALSE, "open"), Dir("root", TRUE, "open")},
     a \in SomeDirs, b \in {File, Dir("root", FALSE, "open")} \cup SomeLinks,
     ab \in {Nothing, File} \cup SomeLinks}
    \cup {Tree(r, a, b, Nothing) : r \in {Dir("root", FALSE, "open"), Dir("root", TRUE, "open")},
     a \in {Nothing, File} \cup SomeLinks, b \in {Nothing, File} \cup SomeLinks}
SomePaths == [abs : {TRUE}, parts : UpTo({"a", "b", ".."}, PathLen)]
               \cup [abs : BOOLEAN, parts : {<<"a">>, <<"a", "~">>}]

-----------------------------------------------------------------------------
(* Commands, with the class of what the shell would run; more is that class  *)
(* with one more argument.  depth counts payloads in payloads.  kind is how  *)
(* a command can be nested: as words, with a payload in quotes, as a find    *)
(* that ends in ;, or not, being a list.  starts: with the name of a program.*)
(* odd names what verbclass.py is known to misread.                          *)
Cmd(ws, runs, more) ==
  [tokens |-> Words(ws), runs |-> runs, more |-> more, depth |-> 0, kind |-> "words",
   starts |-> TRUE, odd |-> {}]
Same(ws, runs) == Cmd(ws, runs, runs)
Push == Words(<<"git", "push">>)
Simple ==
  {Same(<<"git", "push">>, "git_write"), Same(<<"/usr/bin/git", "push">>, "git_write"),
   Same(<<"git", "-C", "d", "push">>, "git_write"), Same(<<"git", "status">>, "git_read"),
   Same(<<"git", "stash">>, "git_write"), Same(<<"git", "stash", "list">>, "git_read"),
   Same(<<"git", "remote", "add">>, "git_write"), Cmd(<<"git", "remote">>, "git_read", "git_write"),
   Same(<<"git", "submodule", "foreach", "x">>, "git_write"),
   Cmd(<<"git", "tag">>, "git_read", "git_write"), Same(<<"git", "tag", "-l", "v">>, "git_read"),
   Same(<<"git", "tag", "-n", "1", "v">>, "git_read"),
   Same(<<"git", "tag", "-d", "v">>, "git_write"),
   Same(<<"git", "branch", "--contains=c">>, "git_read"),
   Same(<<"git", "config", "k", "v">>, "git_write"), Same(<<"git", "config", "--get", "k">>, "git_read"),
   Same(<<"git", "unknown">>, "vcs_other"), Cmd(<<"git">>, "git_read", "vcs_other"),
   Same(<<"gh", "pr", "create">>, "gh_write"), Same(<<"gh", "pr", "list">>, "gh_read"),
   Cmd(<<"gh", "pr">>, "gh_read", "vcs_other"), Same(<<"gh", "api", "x">>, "gh_read"),
   Same(<<"gh", "api", "x", "-X", "POST">>, "gh_write"),
   Same(<<"gh", "api", "x", "-f", "y">>, "gh_write"),
   Same(<<"gh", "api", "--method=POST", "x">>, "gh_write"),
   Same(<<"gh", "api", "x", "--method=GET", "-f", "y">>, "gh_read"), Same(<<"ls">>, "other"),
   [Same(<<"echo">>, "other") EXCEPT !.tokens = Append(@, Quoted(Push)), !.kind = "payload"]}

\* git's own -c.
OwnC == {[Same(ws, "git_write") EXCEPT !.odd = {"ownC"}] :
           ws \in {<<"git", "-c", "k", "push">>, <<"git", "switch", "-c", "b">>}}

Before(front, c) == [c EXCEPT !.tokens = Words(front) \o @, !.starts = TRUE]
\* The flags that take a value, as the wrappers' own manuals have it.
TakesValue == [sudo |-> {"-u", "-g"}, timeout |-> {"-k"}, nice |-> {"-n"}, xargs |-> {"-n"}]
\* A wrapper, a flag of its own and more words: odd if the table has the flag wrong.
With(wrapper, flag, more, c) ==
  [Before(<<wrapper, flag>> \o more, c) EXCEPT
     !.odd = @ \cup IF (flag \in TakesValue[wrapper]) = (flag \in PrefixValueFlags) THEN {} ELSE {"flag"}]
\* What xargs runs has arguments that the command does not show.
Xargs(c) == [c EXCEPT !.runs = c.more, !.odd = @ \cup IF c.more = c.runs THEN {} ELSE {"xargs"}]
Wrapped(c) ==
  {Before(f, c) : f \in {<<"sudo">>, <<"env", "A=1">>}}
    \cup {[Before(<<"A=1">>, c) EXCEPT !.starts = FALSE]}
    \cup {With("sudo", "-u", <<"root">>, c), With("sudo", "-n", <<>>, c)}
    \cup {d \in {Before(<<"timeout", "30">>, c), With("timeout", "-k", <<"5", "30">>, c),
                 With("nice", "-n", <<"5">>, c)} : c.starts}
    \cup {d \in {Before(<<"ssh", "host">>, c)} : c.kind = "words"}
    \cup {Xargs(d) : d \in {d \in {Before(<<"xargs">>, c), With("xargs", "-n", <<"1">>, c)} :
                              c.starts /\ c.kind \in {"words", "payload"}}}
Listed(c) == {[Before(f, c) EXCEPT !.kind = "list"] :
                f \in {<<"ls", "newline">>, <<"ls", "&&">>, <<"ls", "|">>, <<"!">>}}
Inside(c) == Words(<<"$(">>) \o c.tokens \o Words(<<")">>)
Substituted(c) ==
  {[c EXCEPT !.tokens = Words(<<"echo">>) \o Inside(c) \o Words(<<"v">>), !.kind = "list"],
   [c EXCEPT !.tokens = Words(<<"echo">>) \o <<Quoted(Inside(c))>>, !.kind = "payload", !.starts = TRUE,
             !.more = c.runs, !.odd = @ \cup IF c.runs = "other" THEN {} ELSE {"quotes"}]}
Then(c, d) == [c EXCEPT !.tokens = @ \o Words(<<"&&">>) \o d.tokens, !.kind = "list",
                        !.odd = @ \cup d.odd, !.runs = MostSignificant({@, d.runs})]
Shell(c, flag) == [c EXCEPT !.tokens = Words(<<"bash", flag>>) \o <<Quoted(@)>>, !.depth = @ + 1,
                            !.kind = "payload", !.starts = TRUE, !.more = c.runs]
Find(c) == [c EXCEPT !.tokens = Words(<<"find", "-exec">>) \o @ \o Words(<<"{}", ";">>),
                     !.depth = @ + 1, !.kind = "find"]
Nest(cs) ==
  UNION {Listed(c) \cup Substituted(c) \cup {Shell(c, "-c"), Shell(c, "-lc")} : c \in cs}
    \cup UNION {Wrapped(c) : c \in {c \in cs : c.kind # "list"}}
    \cup {Find(c) : c \in {c \in cs : c.kind \in {"words", "payload"} /\ c.starts /\ c.more = c.runs}}
First == Simple \cup OwnC
Second == Nest(First) \cup {Then(c, d) : c \in First, d \in First}
Commands == First \cup Second \cup Nest({c \in Second : c.odd = {}})
VerbCalls == {[tool |-> "verb", cmd |-> c] : c \in Commands}

-----------------------------------------------------------------------------
(* Directories: r, two entries of it, and two of the first of these. *)
ListNames == <<"a", "b">>
ListAsked == <<"r">>
D(mode) == Dir("root", FALSE, mode)
ListNodes == {File, D("open"), D("locked"), D("closed"), Link("me", FALSE, <<"a">>)}
ListSpots == {<<"r">>, <<"r", "a">>, <<"r", "b">>, <<"r", "a", "a">>, <<"r", "a", "b">>}
ListTree(r, a, b, aa) ==
  LET p == (<<"r">> :> r) @@ (<<"r", "a">> :> a) @@ (<<"r", "b">> :> b)
             @@ (<<"r", "a", "a">> :> aa) @@ (<<"r", "a", "b">> :> File)
  IN (<<>> :> D("open")) @@
     [q \in {q \in DOMAIN p : p[q] # Nothing /\ \A i \in 1..(Len(q) - 1) : p[SubSeq(q, 1, i)] \in
                {D("open"), D("locked"), D("closed")}} |-> p[q]]
ListTrees ==
  {ListTree(r, a, b, aa) :
     r \in {D("open"), D("locked"), D("closed"), File},
     a \in {Nothing, File, D("open"), D("locked"), D("closed")},
     b \in {Nothing, File, Link("me", FALSE, <<"a">>), Link("me", FALSE, <<"b">>)},
     aa \in {Nothing, D("open"), Link("me", FALSE, <<"..">>)}}

-----------------------------------------------------------------------------
Init ==
  \/ /\ call = [tool |-> "list"]
     /\ ListInit /\ (recursive \/ maxDepth = 1) /\ NoPath
  \/ call = [tool |-> "path"] /\ PathInit /\ NotCalled
  \/ call \in EditCalls \cup HintCalls \cup VerbCalls /\ NoPath /\ NotCalled

Next ==
  \/ ListNext /\ UNCHANGED <<call, pathVars>>
  \/ PathNext /\ UNCHANGED <<call, listVars>>

Spec == Init /\ [][Next]_vars

-----------------------------------------------------------------------------
(* Properties of the calls that are functions. *)

\* classify_verb: the class of a command is that of the most significant thing it runs,
\* neither missed nor overstated, through wrappers and their flags, lists, line breaks,
\* substitutions, payloads and -exec, nested in each other no deeper than _MAX_DEPTH; what
\* is cut is never "other".  But for what is known to be misread (odd): git's own -c, a
\* wrapper's flag that the table has wrong, what xargs adds to a command whose class it
\* changes, and a substitution in quotes.
ClassIsWhatRuns ==
  call.tool = "verb" /\ call.cmd.odd = {} =>
    LET class == Classify(call.cmd.tokens, 0)
    IN IF Len(call.cmd.tokens) > MaxTokens THEN class # "other"
       ELSE call.cmd.depth <= MaxDepth => class = call.cmd.runs

\* "`other` is a positive claim that this was not a repo operation" (classify_verb):
\* nothing that git or gh does is "other", with whatever options of git's own, nested no
\* deeper than _MAX_DEPTH.
OtherMeansNotGit ==
  call.tool = "verb" /\ call.cmd.odd \subseteq {"ownC"} /\ call.cmd.depth <= MaxDepth =>
    (Classify(call.cmd.tokens, 0) = "other" => call.cmd.runs = "other")

=============================================================================
