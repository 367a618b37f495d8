----------------------------- MODULE VerbClass ------------------------------
(***************************************************************************)
(* verbclass.py: the class of a shell command.  A command is a sequence of *)
(* tokens as the lexer leaves them: words, and quoted tokens that hold a   *)
(* command of their own.  The tables keep a few words of each kind.        *)
(***************************************************************************)
EXTENDS Sequences, Naturals, FiniteSets, SequencesExt

CONSTANTS
  MaxDepth,   \* _MAX_DEPTH
  MaxTokens   \* stands for MAX_CLASSIFY_BYTES

ASSUME BoundsOK == MaxDepth \in Nat /\ MaxTokens \in Nat

VerbClasses == <<"git_write", "gh_write", "git_read", "gh_read", "vcs_other", "unclassified", "other">>
Rank(class) == CHOOSE i \in DOMAIN VerbClasses : VerbClasses[i] = class
MostSignificant(classes) == CHOOSE c \in classes : \A d \in classes : Rank(c) <= Rank(d)

Word(w) == [word |-> w, inner |-> <<>>]
Words(ws) == [i \in DOMAIN ws |-> Word(ws[i])]
Quoted(command) == [word |-> "quoted", inner |-> command]
Drop(s, n) == SubSeq(s, n + 1, Len(s))

-----------------------------------------------------------------------------
(* Tables. *)
PrefixWords == {"sudo", "env", "nice", "timeout", "xargs", "doas"}
Shells == {"bash", "sh"}
PositionalArgs == [timeout |-> 1, flock |-> 1, ssh |-> 1, doas |-> 0, su |-> 1]
CommandBearing == {"-exec", "-c", "--command"}
Separators == {";", "&&", "||", "|", "(", ")", "{", "}", "!"}
GitRead == {"status", "log"}
GitWrite == {"push", "commit", "switch"}
SubactionReads == [remote |-> {"show"}, stash |-> {"list", "show"}, submodule |-> {"status"},
                   reflog |-> {"show", "exists"}]
BareIsWrite == {"stash"}
FlagReads == [branch |-> {"-l", "-a", "--contains"}, tag |-> {"-l", "-n", "--contains"},
              config |-> {"-l", "--get"}]
ReadFlagValues == {"--contains", "-n", "--get"}
GhRead == {"list", "view"}
GhWrite == {"create", "merge"}
PrefixValueFlags == {"-u", "-g", "-n", "-p", "-i", "-o", "-l"}
GitValueFlags == {"-C", "-c", "--git-dir"}
\* Words by their form: --method=verb, NAME=value, -flag, --flag=value, /path/name, -lc.
Method == [w \in {"--method=POST", "--method=GET"} |-> IF w = "--method=GET" THEN "GET" ELSE "POST"]
Assignments == {"A=1"}
Flags == CommandBearing \cup PrefixValueFlags \cup GitValueFlags \cup ReadFlagValues
           \cup {"-k", "-m", "-lc", "-a", "-d", "-X", "-f", "--contains=c"} \cup DOMAIN Method
Joined == [w \in {"--contains=c"} |-> "--contains"]
BaseName == [w \in {"/usr/bin/git"} |-> "git"]
EndsInC == {"-c", "-lc"}

IsFlag(tok) == tok.word \in Flags
Name(tok) == IF tok.word \in DOMAIN BaseName THEN BaseName[tok.word] ELSE tok.word

-----------------------------------------------------------------------------
\* Line breaks and the marks of command substitution.
Breaks == {"newline", "$(", "backtick", ")"}

\* _tokenize: these become separators.
Tokenize(command) == [i \in DOMAIN command |->
  IF command[i].word \in Breaks THEN Word(";") ELSE command[i]]

\* _segments.
Segments(tokens) == SelectSeq(
  FoldLeft(LAMBDA segs, tok : IF tok.word \in Separators THEN Append(segs, <<>>)
                              ELSE [segs EXCEPT ![Len(segs)] = Append(@, tok)],
           << <<>> >>, tokens),
  LAMBDA seg : seg # <<>>)

\* Mutant of Width: no flag of a wrapper takes a value.
WidthOne(flag) == 1

\* How many words a wrapper's flag is.
Width(flag) == IF flag \in PrefixValueFlags THEN 2 ELSE 1

RECURSIVE DropFlags(_)
DropFlags(seg) ==
  IF seg = <<>> \/ ~IsFlag(seg[1]) THEN seg ELSE DropFlags(Drop(seg, Width(seg[1].word)))

\* _strip_prefixes: assignments, and wrappers with their flags and arguments.
RECURSIVE StripPrefixes(_)
StripPrefixes(seg) ==
  IF seg = <<>> THEN seg
  ELSE IF seg[1].word \in Assignments THEN StripPrefixes(Tail(seg))
  ELSE IF Name(seg[1]) \in PrefixWords \cup DOMAIN PositionalArgs
    THEN LET name == Name(seg[1])
             args == IF name \in DOMAIN PositionalArgs THEN PositionalArgs[name] ELSE 0
         IN StripPrefixes(Drop(DropFlags(Tail(seg)), args))
  ELSE seg

\* _first_non_flag: the arguments from the first positional one on.
RECURSIVE FromPositional(_, _)
FromPositional(args, valueFlags) ==
  IF args = <<>> \/ ~IsFlag(args[1]) THEN args
  ELSE FromPositional(Drop(args, IF args[1].word \in valueFlags THEN 2 ELSE 1), valueFlags)

\* _is_listing: listing flags only, and what they list.
RECURSIVE IsListing(_, _, _)
IsListing(rest, readFlags, sawFlag) ==
  IF rest = <<>> THEN TRUE
  ELSE LET w == rest[1].word
           bare == IF w \in DOMAIN Joined THEN Joined[w] ELSE w
       IN IF ~IsFlag(rest[1]) THEN sawFlag /\ IsListing(Tail(rest), readFlags, TRUE)
          ELSE /\ bare \in readFlags
               /\ IsListing(Drop(rest, IF w \in ReadFlagValues THEN 2 ELSE 1), readFlags, TRUE)

\* _classify_git.
ClassifyGit(args) ==
  LET at == FromPositional(args, GitValueFlags)
      sub == at[1].word
      action == FromPositional(Tail(at), {})
      listing == CASE sub \in DOMAIN SubactionReads ->
                        IF action = <<>> THEN sub \notin BareIsWrite
                        ELSE action[1].word \in SubactionReads[sub]
                   [] sub \in DOMAIN FlagReads -> IsListing(Tail(at), FlagReads[sub], FALSE)
  IN IF at = <<>> THEN "git_read"
     ELSE CASE sub \in GitWrite -> "git_write"
            [] sub \in GitRead -> "git_read"
            [] sub \in DOMAIN SubactionReads \cup DOMAIN FlagReads ->
                 IF listing THEN "git_read" ELSE "git_write"
            [] OTHER -> "vcs_other"

\* gh api: the first argument that says the method, or that there is a body.
ApiWrites(rest) ==
  LET says == {i \in DOMAIN rest : \/ rest[i].word \in {"-f"} \cup DOMAIN Method
                                   \/ rest[i].word = "-X" /\ i < Len(rest)}
      first == CHOOSE i \in says : \A j \in says : i <= j
      word == rest[first].word
      method == IF word = "-X" THEN rest[first + 1].word ELSE Method[word]
  IN says # {} /\ (word = "-f" \/ method \in {"POST", "DELETE"})

\* _classify_gh.
ClassifyGh(args) ==
  LET at == FromPositional(args, {})
      action == FromPositional(Tail(at), {})
      verb == IF action = <<>> THEN at[1].word ELSE action[1].word
  IN IF at = <<>> THEN "gh_read"
     ELSE IF at[1].word = "api" THEN IF ApiWrites(Tail(at)) THEN "gh_write" ELSE "gh_read"
     ELSE CASE verb \in GhWrite -> "gh_write"
            [] verb \in GhRead -> "gh_read"
            [] OTHER -> IF action = <<>> THEN "gh_read" ELSE "vcs_other"

\* What follows a command-bearing flag, less what belongs to find.
After(rest, i) == SelectSeq(Drop(rest, i), LAMBDA tok : tok.word \notin {"{}", ";", "+"})

\* A token read as a command.
Operand(tok) == IF tok.word = "quoted" THEN tok.inner ELSE <<tok>>

RECURSIVE Classify(_, _), ClassifySegment(_, _)

\* _classify_segment: a shell's payload, the command after -exec or -c, git, gh.
ClassifySegment(segment, depth) ==
  LET seg == StripPrefixes(segment)
      rest == Tail(seg)
      payloads == {i \in DOMAIN rest : rest[i].word \in EndsInC}
      payload == CHOOSE i \in payloads : \A j \in payloads : i <= j
      bearers == {i \in 1..(Len(rest) - 1) : rest[i].word \in CommandBearing /\ After(rest, i) # <<>>}
      bearer == CHOOSE i \in bearers : \A j \in bearers : i <= j
  IN IF seg = <<>> THEN "other"
     ELSE IF Name(seg[1]) \in Shells /\ depth < MaxDepth
       THEN IF payloads # {} /\ payload < Len(rest)
              THEN Classify(Operand(rest[payload + 1]), depth + 1) ELSE "other"
     ELSE IF depth < MaxDepth /\ bearers # {} THEN ClassifySegment(After(rest, bearer), depth + 1)
     ELSE CASE Name(seg[1]) = "git" -> ClassifyGit(rest)
            [] Name(seg[1]) = "gh" -> ClassifyGh(rest)
            [] OTHER -> "other"

\* classify_verb: the most significant segment; what is too long is cut, and
\* nothing found in the rest is not "other".
Classify(command, depth) ==
  LET cut == Len(command) > MaxTokens
      segs == Segments(Tokenize(IF cut THEN SubSeq(command, 1, MaxTokens) ELSE command))
      best == MostSignificant({"other"} \cup {ClassifySegment(segs[i], depth) : i \in DOMAIN segs})
  IN IF cut /\ best = "other" THEN "unclassified" ELSE best

=============================================================================
