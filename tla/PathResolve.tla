---------------------------- MODULE PathResolve -----------------------------
(***************************************************************************)
(* _resolve_path and _checked_resolve of server.py: a path is resolved in  *)
(* userspace, one component at a time, and the rule for links in shared    *)
(* directories is applied to every link on the way.  One action per branch *)
(* of the loop over the components.                                        *)
(***************************************************************************)
EXTENDS Trees

CONSTANTS
  Euid,     \* the server's user
  Disks,    \* the trees a path may be resolved in
  Paths     \* the paths asked for: whether absolute, and their components

ASSUME PathsOK ==
  /\ \A t \in Disks : TreeOK(t)
  /\ \A p \in Paths : p.abs \in BOOLEAN /\ p.parts \in Seq(Parts)

VARIABLES
  stage,      \* "start", "walk" or "done"; "idle" if nothing is asked
  disk,
  wanted,     \* the argument
  parts,      \* components left
  resolved,   \* the place reached
  hops,       \* links followed
  outcome

pathVars == <<stage, disk, wanted, parts, resolved, hops, outcome>>

Found(place) == [found |-> TRUE, place |-> place]
Failed(why) == [found |-> FALSE, why |-> why]

-----------------------------------------------------------------------------
\* _link_hop_allowed: the kernel's protected_symlinks rule for one link.
HopAllowed(link, holder) == ~holder.shared \/ link.owner \in {Euid, holder.owner}

\* Mutant of Holder: the root stands for every directory.
HolderRoot(t, at) == t[<<>>]

\* The directory the rule is about, os.stat(resolved).
Holder(t, at) == t[at]

\* What lstat says of a name in the directory at.
LStat(t, at, name) ==
  IF ~IsDir(t, at) THEN "notdir"
  ELSE IF ~Searchable(t, at) THEN "denied"
  ELSE IF Append(at, name) \notin DOMAIN t THEN "missing"
  ELSE t[Append(at, name)].kind

\* Mutant of JoinRest: ".." is not looked for.
JoinRestLexically(here, rest) == Found(FoldLeft(
  LAMBDA p, n : IF n = ".." THEN Parent(p) ELSE Append(p, n), here, rest))

\* Below a component that does not exist the rest is joined as it stands.
JoinRest(here, rest) == IF Contains(rest, "..") THEN Failed("missing") ELSE Found(here \o rest)

-----------------------------------------------------------------------------
Finish(result) ==
  stage' = "done" /\ outcome' = result /\ UNCHANGED <<disk, wanted, parts, resolved, hops>>

Goes(rest, place, n) ==
  parts' = rest /\ resolved' = place /\ hops' = n /\ UNCHANGED <<stage, disk, wanted, outcome>>

\* _resolve_path: relative paths and those with a component "~" are refused.
Refused == ~wanted.abs \/ Contains(wanted.parts, "~")

Validate ==
  /\ stage = "start"
  /\ IF Refused THEN Finish(Failed("refused"))
     ELSE stage' = "walk" /\ UNCHANGED <<disk, wanted, parts, resolved, hops, outcome>>

\* while parts.
Arrive == stage = "walk" /\ parts = <<>> /\ Finish(Found(resolved))

Named == stage = "walk" /\ parts # <<>> /\ Head(parts) # ".."
Here == Append(resolved, Head(parts))
HereIs == LStat(disk, resolved, Head(parts))

Climb ==
  /\ stage = "walk" /\ parts # <<>> /\ Head(parts) = ".."
  /\ Goes(Tail(parts), Parent(resolved), hops)

\* FileNotFoundError, and what other errors of lstat end in.
JoinMissing == Named /\ HereIs = "missing" /\ Finish(JoinRest(Here, Tail(parts)))
CannotLook == Named /\ HereIs \in {"notdir", "denied"} /\ Finish(Failed(HereIs))

Pass == Named /\ HereIs \in {"file", "dir"} /\ Goes(Tail(parts), Here, hops)

\* A link: the limit, the rule, and its target in front of what is left.
Hop ==
  /\ Named /\ HereIs = "link"
  /\ IF hops >= MaxHops THEN Finish(Failed("loop"))
     ELSE IF ~HopAllowed(disk[Here], Holder(disk, resolved)) THEN Finish(Failed("unsafe"))
     ELSE Goes(disk[Here].parts \o Tail(parts), IF disk[Here].abs THEN <<>> ELSE resolved, hops + 1)

-----------------------------------------------------------------------------
PathInit ==
  /\ stage = "start" /\ disk \in Disks /\ wanted \in Paths
  /\ parts = wanted.parts /\ resolved = <<>> /\ hops = 0 /\ outcome = Failed("none")

PathNext == Validate \/ Arrive \/ Climb \/ JoinMissing \/ CannotLook \/ Pass \/ Hop

PathSpec == PathInit /\ [][PathNext]_pathVars

\* Nothing is asked.
NoPath ==
  /\ stage = "idle" /\ disk = <<>> /\ wanted = [abs |-> FALSE, parts |-> <<>>]
  /\ parts = <<>> /\ resolved = <<>> /\ hops = 0 /\ outcome = Failed("none")

-----------------------------------------------------------------------------
(* Properties. *)

ByKernel == Physical(disk, wanted.parts)

\* _checked_resolve: a path that the walk accepts is the place the kernel finds; a path
\* the kernel finds is refused for the rule only; what fails in the kernel fails in the
\* walk.  The one leniency is ".." after a file or a closed directory (above).
ResolvesAsKernel ==
  stage = "done" =>
    /\ outcome.found /\ ByKernel.ok => outcome.place = ByKernel.place
    /\ ~outcome.found /\ ByKernel.ok => outcome.why \in {"refused", "unsafe"}
    /\ ~ByKernel.ok /\ ~ByKernel.above => ~outcome.found

\* The link is one the rule allows.
Allowed(link) == HopAllowed(disk[link], disk[Parent(link)])

\* _checked_resolve: the walk accepts a path only if the rule allows every link the
\* kernel meets on it, and refuses one for the rule only if it does not allow one of them.
EveryLinkChecked ==
  stage = "done" /\ (ByKernel.ok \/ ~ByKernel.above) /\ ~Refused =>
    /\ outcome.found => \A i \in DOMAIN ByKernel.met : Allowed(ByKernel.met[i])
    /\ ~outcome.found /\ outcome.why = "unsafe" =>
         \E i \in DOMAIN ByKernel.met : ~Allowed(ByKernel.met[i])

=============================================================================
