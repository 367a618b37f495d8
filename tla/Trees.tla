------------------------------- MODULE Trees --------------------------------
(***************************************************************************)
(* Trees of files and the kernel's resolution of a path in them.  A tree   *)
(* is a function from places, sequences of names from the root, to what is *)
(* there; a path is a sequence of components, ".." among them.             *)
(***************************************************************************)
EXTENDS Naturals, FiniteSets, SequencesExt

CONSTANTS
  Parts,    \* the components of paths and places
  MaxHops   \* how many links the kernel follows, and _MAX_LINK_HOPS

ASSUME HopsOK == MaxHops \in Nat

\* A directory's mode is "open", "locked" (it cannot be listed) or "closed"
\* (nothing in it can be looked up).
Dir(owner, shared, mode) == [kind |-> "dir", owner |-> owner, shared |-> shared, mode |-> mode]
File == [kind |-> "file"]
Link(owner, abs, parts) == [kind |-> "link", owner |-> owner, abs |-> abs, parts |-> parts]

IsDir(t, p) == p \in DOMAIN t /\ t[p].kind = "dir"
Searchable(t, p) == IsDir(t, p) /\ t[p].mode # "closed"

Parent(p) == IF p = <<>> THEN p ELSE Front(p)

\* What may be somewhere, and a tree of such: what is in it is in directories.
NodeOK(n) ==
  /\ n.kind \in {"dir", "file", "link"}
  /\ n.kind = "link" => n.parts \in Seq(Parts) /\ n.abs \in BOOLEAN
TreeOK(t) ==
  /\ DOMAIN t \subseteq Seq(Parts) /\ IsDir(t, <<>>)
  /\ \A p \in DOMAIN t : NodeOK(t[p]) /\ IsDir(t, Parent(p))

-----------------------------------------------------------------------------
(* Each component is looked up in a directory, a link is resolved as a      *)
(* whole where it is met, and ".." is the parent of what was reached.  A    *)
(* component that does not exist can be made (create_dirs), but nothing can *)
(* be above it.                                                             *)

At(place, met) == [ok |-> TRUE, new |-> FALSE, place |-> place, met |-> met]
New(place, met) == [ok |-> TRUE, new |-> TRUE, place |-> place, met |-> met]
Stop(why, above, met) == [ok |-> FALSE, why |-> why, above |-> above, met |-> met]

\* Where a path can lead: met are the links on the way.
Reached ==
  [ok : {TRUE}, new : BOOLEAN, place : Seq(Parts), met : Seq(Seq(Parts))]
    \cup [ok : {FALSE}, why : {"denied", "notdir", "missing", "loop"}, above : BOOLEAN,
          met : Seq(Seq(Parts))]

\* One component further; links says where the path of a link leads.
Step(t, links, r, name) ==
  IF ~r.ok THEN r
  ELSE IF r.new
    THEN IF name = ".." THEN Stop("missing", FALSE, r.met) ELSE New(Append(r.place, name), r.met)
  ELSE IF ~Searchable(t, r.place)
    THEN Stop(IF IsDir(t, r.place) THEN "denied" ELSE "notdir", name = "..", r.met)
  ELSE IF name = ".." THEN At(Parent(r.place), r.met)
  ELSE LET here == Append(r.place, name)
       IN IF here \notin DOMAIN t THEN New(here, r.met)
          ELSE IF t[here].kind # "link" THEN At(here, r.met)
          ELSE IF Len(r.met) >= MaxHops THEN Stop("loop", FALSE, r.met)
          ELSE links[<<At(IF t[here].abs THEN <<>> ELSE r.place, Append(r.met, here)),
                       t[here].parts>>]

\* All of a path, one component after the other.
Walk(t, links) ==
  [x \in Reached \X Seq(Parts) |-> FoldLeft(LAMBDA r, name : Step(t, links, r, name), x[1], x[2])]

\* To[d] resolves links in links in links, d deep; no link is followed deeper.
NoLinks == [x \in Reached \X Seq(Parts) |-> Stop("loop", FALSE, x[1].met)]
Kernel(t) ==
  LET To[d \in 0..MaxHops] == Walk(t, IF d = 0 THEN NoLinks ELSE To[d - 1]) IN To[MaxHops]

\* What a path from the root is, links followed, as stat sees it.
Physical(t, parts) == Kernel(t)[<<At(<<>>, <<>>), parts>>]

=============================================================================
