--------------------------- MODULE ReadDirectory ----------------------------
(***************************************************************************)
(* read_directory of server.py, while other processes change the tree: one *)
(* step per system call.  Every lookup is the kernel's, from the root.     *)
(* (Python 3.11 to 3.13, where Path.is_dir raises PermissionError.)        *)
(***************************************************************************)
EXTENDS Trees, Integers

CONSTANTS
  Names,     \* names of entries, in the order sorted() gives
  Asked,     \* the path asked for
  Nodes,     \* what other processes may put somewhere
  Spots,     \* where they may put it
  Starts,    \* the trees a call may start in
  Depths,    \* values of max_depth
  Changes    \* bound: how often they change the tree

ASSUME ListOK ==
  /\ Names \in Seq(Parts \ {".."}) /\ Asked \in Seq(Parts)
  /\ Spots \subseteq Seq(Parts) \ {<<>>}
  /\ \A n \in Nodes : NodeOK(n)
  /\ \A t \in Starts : TreeOK(t)
  /\ Depths \subseteq Int

VARIABLES
  pc,         \* "exists", "isdir", "list", "look", "size", "enter", "done" or "idle"
  tree,
  recursive, maxDepth,   \* arguments
  stack,      \* the calls of _list: the directory, and the names left in it
  kind,       \* the type of the entry at hand
  listed,     \* entries of the answer: [path, kind]
  marks,      \* directories with an error entry
  answer,     \* "entries" or "error"; "none" before
  was         \* history: the trees there have been, in order

listVars == <<pc, tree, recursive, maxDepth, stack, kind, listed, marks, answer, was>>
env == <<tree, recursive, maxDepth, was>>

-----------------------------------------------------------------------------
\* os.stat of a path; a missing file, a path through a file and a cycle of links
\* are all "gone", as is_dir and exists take them.
StatIn(t, path) ==
  LET k == Physical(t, path)
  IN IF k.ok THEN IF k.new THEN "gone" ELSE t[k.place].kind
     ELSE IF k.why = "denied" THEN "denied" ELSE "gone"

\* The names os.listdir finds; it is denied if the directory is locked.
NamesIn(t, path) == {n \in Range(Names) : Append(Physical(t, path).place, n) \in DOMAIN t}
Locked(t, path) == StatIn(t, path) = "dir" /\ t[Physical(t, path).place].mode = "locked"

\* sorted(): the entries of a directory are taken in the order of their names.
FirstOf(names) ==
  Names[CHOOSE i \in DOMAIN Names : Names[i] \in names /\ \A j \in 1..(i - 1) : Names[j] \notin names]

Top == Last(stack)
Item == Append(Top.dir, FirstOf(Top.names))
ItemIs == StatIn(tree, Item)
Others == Top.names \ {FirstOf(Top.names)}
Leave(names) == [stack EXCEPT ![Len(stack)].names = names]

\* Frames with nothing left return; the last one still at work goes on.
Continue(frames) ==
  LET live == {i \in DOMAIN frames : frames[i].names # {}}
  IN IF live = {} THEN stack' = <<>> /\ pc' = "done" /\ answer' = "entries"
     ELSE /\ stack' = SubSeq(frames, 1, CHOOSE i \in live : \A j \in live : j <= i)
          /\ pc' = "look" /\ UNCHANGED answer

\* An exception that is no PermissionError ends the whole call.
FailAll == pc' = "done" /\ answer' = "error" /\ stack' = <<>> /\ UNCHANGED <<kind, listed, marks>>

\* except PermissionError: an error entry for the directory, and no more of it.
Mark == marks' = marks \cup {Top.dir} /\ Continue(Leave({})) /\ UNCHANGED <<kind, listed>>

\* entries.append(entry).
List == listed' = listed \cup {[path |-> Item, kind |-> kind]}

-----------------------------------------------------------------------------
Exists ==
  /\ pc = "exists"
  /\ IF StatIn(tree, Asked) \in {"gone", "denied"} THEN FailAll
     ELSE pc' = "isdir" /\ UNCHANGED <<stack, kind, listed, marks, answer>>
  /\ UNCHANGED env

Enter(dir, frames) == stack' = Append(frames, [dir |-> dir, names |-> {}]) /\ pc' = "list"

IsDirectory ==
  /\ pc = "isdir"
  /\ IF StatIn(tree, Asked) # "dir" THEN FailAll
     ELSE Enter(Asked, <<>>) /\ UNCHANGED <<kind, listed, marks, answer>>
  /\ UNCHANGED env

\* directory.iterdir().
ListDir ==
  /\ pc = "list"
  /\ CASE StatIn(tree, Top.dir) = "denied" \/ Locked(tree, Top.dir) -> Mark
       [] StatIn(tree, Top.dir) \in {"gone", "file"} -> FailAll
       [] OTHER -> Continue(Leave(NamesIn(tree, Top.dir))) /\ UNCHANGED <<kind, listed, marks>>
  /\ UNCHANGED env

\* Mutant of TypeOf: whatever is no file is a directory.
TypeOfNoFile(st) == IF st = "file" THEN "file" ELSE "dir"

\* The "type" of an entry.
TypeOf(st) == IF st = "dir" THEN "dir" ELSE "file"

\* The first is_dir: what is not there any more is a "file".
Look ==
  /\ pc = "look"
  /\ IF ItemIs = "denied" THEN Mark
     ELSE /\ kind' = TypeOf(ItemIs)
          /\ pc' = "size" /\ UNCHANGED <<stack, listed, marks, answer>>
  /\ UNCHANGED env

\* is_file; the size is of no interest here.
SizeOf ==
  /\ pc = "size"
  /\ CASE ItemIs = "denied" -> Mark
       [] ItemIs # "denied" /\ recursive ->
            pc' = "enter" /\ UNCHANGED <<stack, kind, listed, marks, answer>>
       [] OTHER -> List /\ Continue(Leave(Others)) /\ UNCHANGED <<kind, marks>>
  /\ UNCHANGED env

\* Mutant of Deep: one level too few.
DeepLess == Len(stack) + 1 < maxDepth

\* depth < max_depth.
Deep == Len(stack) < maxDepth

\* The second is_dir, and the call of _list for a directory.
Descend ==
  /\ pc = "enter"
  /\ CASE ItemIs = "denied" -> Mark
       [] ItemIs = "dir" /\ Deep ->
            List /\ Enter(Item, Leave(Others)) /\ UNCHANGED <<kind, marks, answer>>
       [] OTHER -> List /\ Continue(Leave(Others)) /\ UNCHANGED <<kind, marks>>
  /\ UNCHANGED env

Under(p) == {q \in DOMAIN tree : IsPrefix(p, q)}
Without(p) == [q \in DOMAIN tree \ Under(p) |-> tree[q]]

\* Another process removes or moves away what is at p, or makes something there.
Change(p) ==
  /\ pc \notin {"done", "idle"} /\ Len(was) <= Changes
  /\ \/ p \in DOMAIN tree /\ tree' = Without(p)
     \/ /\ p \notin DOMAIN tree /\ IsDir(tree, Parent(p))
        /\ \E n \in Nodes : tree' = [q \in DOMAIN tree \cup {p} |-> IF q = p THEN n ELSE tree[q]]
     \/ /\ IsDir(tree, p)
        /\ \E n \in Nodes : n.kind = "dir" /\ n # tree[p] /\ tree' = [tree EXCEPT ![p] = n]
  /\ was' = Append(was, tree')
  /\ UNCHANGED <<pc, recursive, maxDepth, stack, kind, listed, marks, answer>>

-----------------------------------------------------------------------------
\* A call, in a tree and with arguments of one's choice; and no call.
Called(t, r, d) ==
  /\ pc = "exists" /\ tree = t /\ recursive = r /\ maxDepth = d
  /\ stack = <<>> /\ kind = "file" /\ listed = {} /\ marks = {} /\ answer = "none" /\ was = <<t>>
NotCalled ==
  /\ pc = "idle" /\ tree = <<>> /\ recursive = FALSE /\ maxDepth = 0
  /\ stack = <<>> /\ kind = "file" /\ listed = {} /\ marks = {} /\ answer = "none" /\ was = <<>>

ListInit == \E t \in Starts, r \in BOOLEAN, d \in Depths : Called(t, r, d)

ListNext ==
  \/ Exists \/ IsDirectory \/ ListDir \/ Look \/ SizeOf \/ Descend
  \/ \E p \in Spots : Change(p)

ListSpec == ListInit /\ [][ListNext]_listVars

-----------------------------------------------------------------------------
(* Properties. *)

Trees == Range(was)
Depth(path) == Len(path) - Len(Asked)
Limit == IF recursive /\ maxDepth > 1 THEN maxDepth ELSE 1

\* Every name an entry may have in the answer, down to the depth asked for.
Below == {Asked \o q : q \in UNION {[1..n -> Range(Names)] : n \in 1..Limit}}
EntriesOf(t, dir) == IF StatIn(t, dir) = "dir" THEN NamesIn(t, dir) ELSE {}
EntryIn(t, path) == Last(path) \in EntriesOf(t, Front(path))

\* Other processes may do what they like elsewhere: what is in its directory, with
\* the same type, during the whole call is listed, if the directories above it are
\* directories all the time and carry no error (_list).
ListsWhatStays ==
  answer = "entries" =>
    \A path \in Below : \A k \in {"dir", "file"} :
      (/\ \A t \in Trees : EntryIn(t, path) /\ (StatIn(t, path) = k \/ (k = "file" /\ StatIn(t, path) = "gone"))
       /\ \A i \in Len(Asked)..(Len(path) - 1) :
            /\ SubSeq(path, 1, i) \notin marks
            /\ \A t \in Trees : StatIn(t, SubSeq(path, 1, i)) = "dir")
      => [path |-> path, kind |-> k] \in listed

\* Whatever changes meanwhile, the answer says nothing that was never so: each
\* entry was in its directory, a "dir" was one, an error entry's directory or an
\* entry of it was denied, and the call fails only if the path asked for, or a
\* directory found below it, is not a directory at some moment.
SaysWhatWas ==
  /\ \A e \in listed :
       /\ Depth(e.path) \in 1..Limit
       /\ \E t \in Trees : EntryIn(t, e.path)
       /\ \E t \in Trees : (StatIn(t, e.path) = "dir") = (e.kind = "dir")
  /\ \A d \in marks : \E t \in Trees :
       \/ StatIn(t, d) = "denied" \/ Locked(t, d)
       \/ \E n \in Range(Names) : StatIn(t, Append(d, n)) = "denied"
  /\ answer = "error" =>
       \E d \in Below \cup {Asked} :
         /\ d = Asked \/ \E t \in Trees : StatIn(t, d) = "dir"
         /\ \E t \in Trees : StatIn(t, d) \in {"gone", "file"} \/ (d = Asked /\ StatIn(t, d) = "denied")

=============================================================================
