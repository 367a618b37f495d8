---------------------------- MODULE MCFileWrites ----------------------------
(* Small instances of FileWrites. *)
EXTENDS FileWrites, FiniteSets, TLC

CONSTANTS a, b, l, x, y, z, bad, me, root, stranger, c1, c2

MCNames == {a, b, l}
MCCalls == {c1, c2}
OneCall == {c1}
MCInodes == 1..7
CallsAlike == Permutations(MCCalls)
MCToks == {x, y, z, bad}
MCUids == {me, root, stranger}

Link(n, u) == [kind |-> "link", to |-> n, owner |-> u]
Old == RegFile(<<x, y>>, TRUE, 420)          \* 0644
SetUid == RegFile(<<x, y>>, TRUE, 2541)      \* 04755

\* A directory: inode 1 under a, 2 under b, 3 under l unless given otherwise.
Layout(fa, fb, fl) ==
  [node |-> [i \in Inodes |-> CASE i = 1 -> fa [] i = 2 -> fb [] i = 3 -> fl
                                [] OTHER -> Plain("free")],
   dir |-> [n \in Names |-> CASE n = a /\ fa.kind # "free" -> 1
                              [] n = b /\ fb.kind # "free" -> 2
                              [] n = l /\ fl.kind # "free" -> 3
                              [] OTHER -> None],
   parent |-> TRUE]

Free == Plain("free")
NoDirectory == [Layout(Free, Free, Free) EXCEPT !.parent = FALSE]
OneFile == Layout(Old, Free, Free)
OneSetUid == Layout(SetUid, Free, Free)
Shared(f) == [Layout(f, Free, Free) EXCEPT !.dir = [@ EXCEPT ![b] = 1]]
FileAndLink == Layout(Old, Free, Link(a, me))
ForeignLink == Layout(Old, Free, Link(a, stranger))
Chain == Layout(Old, Link(a, root), Link(b, me))
BadChain == Layout(Old, Link(a, stranger), Link(b, me))
Dangling == Layout(Free, Free, Link(a, me))
Cycle == Layout(Free, Link(l, me), Link(b, me))
Others == Layout(Plain("dir"), Plain("fifo"), RegFile(<<bad, x>>, TRUE, 420))
TooLong == Layout(RegFile(<<x, y, y, y>>, TRUE, 420), Free, Free)

Write(n, t) == [op |-> "write", path |-> n, create |-> TRUE, text |-> t, old |-> x, new |-> x]
WriteHere(n, t) == [Write(n, t) EXCEPT !.create = FALSE]
Edit(n, o, w) == [op |-> "edit", path |-> n, create |-> FALSE, text |-> <<>>, old |-> o, new |-> w]
Dry(n, o, w) == [Edit(n, o, w) EXCEPT !.op = "dry"]

RaceRequests == {Write(a, <<y>>), Write(l, <<y, y>>), Edit(a, x, y), Dry(a, x, y)}
RaceLayouts == {FileAndLink}
RaceForeign == {Old, Link(b, stranger), Plain("dir")}

QuietRequests == {Write(n, <<y>>) : n \in Names}
  \cup {Edit(a, x, y), Edit(l, x, y), Dry(b, x, y), WriteHere(b, <<y>>)}
QuietLayouts == {NoDirectory, FileAndLink, ForeignLink, Chain, BadChain, Dangling, Cycle,
                 Shared(Old), OneFile, OneSetUid}

BreadthRequests == {Write(n, <<y>>) : n \in Names \cup {BadPath}}
  \cup {Edit(n, x, y) : n \in Names} \cup {Edit(n, y, x) : n \in Names}
BreadthLayouts == {Others, TooLong, NoDirectory, OneFile, Cycle}

ReturnForeign == {Old, Plain("fifo"), Link(l, me), Link(b, stranger)}

EditRequests == {Edit(a, x, z), Edit(a, y, z)}
=============================================================================
