------------------------- MODULE FileWritesProofs --------------------------
(* Theorems about FileWrites, for every value of its constants: types and the *)
(* safety invariants, that it implements AtomicFiles, and what holds of hard   *)
(* links, followed links and permissions while no other process interferes.    *)
EXTENDS FileWrites, TLAPS

\* The file a call makes is a node.
LEMMA RegFileType ==
  ASSUME NEW t \in Seq(Toks), NEW w \in BOOLEAN, NEW m \in Nat
  PROVE  RegFile(t, w, m) \in Node
BY DEF RegFile, Node

\* So is the file as it is created.
LEMMA EmptyFileType == RegFile(<<>>, FALSE, NewMode) \in Node
<1>1. <<>> \in Seq(Toks) /\ NewMode \in Nat /\ FALSE \in BOOLEAN
  BY DEF NewMode
<1> QED
  BY <1>1, RegFileType

\* Kinds and texts of nodes.
LEMMA NodeShape ==
  ASSUME NEW f \in Node
  PROVE  /\ f.kind \in {"reg", "link", "free", "dir", "fifo"}
         /\ f.kind = "reg" => f.text \in Seq(Toks) /\ f.mode \in Nat /\ f.whole \in BOOLEAN
         /\ f.kind = "link" => f.to \in Names
BY DEF Node

\* An edited text is a text.
LEMMA ReplaceType ==
  ASSUME NEW t \in Seq(Toks), NEW old \in Toks, NEW new \in Toks
  PROVE  Replace(t, old, new) \in Seq(Toks)
<1> DEFINE u == Replace(t, old, new)
<1>1. t \in [1..Len(t) -> Toks] /\ Len(t) \in Nat /\ DOMAIN t = 1..Len(t)
  OBVIOUS
<1>2. u \in [1..Len(t) -> Toks]
  BY <1>1 DEF Replace
<1> QED
  BY <1>1, <1>2

\* The mode a call installs is a mode.
LEMMA InstallModeType ==
  ASSUME NEW s \in Node \cup {None}
  PROVE  InstallMode(s) \in Nat
<1>1. NewMode \in Nat
  BY DEF NewMode
<1>2. ASSUME s \in Node, s.kind = "reg" PROVE Permissions(s.mode) \in Nat
  <2>1. s.mode \in Nat
    BY <1>2, NodeShape
  <2> QED
    BY <2>1 DEF Permissions
<1> QED
  BY <1>1, <1>2 DEF InstallMode

-----------------------------------------------------------------------------
(* Type correctness. *)

\* What the server starts with has the types.
LEMMA InitType == Init => TypeOK
BY ConstantsOK, LayoutsOK DEF Init, TypeOK, Entries, Idle, Busy, Unlinked, Linked, Returned

\* Every step of a call, of another process or of the end of the server keeps them.
LEMMA StepType ==
  ASSUME TypeOK, [Next]_vars
  PROVE  TypeOK'
<1> USE DEF TypeOK, Idle, Busy, Unlinked, Linked, Returned
<1>1. ASSUME NEW c \in Calls, Begin(c) PROVE TypeOK'
  <2>1. PICK r \in Requests :
          /\ req' = [req EXCEPT ![c] = r]
          /\ at' = [at EXCEPT ![c] = r.path]
          /\ text' = [text EXCEPT ![c] = r.text]
          /\ pc' = [pc EXCEPT ![c] = IF r.path = BadPath THEN "error" ELSE "walk"]
    BY <1>1 DEF Begin, Goto, PathRefused
  <2>2. UNCHANGED <<dir, node, parent, hops, st, fd, stuck, env>>
    BY <1>1 DEF Begin, files
  <2>3. r \in Request
    BY ConstantsOK
  <2>4. r.path \in Names \cup {BadPath} /\ r.text \in Seq(Toks)
    BY <2>3 DEF Request
  <2>5. r # None
    BY <2>3, ConstantsOK
  <2>6. req' \in [Calls -> Request \cup {None}] /\ at' \in [Calls -> Names \cup {BadPath, None}]
        /\ text' \in [Calls -> Seq(Toks)] /\ pc' \in [Calls -> Idle \cup Busy]
    BY <2>1, <2>3, <2>4
  <2>7. \A d \in Calls : pc'[d] \in Busy => req'[d] # None /\ at'[d] \in Names
    BY <2>1, <2>4, <2>5
  <2>8. \A d \in Calls : pc'[d] = "slurp" => fd'[d] # None
    BY <2>1, <2>2
  <2> QED
    BY <2>2, <2>6, <2>7, <2>8
<1>2. ASSUME NEW c \in Calls, Walk(c) PROVE TypeOK'
  <2>1. /\ pc[c] \in Busy
        /\ \/ \E k \in {"opendir", "error"} : pc' = [pc EXCEPT ![c] = k] /\ UNCHANGED hops
           \/ /\ pc' = [pc EXCEPT ![c] = "readlink"]
              /\ hops' = [hops EXCEPT ![c] = @ + 1]
              /\ hops[c] < MaxHops
    BY <1>2 DEF Walk, Goto, MayFollow
  <2>2. hops' \in [Calls -> 0..MaxHops]
    <3>1. hops \in [Calls -> 0..MaxHops] /\ MaxHops \in Nat
      BY ConstantsOK
    <3>2. ASSUME hops[c] < MaxHops PROVE hops[c] + 1 \in 0..MaxHops
      BY <3>1, <3>2
    <3> QED
      BY <2>1, <3>1, <3>2
  <2>3. UNCHANGED <<dir, node, parent, req, at, st, fd, text, stuck, env>>
    BY <1>2 DEF Walk, files
  <2> QED
    BY <2>1, <2>2, <2>3
<1>18. ASSUME NEW c \in Calls, Follow(c) PROVE TypeOK'
  <2>1. at[c] \in Names /\ at[c] \in Entries /\ pc[c] \in Busy
    BY <1>18 DEF Follow, Entries
  <2>2. IsLink(at[c]) => node[dir[at[c]]].to \in Names
    BY <2>1, NodeShape DEF IsLink
  <2>3. \/ \E n \in Names : at' = [at EXCEPT ![c] = n] /\ pc' = [pc EXCEPT ![c] = "walk"]
        \/ UNCHANGED at /\ pc' = [pc EXCEPT ![c] = "error"]
    BY <1>18, <2>2 DEF Follow, Goto
  <2>4. UNCHANGED <<dir, node, parent, req, hops, st, fd, text, stuck, env>>
    BY <1>18 DEF Follow, files
  <2>5. CASE UNCHANGED at /\ pc' = [pc EXCEPT ![c] = "error"]
    BY <2>4, <2>5
  <2>6. ASSUME NEW n \in Names, at' = [at EXCEPT ![c] = n], pc' = [pc EXCEPT ![c] = "walk"]
        PROVE  TypeOK'
    <3>1. at' \in [Calls -> Names \cup {BadPath, None}] /\ pc' \in [Calls -> Idle \cup Busy]
      BY <2>6
    <3>2. \A d \in Calls : pc'[d] \in Busy => req'[d] # None /\ at'[d] \in Names
      BY <2>1, <2>4, <2>6
    <3>3. \A d \in Calls : pc'[d] = "slurp" => fd'[d] # None
      BY <2>4, <2>6
    <3> QED
      BY <2>4, <3>1, <3>2, <3>3
  <2> QED
    BY <2>3, <2>5, <2>6
<1>3. ASSUME NEW c \in Calls, OpenDir(c) PROVE TypeOK'
  BY <1>3 DEF OpenDir, Goto, locals
<1>4. ASSUME NEW c \in Calls, Stat(c) PROVE TypeOK'
  BY <1>4 DEF Stat, Goto, files, Entries
<1>5. ASSUME NEW c \in Calls, OpenForRead(c) PROVE TypeOK'
  <2>1. at[c] \in Names /\ at[c] \in Entries
    BY <1>5 DEF OpenForRead, Entries
  <2>2. \/ /\ dir[at[c]] # None /\ node[dir[at[c]]].kind = "reg"
           /\ fd' = [fd EXCEPT ![c] = dir[at[c]]]
           /\ pc' = [pc EXCEPT ![c] = "slurp"]
        \/ UNCHANGED fd /\ pc' = [pc EXCEPT ![c] = "error"]
    BY <1>5 DEF OpenForRead, Goto
  <2>3. UNCHANGED <<dir, node, parent, req, at, hops, st, text, stuck, env>>
    BY <1>5 DEF OpenForRead, files
  <2>4. pc[c] \in Busy
    BY <1>5 DEF OpenForRead
  <2> QED
    BY <2>1, <2>2, <2>3, <2>4
<1>6. ASSUME NEW c \in Calls, Slurp(c) PROVE TypeOK'
  <2> DEFINE t == node[fd[c]].text
             u == Replace(t, req[c].old, req[c].new)
  <2>1. fd[c] \in Inodes /\ t \in Seq(Toks) /\ pc[c] \in Busy
    BY <1>6, NodeShape DEF Slurp
  <2>2. req[c].old \in Toks /\ req[c].new \in Toks
    BY <1>6 DEF Slurp, Request
  <2>3. u \in Seq(Toks)
    BY <2>1, <2>2, ReplaceType
  <2>4. /\ text' = text \/ text' = [text EXCEPT ![c] = u]
        /\ \E k \in {"error", "ok", "create"} : pc' = [pc EXCEPT ![c] = k]
        /\ UNCHANGED <<dir, node, parent, req, at, hops, st, fd, stuck, env>>
    BY <1>6 DEF Slurp, Goto, files
  <2> HIDE DEF u, t
  <2>5. text' \in [Calls -> Seq(Toks)]
    BY <2>3, <2>4
  <2>6. pc' \in [Calls -> Idle \cup Busy]
    BY <2>1, <2>4
  <2>7. \A d \in Calls : pc'[d] \in Busy => req'[d] # None /\ at'[d] \in Names
    BY <2>1, <2>4
  <2>8. \A d \in Calls : pc'[d] = "slurp" => fd'[d] # None
    BY <2>1, <2>4
  <2> QED
    BY <2>4, <2>5, <2>6, <2>7, <2>8
<1>7. ASSUME NEW c \in Calls, Create(c) PROVE TypeOK'
  <2>1. PICK i \in Inodes :
          /\ node[i].kind = "free"
          /\ node' = [node EXCEPT ![i] = RegFile(<<>>, FALSE, NewMode)]
          /\ dir' = [dir EXCEPT ![c] = i]
    BY <1>7 DEF Create, CreateAs, Fresh
  <2>2. /\ pc[c] = "create" /\ pc' = [pc EXCEPT ![c] = "fill"]
        /\ UNCHANGED <<parent, req, at, hops, st, fd, text, stuck, env>>
    BY <1>7 DEF Create, CreateAs, Goto, locals
  <2>3. RegFile(<<>>, FALSE, NewMode) \in Node
    BY EmptyFileType
  <2>4. RegFile(<<>>, FALSE, NewMode).kind = "reg"
    BY DEF RegFile
  <2>5. node' \in [Inodes -> Node] /\ dir' \in [Entries -> Inodes \cup {None}]
    BY <2>1, <2>3 DEF Entries
  <2>6. \A d \in Calls : fd'[d] # None => node'[fd'[d]].kind = "reg"
    BY <2>1, <2>2, <2>4
  <2> QED
    BY <2>2, <2>5, <2>6
<1>8. ASSUME NEW c \in Calls, Fill(c) PROVE TypeOK'
  BY <1>8, RegFileType, InstallModeType DEF Fill, FillAs, Goto, locals, Entries, RegFile
<1>9. ASSUME NEW c \in Calls, Rename(c) PROVE TypeOK'
  <2>1. at[c] \in Entries /\ c \in Entries /\ pc[c] \in Busy
    BY <1>9 DEF Rename, Entries
  <2>2. dir' \in [Entries -> Inodes \cup {None}]
    BY <1>9, <2>1 DEF Rename
  <2>3. \E k \in {"cleanup", "ok"} : pc' = [pc EXCEPT ![c] = k]
    BY <1>9 DEF Rename, Goto
  <2>4. UNCHANGED <<node, parent, req, at, hops, st, fd, text, stuck, env>>
    BY <1>9 DEF Rename, locals
  <2> QED
    BY <2>1, <2>2, <2>3, <2>4
<1>10. ASSUME NEW c \in Calls, Cleanup(c) PROVE TypeOK'
  BY <1>10 DEF Cleanup, Goto, locals, Entries
<1>11. ASSUME NEW c \in Calls, Fault(c) PROVE TypeOK'
  BY <1>11 DEF Fault, FailsTo, Goto, files, locals
<1>12. ASSUME NEW n \in Names, EnvPut(n) PROVE TypeOK'
  BY <1>12, ConstantsOK DEF EnvPut, Happens, Fresh, locals, Entries
<1>13. ASSUME NEW n \in Names, EnvUnlink(n) PROVE TypeOK'
  BY <1>13, ConstantsOK DEF EnvUnlink, Happens, locals, Entries
<1>14. ASSUME NEW n \in Names, EnvInPlace(n) PROVE TypeOK'
  BY <1>14, ConstantsOK DEF EnvInPlace, Happens, locals, Entries
<1>15. ASSUME NEW n \in Names, NEW m \in Names, EnvHardLink(n, m) PROVE TypeOK'
  BY <1>15, ConstantsOK DEF EnvHardLink, Happens, locals, Entries
<1>16. ASSUME Crash PROVE TypeOK'
  BY <1>16, ConstantsOK DEF Crash, Happens, files, locals
<1>17. ASSUME UNCHANGED vars PROVE TypeOK'
  BY <1>17 DEF vars, files, locals
<1> QED
  BY <1>1, <1>2, <1>3, <1>4, <1>5, <1>6, <1>7, <1>8, <1>9, <1>10, <1>11, <1>12,
     <1>13, <1>14, <1>15, <1>16, <1>17, <1>18 DEF Next, Step, Env

\* Every state the calls and the other processes can reach has the types, and a
\* call in progress always has the name and the file it works on.
THEOREM TypeCorrect == Spec => []TypeOK
<1>1. Init => TypeOK
  BY InitType
<1>2. TypeOK /\ [Next]_vars => TypeOK'
  BY StepType
<1> QED
  BY <1>1, <1>2, PTL DEF Spec

-----------------------------------------------------------------------------
(* What is under the names.  WholeOnly is not inductive by itself: that the  *)
(* file a rename brings is complete, and that nobody else holds it while it  *)
(* is filled, is TempsPrivate.                                               *)

IInv == TypeOK /\ WholeOnly /\ TempsPrivate

\* It holds before any call: no temporary file is there, and the files that are
\* there are complete.
LEMMA InitInv == Init => IInv
<1> SUFFICES ASSUME Init PROVE IInv
  OBVIOUS
<1>1. TypeOK
  BY InitType
<1>2. \A n \in Names : dir[n] # None => Finished(node[dir[n]])
  BY ConstantsOK, LayoutsOK DEF Init, Entries
<1>3. \A c \in Calls : dir[c] = None /\ pc[c] = "idle"
  BY ConstantsOK DEF Init, Entries
<1>4. \A e \in Entries : dir[e] # None => node[dir[e]].kind # "free"
  BY <1>2, <1>3 DEF Entries, Finished
<1> QED
  BY <1>1, <1>2, <1>3, <1>4 DEF IInv, WholeOnly, TempsPrivate, Linked

\* Steps that leave the directory alone and bring no call past its write.
LEMMA QuietStep ==
  ASSUME IInv, UNCHANGED <<dir, node>>,
         \A d \in Calls : pc'[d] \in Linked => pc[d] \in Linked,
         \A d \in Calls : pc'[d] = "rename" => pc[d] = "rename"
  PROVE  WholeOnly' /\ TempsPrivate'
<1>1. WholeOnly'
  BY DEF IInv, WholeOnly
<1>2. TempsPrivate'
  BY DEF IInv, TempsPrivate
<1> QED
  BY <1>1, <1>2

\* The file put under an entry that is not a temporary file's, or the entry's end.
LEMMA EntryStep ==
  ASSUME IInv, NEW n \in Names, NEW j \in Inodes \cup {None},
         dir' = [dir EXCEPT ![n] = j], UNCHANGED pc,
         \A i \in Inodes : (\E e \in Entries : dir[e] = i) => node'[i] = node[i],
         j # None => Finished(node'[j]) /\ \A c \in Calls : dir[c] # j
  PROVE  WholeOnly' /\ TempsPrivate'
<1>1. n \in Entries /\ n \notin Calls /\ dir \in [Entries -> Inodes \cup {None}]
  BY ConstantsOK DEF Entries, IInv, TypeOK
<1>2. \A e \in Entries : dir'[e] = IF e = n THEN j ELSE dir[e]
  BY <1>1
<1>3. \A e \in Entries : dir[e] # None => node'[dir[e]] = node[dir[e]]
  BY <1>1
<1>4. \A c \in Calls : c \in Entries /\ c # n
  BY <1>1 DEF Entries
<1>5. \A m \in Names : m \in Entries
  BY DEF Entries
<1>6. WholeOnly'
  BY <1>2, <1>3, <1>5 DEF IInv, WholeOnly
<1>7. TempsPrivate'
  <2>1. \A c \in Calls : dir'[c] # None => \A e \in Entries \ {c} : dir'[e] # dir'[c]
    BY <1>2, <1>4 DEF IInv, TempsPrivate
  <2>2. \A c \in Calls : pc'[c] \in Linked => dir'[c] # None
    BY <1>2, <1>4 DEF IInv, TempsPrivate
  <2>3. \A c \in Calls : pc'[c] = "rename" => Finished(node'[dir'[c]])
    BY <1>2, <1>3, <1>4 DEF IInv, TempsPrivate, Linked
  <2>4. \A e \in Entries : dir'[e] # None => node'[dir'[e]].kind # "free"
    BY <1>2, <1>3 DEF IInv, TempsPrivate, Finished
  <2> QED
    BY <2>1, <2>2, <2>3, <2>4 DEF TempsPrivate
<1> QED
  BY <1>6, <1>7

\* Every step keeps it.
LEMMA StepInv ==
  ASSUME IInv, [Next]_vars
  PROVE  IInv'
<1>0. TypeOK /\ TypeOK'
  BY StepType DEF IInv
<1>e. /\ dir \in [Entries -> Inodes \cup {None}] /\ node \in [Inodes -> Node]
      /\ pc \in [Calls -> Idle \cup Busy]
  BY <1>0 DEF TypeOK
<1>n. /\ \A c \in Calls : c \in Entries /\ c \notin Names
      /\ \A n \in Names : n \in Entries /\ n \notin Calls
  BY ConstantsOK DEF Entries
<1>1. ASSUME NEW c \in Calls, Begin(c) \/ Walk(c) \/ Follow(c) \/ OpenDir(c) \/ Stat(c)
                               \/ OpenForRead(c) \/ Slurp(c) \/ Fault(c)
      PROVE  WholeOnly' /\ TempsPrivate'
  <2>1. UNCHANGED <<dir, node>>
    BY <1>1 DEF Begin, Walk, Follow, OpenDir, Stat, OpenForRead, Slurp, Fault, files
  <2>2. \E k \in Unlinked \cup Returned \cup {"cleanup"} :
          pc' = [pc EXCEPT ![c] = k] \/ pc' = pc
    BY <1>1 DEF Begin, Walk, Follow, OpenDir, Stat, OpenForRead, Slurp, Fault, FailsTo, Goto,
                Unlinked, Returned
  <2>3. \A d \in Calls : pc'[d] = "cleanup" => pc[d] \in Linked
    BY <1>1, <1>e, <1>0 DEF Begin, Walk, Follow, OpenDir, Stat, OpenForRead, Slurp, Fault, FailsTo, Goto,
                Unlinked, Linked
  <2>4. /\ \A d \in Calls : pc'[d] \in Linked => pc[d] \in Linked
        /\ \A d \in Calls : pc'[d] = "rename" => pc[d] = "rename"
    BY <2>2, <2>3, <1>e DEF Unlinked, Returned, Linked
  <2> QED
    BY <2>1, <2>4, QuietStep
<1>2. ASSUME NEW c \in Calls, Create(c) PROVE WholeOnly' /\ TempsPrivate'
  <2>1. PICK i \in Inodes :
          /\ node[i].kind = "free"
          /\ node' = [node EXCEPT ![i] = RegFile(<<>>, FALSE, NewMode)]
          /\ dir' = [dir EXCEPT ![c] = i]
    BY <1>2 DEF Create, CreateAs, Fresh
  <2>2. pc' = [pc EXCEPT ![c] = "fill"]
    BY <1>2 DEF Create, CreateAs, Goto
  <2>3. \A e \in Entries : dir[e] # i
    BY <2>1, ConstantsOK DEF IInv, TempsPrivate
  <2>4. node'[i].kind = "reg" /\ i # None
    BY <2>1, <1>e, ConstantsOK DEF RegFile
  <2>5. \A e \in Entries : /\ dir'[e] = IF e = c THEN i ELSE dir[e]
                           /\ dir[e] # None => node'[dir[e]] = node[dir[e]]
    BY <2>1, <2>3, <1>e, <1>n
  <2>6. WholeOnly'
    BY <2>5, <1>n DEF IInv, WholeOnly
  <2>7. TempsPrivate'
    <3>1. \A d \in Calls : dir'[d] # None => \A e \in Entries \ {d} : dir'[e] # dir'[d]
      BY <2>3, <2>5, <1>n DEF IInv, TempsPrivate
    <3>2. \A d \in Calls : pc'[d] \in Linked => dir'[d] # None
      BY <2>2, <2>4, <2>5, <1>n, <1>e DEF IInv, TempsPrivate
    <3>3. \A d \in Calls : pc'[d] = "rename" => Finished(node'[dir'[d]])
      BY <2>2, <2>5, <1>n, <1>e DEF IInv, TempsPrivate, Linked
    <3>4. \A e \in Entries : dir'[e] # None => node'[dir'[e]].kind # "free"
      BY <2>4, <2>5, <1>n DEF IInv, TempsPrivate
    <3> QED
      BY <3>1, <3>2, <3>3, <3>4 DEF TempsPrivate
  <2> QED
    BY <2>6, <2>7
<1>3. ASSUME NEW c \in Calls, Fill(c) PROVE WholeOnly' /\ TempsPrivate'
  <2>1. /\ pc[c] = "fill" /\ pc' = [pc EXCEPT ![c] = "rename"] /\ UNCHANGED dir
        /\ node' = [node EXCEPT ![dir[c]] = RegFile(text[c], TRUE, InstallMode(st[c]))]
    BY <1>3 DEF Fill, FillAs, Goto
  <2>2. dir[c] # None /\ \A e \in Entries \ {c} : dir[e] # dir[c]
    BY <2>1 DEF IInv, TempsPrivate, Linked
  <2>3. dir[c] \in Inodes
    BY <2>2, <1>e, <1>n
  <2>4. node'[dir[c]] = RegFile(text[c], TRUE, InstallMode(st[c]))
    BY <2>1, <2>3, <1>e
  <2>5. Finished(node'[dir[c]]) /\ node'[dir[c]].kind # "free"
    BY <2>4 DEF Finished, RegFile
  <2>6. \A e \in Entries \ {c} : dir[e] # None => node'[dir[e]] = node[dir[e]]
    BY <2>1, <2>2, <1>e
  <2>7. WholeOnly'
    BY <2>1, <2>6, <1>n DEF IInv, WholeOnly
  <2>8. TempsPrivate'
    <3>1. \A d \in Calls : dir'[d] # None => \A e \in Entries \ {d} : dir'[e] # dir'[d]
      BY <2>1 DEF IInv, TempsPrivate
    <3>2. \A d \in Calls : pc'[d] \in Linked => dir'[d] # None
      BY <2>1, <2>2, <1>e DEF IInv, TempsPrivate
    <3>3. \A d \in Calls : pc'[d] = "rename" => Finished(node'[dir'[d]])
      BY <2>1, <2>5, <2>6, <1>n, <1>e DEF IInv, TempsPrivate, Linked
    <3>4. \A e \in Entries : dir'[e] # None => node'[dir'[e]].kind # "free"
      BY <2>1, <2>5, <2>6 DEF IInv, TempsPrivate
    <3> QED
      BY <3>1, <3>2, <3>3, <3>4 DEF TempsPrivate
  <2> QED
    BY <2>7, <2>8
<1>4. ASSUME NEW c \in Calls, Rename(c) PROVE WholeOnly' /\ TempsPrivate'
  <2>1. pc[c] = "rename" /\ UNCHANGED node /\ at[c] \in Names
    BY <1>4, <1>0 DEF Rename, TypeOK, Busy, Linked
  <2>2. /\ dir[c] # None /\ Finished(node[dir[c]])
        /\ \A e \in Entries \ {c} : dir[e] # dir[c]
    BY <2>1 DEF IInv, TempsPrivate, Linked
  <2>3. CASE UNCHANGED dir /\ pc' = [pc EXCEPT ![c] = "cleanup"]
    <3>1. /\ \A d \in Calls : pc'[d] \in Linked => pc[d] \in Linked
          /\ \A d \in Calls : pc'[d] = "rename" => pc[d] = "rename"
      BY <2>1, <2>3, <1>e DEF Linked
    <3> QED
      BY <3>1, <2>1, <2>3, QuietStep
  <2>4. CASE /\ dir' = [dir EXCEPT ![at[c]] = dir[c], ![c] = None]
             /\ pc' = [pc EXCEPT ![c] = "ok"]
    <3>1. \A e \in Entries : dir'[e] = IF e = c THEN None
                                       ELSE IF e = at[c] THEN dir[c] ELSE dir[e]
      BY <2>1, <2>4, <1>e, <1>n
    <3>2. \A d \in Calls : pc'[d] = IF d = c THEN "ok" ELSE pc[d]
      BY <2>4, <1>e
    <3>3. WholeOnly'
      BY <2>1, <2>2, <3>1, <1>n DEF IInv, WholeOnly
    <3>4. TempsPrivate'
      <4>1. \A d \in Calls : dir'[d] # None => \A e \in Entries \ {d} : dir'[e] # dir'[d]
        BY <2>1, <2>2, <3>1, <1>n DEF IInv, TempsPrivate
      <4>2. \A d \in Calls : pc'[d] \in Linked => dir'[d] # None
        BY <2>1, <3>1, <3>2, <1>n DEF IInv, TempsPrivate, Linked
      <4>3. \A d \in Calls : pc'[d] = "rename" => Finished(node'[dir'[d]])
        BY <2>1, <3>1, <3>2, <1>n DEF IInv, TempsPrivate
      <4>4. \A e \in Entries : dir'[e] # None => node'[dir'[e]].kind # "free"
        BY <2>1, <2>2, <3>1, <1>n DEF IInv, TempsPrivate
      <4> QED
        BY <4>1, <4>2, <4>3, <4>4 DEF TempsPrivate
    <3> QED
      BY <3>3, <3>4
  <2> QED
    BY <1>4, <2>3, <2>4 DEF Rename, Goto
<1>5. ASSUME NEW c \in Calls, Cleanup(c) PROVE WholeOnly' /\ TempsPrivate'
  <2>1. /\ pc' = [pc EXCEPT ![c] = "error"] /\ UNCHANGED node
        /\ dir' = [dir EXCEPT ![c] = None] \/ UNCHANGED dir
    BY <1>5 DEF Cleanup, Goto
  <2>2. /\ \A e \in Entries : dir'[e] = dir[e] \/ (e = c /\ dir'[e] = None)
        /\ \A d \in Calls : pc'[d] = IF d = c THEN "error" ELSE pc[d]
    BY <2>1, <1>e, <1>n
  <2>3. WholeOnly'
    BY <2>1, <2>2, <1>n DEF IInv, WholeOnly
  <2>4. TempsPrivate'
    <3>1. \A d \in Calls : dir'[d] # None => \A e \in Entries \ {d} : dir'[e] # dir'[d]
      BY <2>2, <1>n DEF IInv, TempsPrivate
    <3>2. \A d \in Calls : pc'[d] \in Linked => dir'[d] # None
      BY <2>2, <1>n DEF IInv, TempsPrivate, Linked
    <3>3. \A d \in Calls : pc'[d] = "rename" => Finished(node'[dir'[d]])
      BY <2>1, <2>2, <1>n DEF IInv, TempsPrivate
    <3>4. \A e \in Entries : dir'[e] # None => node'[dir'[e]].kind # "free"
      BY <2>1, <2>2 DEF IInv, TempsPrivate
    <3> QED
      BY <3>1, <3>2, <3>3, <3>4 DEF TempsPrivate
  <2> QED
    BY <2>3, <2>4
<1>6. ASSUME NEW n \in Names, EnvPut(n) PROVE WholeOnly' /\ TempsPrivate'
  <2>1. PICK i \in Inodes, f \in Foreign :
          /\ node[i].kind = "free" /\ UNCHANGED pc
          /\ node' = [node EXCEPT ![i] = f]
          /\ dir' = [dir EXCEPT ![n] = i]
    BY <1>6 DEF EnvPut, Fresh
  <2>2. \A e \in Entries : dir[e] # i
    BY <2>1, ConstantsOK DEF IInv, TempsPrivate
  <2>3. Finished(node'[i])
    BY <2>1, <1>e, ConstantsOK
  <2>4. \A j \in Inodes : (\E e \in Entries : dir[e] = j) => node'[j] = node[j]
    BY <2>1, <2>2, <1>e
  <2> QED
    BY <2>1, <2>2, <2>3, <2>4, <1>n, EntryStep
<1>7. ASSUME NEW n \in Names, EnvUnlink(n) PROVE WholeOnly' /\ TempsPrivate'
  BY <1>7, EntryStep DEF EnvUnlink
<1>8. ASSUME NEW n \in Names, NEW m \in Names, EnvHardLink(n, m) PROVE WholeOnly' /\ TempsPrivate'
  <2>1. /\ dir[n] # None /\ UNCHANGED <<node, pc>> /\ dir' = [dir EXCEPT ![m] = dir[n]]
    BY <1>8 DEF EnvHardLink
  <2>2. dir[n] \in Inodes /\ Finished(node[dir[n]]) /\ \A c \in Calls : dir[c] # dir[n]
    BY <2>1, <1>e, <1>n DEF IInv, WholeOnly, TempsPrivate
  <2> QED
    BY <2>1, <2>2, EntryStep
<1>9. ASSUME NEW n \in Names, EnvInPlace(n) PROVE WholeOnly' /\ TempsPrivate'
  <2>1. PICK f \in Foreign : /\ dir[n] # None /\ UNCHANGED <<dir, pc>>
                             /\ node' = [node EXCEPT ![dir[n]] = f]
    BY <1>9 DEF EnvInPlace
  <2>2. Finished(f) /\ dir[n] \in Inodes
    BY <2>1, <1>e, <1>n, ConstantsOK
  <2>3. \A e \in Entries : dir[e] # None => node'[dir[e]] = IF dir[e] = dir[n] THEN f
                                                            ELSE node[dir[e]]
    BY <2>1, <2>2, <1>e
  <2>4. \A c \in Calls : dir[c] # dir[n]
    BY <2>1, <1>n DEF IInv, TempsPrivate
  <2>5. WholeOnly'
    BY <2>1, <2>2, <2>3, <1>n DEF IInv, WholeOnly
  <2>6. TempsPrivate'
    BY <2>1, <2>2, <2>3, <2>4, <1>n DEF IInv, TempsPrivate, Finished, Linked
  <2> QED
    BY <2>5, <2>6
<1>10. ASSUME Crash PROVE WholeOnly' /\ TempsPrivate'
  <2>1. UNCHANGED <<dir, node>> /\ \A d \in Calls : pc'[d] = pc[d] \/ pc'[d] = "crashed"
    BY <1>10 DEF Crash, files
  <2> QED
    BY <2>1, QuietStep DEF Linked
<1>11. ASSUME UNCHANGED vars PROVE WholeOnly' /\ TempsPrivate'
  BY <1>11, QuietStep DEF vars, files
<1>12. WholeOnly' /\ TempsPrivate'
  BY <1>1, <1>2, <1>3, <1>4, <1>5, <1>6, <1>7, <1>8, <1>9, <1>10, <1>11 DEF Next, Step, Env
<1> QED
  BY <1>0, <1>12 DEF IInv

\* So it holds in every state.
LEMMA InvHolds == Spec => []IInv
<1> QED
  BY InitInv, StepInv, PTL DEF Spec

\* Whatever calls and other processes do, and wherever a system call fails or the
\* server dies, a name never shows a file that is not complete.
THEOREM NamesShowWholeFiles == Spec => []WholeOnly
<1>1. IInv => WholeOnly
  BY DEF IInv
<1> QED
  BY <1>1, InvHolds, PTL

\* No two calls ever fill the same temporary file, and none is renamed before it
\* is complete.
THEOREM TemporaryFilesPrivate == Spec => []TempsPrivate
<1>1. IInv => TempsPrivate
  BY DEF IInv
<1> QED
  BY <1>1, InvHolds, PTL

-----------------------------------------------------------------------------
(* Temporary files end with their calls, and named files are never written. *)

\* A step that leaves a call's temporary file there leaves the call in the hands
\* of _write_into, dead with the server, or with a removal that failed.
LEMMA StepLitter ==
  ASSUME TypeOK, NoLitter, [Next]_vars
  PROVE  NoLitter'
<1> DEFINE Kept(d) == pc[d] \in Linked \cup {"crashed"} \/ d \in stuck
<1>e. /\ dir \in [Entries -> Inodes \cup {None}] /\ pc \in [Calls -> Idle \cup Busy]
      /\ \A c \in Calls : c \in Entries /\ c \notin Names
  BY ConstantsOK DEF TypeOK, Entries
<1>1. SUFFICES ASSUME NEW d \in Calls, dir'[d] # None, dir[d] = None \/ Kept(d)
               PROVE  Kept(d)'
  BY DEF NoLitter
<1>2. ASSUME NEW c \in Calls, Begin(c) PROVE Kept(d)'
  BY <1>1, <1>2, <1>e DEF Begin, files, Goto, Linked
<1>3. ASSUME NEW c \in Calls, Walk(c) \/ Follow(c) \/ OpenDir(c) \/ Stat(c)
                               \/ OpenForRead(c) \/ Slurp(c)
      PROVE  Kept(d)'
  BY <1>1, <1>3, <1>e DEF Walk, Follow, OpenDir, Stat, OpenForRead, Slurp, files, Goto, Linked
<1>4. ASSUME NEW c \in Calls, Create(c) PROVE Kept(d)'
  BY <1>1, <1>4, <1>e DEF Create, CreateAs, Goto, Linked
<1>5. ASSUME NEW c \in Calls, Fill(c) PROVE Kept(d)'
  BY <1>1, <1>5, <1>e DEF Fill, FillAs, Goto, Linked
<1>6. ASSUME NEW c \in Calls, Rename(c) PROVE Kept(d)'
  <2>1. at[c] \in Names
    BY <1>6 DEF Rename, TypeOK, Busy, Linked
  <2> QED
    BY <1>1, <1>6, <1>e, <2>1 DEF Rename, Goto, Linked
<1>7. ASSUME NEW c \in Calls, Cleanup(c) PROVE Kept(d)'
  BY <1>1, <1>7, <1>e DEF Cleanup, Goto, Linked
<1>8. ASSUME NEW c \in Calls, Fault(c) PROVE Kept(d)'
  BY <1>1, <1>8, <1>e DEF Fault, FailsTo, files, Goto, Linked, Unlinked
<1>9. ASSUME NEW n \in Names, EnvPut(n) \/ EnvUnlink(n) \/ EnvInPlace(n) PROVE Kept(d)'
  BY <1>1, <1>9, <1>e DEF EnvPut, EnvUnlink, EnvInPlace
<1>10. ASSUME NEW n \in Names, NEW m \in Names, EnvHardLink(n, m) PROVE Kept(d)'
  BY <1>1, <1>10, <1>e DEF EnvHardLink
<1>11. ASSUME Crash PROVE Kept(d)'
  BY <1>1, <1>11, <1>e DEF Crash, files, Linked, Busy
<1>12. ASSUME UNCHANGED vars PROVE Kept(d)'
  BY <1>1, <1>12 DEF vars, files
<1> QED
  BY <1>2, <1>3, <1>4, <1>5, <1>6, <1>7, <1>8, <1>9, <1>10, <1>11, <1>12 DEF Next, Step, Env

\* A call that returns has left no temporary file behind, unless its removal
\* failed: only the death of the server leaves one.
THEOREM NoTemporaryFileLeft == Spec => []NoLitter
<1>1. Init => NoLitter
  BY ConstantsOK DEF Init, NoLitter, Entries
<1>2. TypeOK /\ NoLitter /\ [Next]_vars => NoLitter'
  BY StepLitter
<1> QED
  BY <1>1, <1>2, TypeCorrect, PTL DEF Spec

\* The server never writes into a file that has a name: not through a link, not
\* into a file that was put under the name after it looked.
THEOREM NamedFilesNeverWritten == Spec => NoWriteThrough
<1> DEFINE A == env' = env =>
                  \A i \in Inodes : node'[i] # node[i] => \A n \in Names : dir[n] # i
<1>1. IInv /\ [Next]_vars => A
  <2> SUFFICES ASSUME IInv, [Next]_vars, env' = env,
                      NEW i \in Inodes, node'[i] # node[i], NEW n \in Names
               PROVE  dir[n] # i
    OBVIOUS
  <2>e. /\ node \in [Inodes -> Node] /\ env \in Nat
        /\ n \in Entries /\ \A c \in Calls : c \in Entries /\ c # n
    BY ConstantsOK DEF IInv, TypeOK, Entries
  <2>1. CASE \E c \in Calls : Create(c)
    BY <2>1, <2>e, ConstantsOK DEF Create, CreateAs, Fresh, IInv, TempsPrivate
  <2>2. CASE \E c \in Calls : Fill(c)
    BY <2>2, <2>e DEF Fill, FillAs, IInv, TempsPrivate, Linked
  <2>3. ASSUME NEW c \in Calls, Begin(c) \/ Walk(c) \/ Follow(c) \/ OpenDir(c) \/ Stat(c) \/ OpenForRead(c)
                    \/ Slurp(c) \/ Rename(c) \/ Cleanup(c) \/ Fault(c)
        PROVE  FALSE
    BY <2>3 DEF Begin, Walk, Follow, OpenDir, Stat, OpenForRead, Slurp, Rename, Cleanup, Fault, files
  <2>4. ~Env
    BY <2>e DEF Env, EnvPut, EnvUnlink, EnvInPlace, EnvHardLink, Crash, Happens
  <2>5. ~UNCHANGED vars
    BY DEF vars, files
  <2> QED
    BY <2>1, <2>2, <2>3, <2>4, <2>5 DEF Next, Step
<1>2. Spec => [][A]_vars
  BY <1>1, InvHolds, PTL DEF Spec
<1> QED
  BY <1>2 DEF NoWriteThrough

-----------------------------------------------------------------------------
(* FileWrites implements AtomicFiles, for every value of its constants, as   *)
(* long as no other process rewrites files where they stand.                 *)

Reached == {"create"} \cup Linked

\* What each call has in hand, for the step that puts it under a name to be the
\* one AtomicFiles asks for: nothing is read before the file is opened, only an
\* edit opens one, a dry run makes no file, and what will be installed is the
\* text that was given or the one that was read, edited.
HandInv ==
  /\ \A c \in Calls : pc[c] \in {"idle"} \cup (Unlinked \ {"slurp", "create"}) => fd[c] = None
  /\ \A c \in Calls : pc[c] \in {"open", "slurp"} => req[c].op # "write"
  /\ \A c \in Calls : pc[c] \in Reached => req[c].op # "dry"
  /\ \A c \in Calls : pc[c] \in Busy /\ req[c].op = "write" => text[c] = req[c].text
  /\ \A c \in Calls : pc[c] \in Reached /\ req[c].op = "edit" =>
       fd[c] # None /\ text[c] = Replace(node[fd[c]].text, req[c].old, req[c].new)

\* Which inodes are being filled, and that none of them was ever opened to be read.
FillInv ==
  /\ \A c \in Calls : pc[c] = "fill" => node[dir[c]].kind = "reg" /\ ~node[dir[c]].whole
  /\ \A c \in Calls : pc[c] = "rename" => node[dir[c]].kind = "reg" /\ node[dir[c]].text = text[c]
  /\ \A c \in Calls : fd[c] # None => node[fd[c]].whole

RInv == IInv /\ HandInv /\ FillInv

\* The shapes the steps below need, from the types.
LEMMA Shapes ==
  ASSUME TypeOK
  PROVE  /\ dir \in [Entries -> Inodes \cup {None}] /\ node \in [Inodes -> Node]
         /\ pc \in [Calls -> Idle \cup Busy] /\ req \in [Calls -> Request \cup {None}]
         /\ at \in [Calls -> Names \cup {BadPath, None}]
         /\ fd \in [Calls -> Inodes \cup {None}] /\ text \in [Calls -> Seq(Toks)]
         /\ \A c \in Calls : c \in Entries /\ c \notin Names
         /\ \A n \in Names : n \in Entries /\ n \notin Calls
         /\ None \notin Inodes
BY ConstantsOK DEF TypeOK, Entries

\* What any call is at before a rename is private to it.
LEMMA Private ==
  ASSUME IInv, NEW c \in Calls, pc[c] \in Linked
  PROVE  dir[c] \in Inodes /\ \A e \in Entries \ {c} : dir[e] # dir[c]
<1>1. dir[c] # None /\ \A e \in Entries \ {c} : dir[e] # dir[c]
  BY DEF IInv, TempsPrivate
<1> QED
  BY <1>1, Shapes DEF IInv

\* A file that was opened to be read keeps its contents: the server fills only
\* files that nobody could open.
LEMMA ReadFilesStay ==
  ASSUME IInv, FillInv, Next, "inplace" \notin EnvOps, NEW d \in Calls, fd[d] # None
  PROVE  node'[fd[d]] = node[fd[d]]
<1>1. fd[d] \in Inodes /\ node[fd[d]].kind = "reg" /\ node[fd[d]].whole
  BY Shapes DEF IInv, TypeOK, FillInv
<1>2. ASSUME NEW i \in Inodes, NEW f, node[i].kind = "free", node' = [node EXCEPT ![i] = f]
      PROVE  node'[fd[d]] = node[fd[d]]
  BY <1>1, <1>2, Shapes DEF IInv
<1>3. CASE \E c \in Calls : Create(c)
  BY <1>2, <1>3 DEF Create, CreateAs, Fresh
<1>4. CASE \E c \in Calls : Fill(c)
  <2>1. PICK c \in Calls : Fill(c)
    BY <1>4
  <2>2. dir[c] # fd[d]
    BY <1>1, <2>1 DEF Fill, FillAs, FillInv
  <2> QED
    BY <1>1, <2>1, <2>2, Shapes DEF Fill, FillAs, IInv
<1>5. CASE \E n \in Names : EnvPut(n)
  BY <1>2, <1>5 DEF EnvPut, Fresh
<1>6. CASE UNCHANGED node
  BY <1>6
<1>7. ASSUME NEW c \in Calls, Begin(c) \/ Walk(c) \/ Follow(c) \/ OpenDir(c) \/ Stat(c)
                               \/ OpenForRead(c) \/ Slurp(c) \/ Rename(c) \/ Cleanup(c) \/ Fault(c)
      PROVE  UNCHANGED node
  BY <1>7 DEF Begin, Walk, Follow, OpenDir, Stat, OpenForRead, Slurp, Rename, Cleanup, Fault, files
<1>8. ASSUME NEW n \in Names, NEW m \in Names, EnvUnlink(n) \/ EnvHardLink(n, m) \/ EnvInPlace(n) \/ Crash
      PROVE  UNCHANGED node
  BY <1>8 DEF EnvUnlink, EnvHardLink, EnvInPlace, Crash, Happens, files
<1>9. ASSUME Crash PROVE UNCHANGED node
  BY <1>9 DEF Crash, files
<1> QED
  BY <1>3, <1>4, <1>5, <1>6, <1>7, <1>8, <1>9 DEF Next, Step, Env

\* Every step keeps FillInv, whatever other processes do.
LEMMA StepFill ==
  ASSUME IInv, FillInv, [Next]_vars
  PROVE  FillInv'
<1> DEFINE Filling(c) == pc[c] = "fill" => node[dir[c]].kind = "reg" /\ ~node[dir[c]].whole
           Filled(c) == pc[c] = "rename" => node[dir[c]].kind = "reg" /\ node[dir[c]].text = text[c]
           Opened(c) == fd[c] # None => node[fd[c]].whole
<1>0. SUFFICES ASSUME NEW d \in Calls PROVE (Filling(d) /\ Filled(d) /\ Opened(d))'
  BY DEF FillInv
<1>i. Filling(d) /\ Filled(d) /\ Opened(d)
  BY DEF FillInv
<1>k. fd[d] # None => fd[d] \in Inodes /\ node[fd[d]].kind = "reg"
  BY Shapes DEF IInv, TypeOK
<1>p. pc[d] \in {"fill", "rename"} => dir[d] \in Inodes /\ \A e \in Entries \ {d} : dir[e] # dir[d]
  BY Private DEF Linked
<1>s. TypeOK
  BY DEF IInv
<1> HIDE DEF Filling, Filled, Opened
<1>1. ASSUME NEW c \in Calls, Begin(c) \/ Walk(c) \/ Follow(c) \/ OpenDir(c) \/ Stat(c)
                               \/ Slurp(c) \/ Fault(c)
      PROVE  (Filling(d) /\ Filled(d) /\ Opened(d))'
  <2>1. UNCHANGED <<dir, node, fd>> /\ (text'[d] = text[d] \/ pc[d] \in {"idle", "slurp"})
    BY <1>1, <1>s, Shapes DEF Begin, Walk, Follow, OpenDir, Stat, Slurp, Fault, files, locals
  <2>2. pc'[d] \in {"fill", "rename"} => pc'[d] = pc[d]
    BY <1>1, <1>s, Shapes DEF Begin, Walk, Follow, OpenDir, Stat, Slurp, Fault, FailsTo, Goto, Unlinked
  <2> QED
    BY <1>i, <2>1, <2>2 DEF Filling, Filled, Opened
<1>2. ASSUME NEW c \in Calls, OpenForRead(c)
      PROVE  (Filling(d) /\ Filled(d) /\ Opened(d))'
  <2>1. UNCHANGED <<dir, node, text>>
        /\ \A e \in Calls : pc'[e] = pc[e] \/ pc'[e] \in {"slurp", "error"}
    BY <1>2, <1>s, Shapes DEF OpenForRead, Goto, files
  <2>2. at[c] \in Names
    BY <1>2 DEF OpenForRead, IInv, TypeOK, Busy, Unlinked
  <2>3. fd'[d] = fd[d] \/ (fd'[d] = dir[at[c]] /\ dir[at[c]] # None /\ node[dir[at[c]]].kind = "reg")
    BY <1>2, <1>s, Shapes DEF OpenForRead
  <2>4. Opened(d)'
    BY <1>i, <2>1, <2>2, <2>3 DEF Opened, IInv, WholeOnly, Finished
  <2> QED
    BY <1>i, <2>1, <2>4 DEF Filling, Filled
<1>3. ASSUME NEW i \in Inodes, NEW f, node[i].kind = "free", node' = [node EXCEPT ![i] = f],
             NEW e \in Entries, dir' = [dir EXCEPT ![e] = i], pc[d] \in {"fill", "rename"} => e # d,
             UNCHANGED <<fd, text>>, pc'[d] = pc[d]
      PROVE  (Filling(d) /\ Filled(d) /\ Opened(d))'
  <2>1. pc[d] \in {"fill", "rename"} => dir'[d] = dir[d] /\ dir[d] # i
    BY <1>3, <1>p, <1>s, <1>i, Shapes DEF Filling, Filled
  <2> QED
    BY <2>1, <1>3, <1>p, <1>k, <1>i, <1>s, Shapes DEF Filling, Filled, Opened
<1>4. ASSUME NEW c \in Calls, Create(c) PROVE (Filling(d) /\ Filled(d) /\ Opened(d))'
  <2>1. PICK i \in Inodes : Fresh(i) /\ CreateAs(c, i)
    BY <1>4 DEF Create
  <2>2. /\ node' = [node EXCEPT ![i] = RegFile(<<>>, FALSE, NewMode)] /\ node[i].kind = "free"
        /\ dir' = [dir EXCEPT ![c] = i] /\ pc[c] = "create" /\ UNCHANGED <<fd, text>>
        /\ pc' = [pc EXCEPT ![c] = "fill"]
    BY <2>1 DEF CreateAs, Fresh, Goto, locals
  <2>3. CASE d # c
    BY <1>3, <2>2, <2>3, <1>s, Shapes
  <2>4. CASE d = c
    <3>1. node'[dir'[d]] = RegFile(<<>>, FALSE, NewMode) /\ pc'[d] = "fill"
      BY <2>2, <2>4, <1>s, Shapes
    <3>2. Opened(d)'
      BY <2>2, <1>k, <1>i, <1>s, Shapes DEF Opened
    <3> QED
      BY <3>1, <3>2 DEF Filling, Filled, RegFile
  <2> QED
    BY <2>3, <2>4
<1>5. ASSUME NEW c \in Calls, Fill(c) PROVE (Filling(d) /\ Filled(d) /\ Opened(d))'
  <2> DEFINE f == RegFile(text[c], TRUE, InstallMode(st[c]))
  <2>1. /\ pc[c] = "fill" /\ pc' = [pc EXCEPT ![c] = "rename"] /\ UNCHANGED <<dir, fd, text>>
        /\ node' = [node EXCEPT ![dir[c]] = f]
    BY <1>5 DEF Fill, FillAs, Goto, locals
  <2>2. dir[c] \in Inodes /\ (\A e \in Entries \ {c} : dir[e] # dir[c]) /\ ~node[dir[c]].whole
    BY <2>1, Private DEF Linked, FillInv
  <2>3. f.kind = "reg" /\ f.text = text[c]
    BY DEF RegFile
  <2>4. Opened(d)'
    BY <2>1, <2>2, <1>k, <1>i, <1>s, Shapes DEF Opened
  <2> HIDE DEF f
  <2>5. CASE d = c
    BY <2>1, <2>2, <2>3, <2>4, <2>5, <1>s, Shapes DEF Filling, Filled
  <2>6. CASE d # c
    BY <2>1, <2>2, <2>4, <2>6, <1>i, <1>p, <1>s, Shapes DEF Filling, Filled
  <2> QED
    BY <2>5, <2>6
<1>6. ASSUME NEW c \in Calls, Rename(c) \/ Cleanup(c)
      PROVE  (Filling(d) /\ Filled(d) /\ Opened(d))'
  <2>1. /\ UNCHANGED <<node, fd, text>> /\ pc[c] \in {"rename", "cleanup"}
        /\ \E k \in {"cleanup", "ok", "error"} : pc' = [pc EXCEPT ![c] = k]
    BY <1>6 DEF Rename, Cleanup, Goto, locals
  <2>2. at[c] \in Names
    BY <2>1 DEF IInv, TypeOK, Busy, Linked
  <2>3. d # c => dir'[d] = dir[d]
    BY <1>6, <2>2, <1>s, Shapes DEF Rename, Cleanup
  <2>4. CASE d = c
    BY <2>1, <2>4, <1>i, <1>s, Shapes DEF Filling, Filled, Opened
  <2>5. CASE d # c
    BY <2>1, <2>3, <2>5, <1>i, <1>s, Shapes DEF Filling, Filled, Opened
  <2> QED
    BY <2>4, <2>5
<1>7. ASSUME NEW n \in Names, EnvPut(n) PROVE (Filling(d) /\ Filled(d) /\ Opened(d))'
  <2>1. PICK i \in Inodes, f \in Foreign :
          /\ node[i].kind = "free" /\ UNCHANGED <<pc, fd, text>>
          /\ node' = [node EXCEPT ![i] = f] /\ dir' = [dir EXCEPT ![n] = i]
    BY <1>7 DEF EnvPut, Fresh, locals
  <2> QED
    BY <1>3, <2>1, <1>s, Shapes
<1>8. ASSUME NEW n \in Names, NEW m \in Names, EnvUnlink(n) \/ EnvHardLink(m, n)
      PROVE  (Filling(d) /\ Filled(d) /\ Opened(d))'
  <2>1. UNCHANGED <<node, pc, fd, text>> /\ dir'[d] = dir[d]
    BY <1>8, <1>s, Shapes DEF EnvUnlink, EnvHardLink, locals
  <2> QED
    BY <2>1, <1>i DEF Filling, Filled, Opened
<1>9. ASSUME NEW n \in Names, EnvInPlace(n) PROVE (Filling(d) /\ Filled(d) /\ Opened(d))'
  <2>1. PICK f \in Foreign :
          /\ dir[n] # None /\ f.kind = "reg" /\ UNCHANGED <<dir, pc, fd, text>>
          /\ node' = [node EXCEPT ![dir[n]] = f]
    BY <1>9 DEF EnvInPlace, locals
  <2>2. f.whole /\ dir[n] \in Inodes
    BY <2>1, ConstantsOK, <1>s, Shapes DEF Finished
  <2>3. pc[d] \in {"fill", "rename"} => dir[n] # dir[d]
    BY <1>p, <1>s, Shapes
  <2> QED
    BY <2>1, <2>2, <2>3, <1>i, <1>k, <1>p, <1>s, Shapes DEF Filling, Filled, Opened
<1>10. ASSUME Crash PROVE (Filling(d) /\ Filled(d) /\ Opened(d))'
  <2>1. UNCHANGED <<dir, node, fd, text>> /\ (pc'[d] = pc[d] \/ pc'[d] = "crashed")
    BY <1>10 DEF Crash, files, locals
  <2> QED
    BY <2>1, <1>i DEF Filling, Filled, Opened
<1>11. ASSUME UNCHANGED vars PROVE (Filling(d) /\ Filled(d) /\ Opened(d))'
  BY <1>11, <1>i DEF vars, files, locals, Filling, Filled, Opened
<1> QED
  BY <1>1, <1>2, <1>4, <1>5, <1>6, <1>7, <1>8, <1>9, <1>10, <1>11 DEF Next, Step, Env

\* Every step keeps HandInv, if no file is rewritten where it stands.
LEMMA StepHand ==
  ASSUME IInv, HandInv, FillInv, [Next]_vars, "inplace" \notin EnvOps
  PROVE  HandInv'
<1> DEFINE Hand(d) ==
      /\ pc[d] \in {"idle"} \cup (Unlinked \ {"slurp", "create"}) => fd[d] = None
      /\ pc[d] \in {"open", "slurp"} => req[d].op # "write"
      /\ pc[d] \in Reached => req[d].op # "dry"
      /\ pc[d] \in Busy /\ req[d].op = "write" => text[d] = req[d].text
      /\ pc[d] \in Reached /\ req[d].op = "edit" =>
           fd[d] # None /\ text[d] = Replace(node[fd[d]].text, req[d].old, req[d].new)
<1>0. SUFFICES ASSUME NEW d \in Calls PROVE Hand(d)'
  BY DEF HandInv
<1>i. Hand(d)
  BY DEF HandInv
<1>s. TypeOK
  BY DEF IInv
<1> USE DEF Reached, Busy, Unlinked, Linked
<1>n. Next /\ fd[d] # None => node'[fd[d]] = node[fd[d]]
  BY ReadFilesStay
<1>1. ASSUME UNCHANGED <<req, fd, text>>, Next,
             pc'[d] \in Unlinked => pc[d] \in Unlinked,
             pc'[d] \in {"walk", "readlink", "opendir", "stat", "open"} => pc[d] # "slurp" /\ pc[d] # "create",
             pc'[d] = "idle" => pc[d] = "idle",
             pc'[d] \in {"open", "slurp"} => pc[d] \in {"open", "slurp"},
             pc'[d] \in Reached => pc[d] \in Reached
      PROVE  Hand(d)'
  BY <1>1, <1>i, <1>n
<1>2. ASSUME NEW c \in Calls, Begin(c) PROVE Hand(d)'
  <2>1. UNCHANGED <<node, fd>> /\ pc[c] = "idle"
    BY <1>2 DEF Begin, files
  <2>2. CASE d = c
    BY <1>2, <2>1, <2>2, <1>i, <1>s, Shapes DEF Begin, Goto
  <2>3. CASE d # c
    BY <1>2, <2>1, <2>3, <1>i, <1>s, Shapes DEF Begin, Goto
  <2> QED
    BY <2>2, <2>3
<1>3. ASSUME NEW c \in Calls, Walk(c) \/ Follow(c) \/ OpenDir(c) \/ Fault(c) \/ Cleanup(c) \/ Rename(c)
      PROVE  Hand(d)'
  <2>1. UNCHANGED <<req, fd, text>>
    BY <1>3 DEF Walk, Follow, OpenDir, Fault, Cleanup, Rename, locals
  <2>2. /\ pc'[d] \in Unlinked => pc[d] \in Unlinked
        /\ pc'[d] \in {"walk", "readlink", "opendir", "stat", "open"} => pc[d] # "slurp" /\ pc[d] # "create"
        /\ pc'[d] = "idle" => pc[d] = "idle"
        /\ pc'[d] \in {"open", "slurp"} => pc[d] \in {"open", "slurp"}
        /\ pc'[d] \in Reached => pc[d] \in Reached
    BY <1>3, <1>s, Shapes DEF Walk, Follow, OpenDir, Fault, FailsTo, Cleanup, Rename, Goto
  <2>3. Next
    BY <1>3 DEF Next, Step
  <2> QED
    BY <2>1, <2>2, <2>3, <1>1
<1>4. ASSUME NEW c \in Calls, Stat(c) PROVE Hand(d)'
  <2>1. /\ UNCHANGED <<node, req, fd, text>> /\ pc[c] = "stat"
        /\ \E k \in {"error", "create", "open"} :
             /\ pc' = [pc EXCEPT ![c] = k]
             /\ k = "create" => req[c].op = "write"
             /\ k = "open" => req[c].op # "write"
    BY <1>4 DEF Stat, Goto, files
  <2> QED
    BY <2>1, <1>i, <1>s, Shapes
<1>5. ASSUME NEW c \in Calls, OpenForRead(c) PROVE Hand(d)'
  <2>1. /\ UNCHANGED <<node, req, text>> /\ pc[c] = "open"
        /\ \E k \in {"error", "slurp"} : pc' = [pc EXCEPT ![c] = k]
        /\ \A e \in Calls \ {c} : fd'[e] = fd[e]
    BY <1>5, <1>s, Shapes DEF OpenForRead, Goto, files
  <2>2. CASE d = c
    BY <2>1, <2>2, <1>i, <1>s, Shapes
  <2>3. CASE d # c
    BY <2>1, <2>3, <1>i, <1>s, Shapes
  <2> QED
    BY <2>2, <2>3
<1>6. ASSUME NEW c \in Calls, Slurp(c) PROVE Hand(d)'
  <2>1. /\ UNCHANGED <<node, req, fd>> /\ pc[c] = "slurp"
        /\ \A e \in Calls \ {c} : text'[e] = text[e] /\ pc'[e] = pc[e]
        /\ \/ pc'[c] \in {"error", "ok"}
           \/ /\ pc'[c] = "create" /\ req[c].op # "dry"
              /\ text'[c] = Replace(node[fd[c]].text, req[c].old, req[c].new)
    BY <1>6, <1>s, Shapes DEF Slurp, Goto, files
  <2>2. fd[c] # None /\ req[c].op # "write"
    BY <2>1 DEF IInv, TypeOK, HandInv
  <2>3. CASE d = c
    BY <2>1, <2>2, <2>3, <1>i, <1>s, Shapes
  <2>4. CASE d # c
    BY <2>1, <2>4, <1>i, <1>s, Shapes
  <2> QED
    BY <2>3, <2>4
<1>7. ASSUME NEW c \in Calls, Create(c) \/ Fill(c) PROVE Hand(d)'
  <2>1. /\ UNCHANGED <<req, fd, text>> /\ pc[c] \in {"create", "fill"}
        /\ \E k \in {"fill", "rename"} : pc' = [pc EXCEPT ![c] = k]
    BY <1>7 DEF Create, CreateAs, Fill, FillAs, Goto, locals
  <2>2. Next
    BY <1>7 DEF Next, Step
  <2> QED
    BY <2>1, <2>2, <1>1, <1>s, Shapes
<1>8. ASSUME NEW n \in Names, NEW m \in Names,
             EnvPut(n) \/ EnvUnlink(n) \/ EnvInPlace(n) \/ EnvHardLink(n, m)
      PROVE  Hand(d)'
  <2>1. Next /\ UNCHANGED <<req, fd, text, pc>>
    BY <1>8 DEF Next, Env, EnvPut, EnvUnlink, EnvInPlace, EnvHardLink, locals
  <2> QED
    BY <2>1, <1>1
<1>9. ASSUME Crash PROVE Hand(d)'
  <2>1. Next /\ UNCHANGED <<req, fd, text>> /\ (pc'[d] = pc[d] \/ pc'[d] = "crashed")
    BY <1>9 DEF Next, Env, Crash, locals
  <2> QED
    BY <2>1, <1>1
<1>10. ASSUME UNCHANGED vars PROVE Hand(d)'
  BY <1>10, <1>i DEF vars, files, locals
<1> QED
  BY <1>2, <1>3, <1>4, <1>5, <1>6, <1>7, <1>8, <1>9, <1>10 DEF Next, Step, Env

-----------------------------------------------------------------------------
(* The mapping, step by step. *)

Shown == [n \in Names |-> IF dir[n] = None THEN None ELSE View(node[dir[n]])]
Stage == [c \in Calls |-> Phase(pc[c])]
Seen == [c \in Calls |-> IF fd[c] = None THEN None ELSE node[fd[c]].text]

\* A view of a file is never taken for its absence, nor a text for none.
LEMMA ViewsAreNotNone ==
  ASSUME NEW f \in Node
  PROVE  /\ View(f) # None
         /\ f.kind = "reg" => f.text # None /\ View(f) = [kind |-> "reg", text |-> f.text]
<1>1. CASE f.kind = "reg"
  <2>1. f.text \in Seq(Toks)
    BY <1>1, NodeShape
  <2> QED
    BY <1>1, <2>1, ConstantsOK DEF View
<1>2. CASE f.kind # "reg"
  BY <1>2, ConstantsOK DEF View
<1> QED
  BY <1>1, <1>2

\* The directory and what edits have read look the same after every step of a
\* call but its rename and an edit's opening of its file.
LEMMA NothingShown ==
  ASSUME RInv, Next, "inplace" \notin EnvOps, UNCHANGED fd,
         \A n \in Names : dir'[n] = dir[n] /\ (dir[n] # None => node'[dir[n]] = node[dir[n]])
  PROVE  UNCHANGED <<Shown, Seen>>
<1>1. UNCHANGED Shown
  BY DEF Shown
<1>2. \A c \in Calls : fd[c] # None => node'[fd[c]] = node[fd[c]]
  BY ReadFilesStay DEF RInv
<1> QED
  BY <1>1, <1>2 DEF Seen

\* One call moves from one place to another.
LEMMA StageMoves ==
  ASSUME TypeOK, NEW c \in Calls, NEW l, pc' = [pc EXCEPT ![c] = l]
  PROVE  Stage' = [Stage EXCEPT ![c] = Phase(l)]
BY Shapes DEF Stage

\* What the places are called by AtomicFiles.
LEMMA Phases ==
  /\ \A l \in Busy : Phase(l) = "running"
  /\ Phase("idle") = "waiting" /\ Phase("ok") = "ok" /\ Phase("error") = "error"
  /\ Phase("crashed") = "crashed"
BY DEF Phase, Busy, Unlinked, Linked

\* A call that moves between places where it runs, and shows nothing, stutters.
LEMMA Stutters ==
  ASSUME TypeOK, NEW c \in Calls, NEW l \in Busy, pc[c] \in Busy, pc' = [pc EXCEPT ![c] = l],
         UNCHANGED <<Shown, Seen, req, env>>
  PROVE  UNCHANGED Abstract!vars
<1>1. UNCHANGED Stage
  BY Phases, StageMoves, Shapes DEF Stage
<1> QED
  BY <1>1 DEF Abstract!vars, Shown, Stage, Seen

\* A call that stops with an error, and shows nothing, fails.
LEMMA Fails ==
  ASSUME TypeOK, NEW c \in Calls, pc[c] \in Busy, pc' = [pc EXCEPT ![c] = "error"],
         UNCHANGED <<Shown, Seen, req, env>>
  PROVE  Abstract!Fail(c)
<1>1. Stage[c] = "running"
  BY Phases DEF Stage
<1>2. Stage' = [Stage EXCEPT ![c] = Phase("error")]
  BY StageMoves
<1>3. Stage' = [Stage EXCEPT ![c] = "error"]
  BY <1>2, Phases, Zenon
<1> QED
  BY <1>1, <1>3 DEF Abstract!Fail, Shown, Stage, Seen

\* What may be seen under a name at the start.
LEMMA InitMaps == Init => Abstract!Init
<1> SUFFICES ASSUME Init PROVE Abstract!Init
  OBVIOUS
<1> DEFINE Things == {View(f) : f \in Foreign} \cup
      UNION {{View(l.node[l.dir[n]]) : n \in {m \in Names : l.dir[m] # None}} : l \in Layouts}
<1>1. Shown \in [Names -> Things \cup {None}]
  <2> SUFFICES ASSUME NEW n \in Names, dir[n] # None PROVE View(node[dir[n]]) \in Things
    BY DEF Shown
  <2>1. PICK l \in Layouts : dir[n] = l.dir[n] /\ node = l.node
    BY DEF Init, Entries
  <2> QED
    BY <2>1
<1>2. Stage = [c \in Calls |-> "waiting"] /\ Seen = [c \in Calls |-> None]
  BY Phases DEF Init, Stage, Seen
<1> QED
  BY <1>1, <1>2 DEF Init, Abstract!Init, Shown, Stage, Seen

\* Every step of a call, of another process or of the server's end is a step of
\* AtomicFiles or changes nothing that AtomicFiles has.
LEMMA StepMaps ==
  ASSUME RInv, [Next]_vars, "inplace" \notin EnvOps
  PROVE  [Abstract!Next]_(Abstract!vars)
<1>s. TypeOK /\ IInv
  BY DEF RInv, IInv
<1>b. /\ \A l \in Unlinked \cup Linked : l \in Busy
      /\ \A c \in Calls : pc[c] \in Busy => at[c] \in Names /\ req[c] # None
  BY <1>s DEF Busy, TypeOK
<1>1. ASSUME NEW c \in Calls, Begin(c) PROVE Abstract!Start(c)
  <2>1. PICK r \in Requests, k \in {"error", "walk"} :
          req' = [req EXCEPT ![c] = r] /\ pc' = [pc EXCEPT ![c] = k]
    BY <1>1 DEF Begin, Goto
  <2>2. pc[c] = "idle" /\ UNCHANGED <<dir, node, fd, env>>
    BY <1>1 DEF Begin, files
  <2>3. Stage[c] = "waiting" /\ \E q \in {"running", "error"} : Stage' = [Stage EXCEPT ![c] = q]
    <3>1. Stage[c] = "waiting"
      BY <2>2, Phases DEF Stage
    <3>2. Phase(k) \in {"running", "error"} /\ Stage' = [Stage EXCEPT ![c] = Phase(k)]
      BY <2>1, <1>s, Phases, StageMoves DEF Busy, Unlinked
    <3> QED
      BY <3>1, <3>2
  <2>4. UNCHANGED <<Shown, Seen>>
    BY <2>2 DEF Shown, Seen
  <2> QED
    BY <2>1, <2>2, <2>3, <2>4 DEF Abstract!Start, Shown, Stage, Seen
<1>2. ASSUME NEW c \in Calls, Walk(c) \/ Follow(c) \/ OpenDir(c) \/ Stat(c) \/ Fault(c)
      PROVE  Abstract!Fail(c) \/ UNCHANGED Abstract!vars
  <2>1. UNCHANGED <<dir, node, fd, req, env>> /\ pc[c] \in Busy
    BY <1>2, <1>b DEF Walk, Follow, OpenDir, Stat, Fault, FailsTo, files, locals, Unlinked, Linked
  <2>2. UNCHANGED <<Shown, Seen>>
    BY <2>1 DEF Shown, Seen
  <2>3. \E l \in Busy \cup {"error"} : pc' = [pc EXCEPT ![c] = l]
    BY <1>2, <1>b DEF Walk, Follow, OpenDir, Stat, Fault, FailsTo, Goto, Unlinked, Linked
  <2> QED
    BY <2>1, <2>2, <2>3, <1>s, Stutters, Fails
<1>3. ASSUME NEW c \in Calls, OpenForRead(c)
      PROVE  Abstract!Look(c) \/ Abstract!Fail(c)
  <2>1. /\ UNCHANGED <<dir, node, req, env>> /\ pc[c] = "open" /\ pc[c] \in Busy
        /\ at[c] \in Names /\ fd[c] = None /\ req[c].op # "write"
    BY <1>3, <1>b DEF OpenForRead, RInv, HandInv, files, Unlinked
  <2>2. UNCHANGED Shown
    BY <2>1 DEF Shown
  <2>3. CASE UNCHANGED fd /\ pc' = [pc EXCEPT ![c] = "error"]
    BY <2>1, <2>2, <2>3, <1>s, Fails DEF Seen
  <2>4. CASE /\ dir[at[c]] # None /\ node[dir[at[c]]].kind = "reg"
             /\ fd' = [fd EXCEPT ![c] = dir[at[c]]] /\ pc' = [pc EXCEPT ![c] = "slurp"]
    <3> DEFINE i == dir[at[c]]
    <3>1. i \in Inodes /\ node[i] \in Node /\ View(node[i]) # None
          /\ View(node[i]) = [kind |-> "reg", text |-> node[i].text]
      BY <2>1, <2>4, <1>s, Shapes, ViewsAreNotNone
    <3>2. Shown[at[c]] # None /\ Shown[at[c]].kind = "reg" /\ Shown[at[c]].text = node[i].text
      BY <2>1, <2>4, <3>1 DEF Shown
    <3>3. Seen[c] = None /\ Seen' = [Seen EXCEPT ![c] = node[i].text]
      BY <2>1, <2>4, <1>s, Shapes DEF Seen
    <3>4. Stage[c] = "running" /\ UNCHANGED Stage
      BY <2>1, <2>4, <1>s, <1>b, Phases, Shapes DEF Stage, Unlinked
    <3> HIDE DEF i
    <3>5. Abstract!Look(c)
      BY <2>1, <2>2, <3>2, <3>3, <3>4 DEF Abstract!Look, Shown, Stage, Seen
    <3> QED
      BY <3>5
  <2> QED
    BY <1>3, <2>3, <2>4 DEF OpenForRead, Goto
<1>4. ASSUME NEW c \in Calls, Slurp(c)
      PROVE  Abstract!Preview(c) \/ Abstract!Fail(c) \/ UNCHANGED Abstract!vars
  <2>1. /\ UNCHANGED <<dir, node, fd, req, env>> /\ pc[c] = "slurp" /\ pc[c] \in Busy
        /\ fd[c] \in Inodes /\ fd[c] # None /\ node[fd[c]] \in Node /\ node[fd[c]].kind = "reg"
    BY <1>4, <1>b, <1>s, Shapes DEF Slurp, TypeOK, files, Unlinked
  <2>2. UNCHANGED <<Shown, Seen>>
    BY <2>1 DEF Shown, Seen
  <2>3. \/ pc' = [pc EXCEPT ![c] = "error"]
        \/ pc' = [pc EXCEPT ![c] = "ok"] /\ req[c].op = "dry"
        \/ pc' = [pc EXCEPT ![c] = "create"]
    BY <1>4 DEF Slurp, Goto
  <2>4. CASE pc' = [pc EXCEPT ![c] = "ok"] /\ req[c].op = "dry"
    <3>1. Stage[c] = "running" /\ Stage' = [Stage EXCEPT ![c] = "ok"]
      <4>1. Stage[c] = "running"
        BY <2>1, Phases DEF Stage
      <4>2. Stage' = [Stage EXCEPT ![c] = Phase("ok")]
        BY <2>4, <1>s, StageMoves
      <4> QED
        BY <4>1, <4>2, Phases
    <3>2. Seen[c] # None
      BY <2>1, ViewsAreNotNone DEF Seen
    <3> QED
      BY <2>1, <2>2, <2>4, <3>1, <3>2 DEF Abstract!Preview, Shown, Stage, Seen
  <2> QED
    BY <2>1, <2>2, <2>3, <2>4, <1>s, <1>b, Stutters, Fails DEF Unlinked
<1>5. ASSUME NEW c \in Calls, Create(c) \/ Fill(c) PROVE UNCHANGED Abstract!vars
  <2>1. /\ UNCHANGED <<fd, req, env>> /\ pc[c] \in Busy
        /\ \E l \in Busy : pc' = [pc EXCEPT ![c] = l]
    BY <1>5, <1>b DEF Create, CreateAs, Fill, FillAs, Goto, locals, Unlinked, Linked
  <2>2. Next
    BY <1>5 DEF Next, Step
  <2>3. \A n \in Names : dir'[n] = dir[n] /\ (dir[n] # None => node'[dir[n]] = node[dir[n]])
    <3>1. CASE Create(c)
      <4>1. PICK i \in Inodes : Fresh(i) /\ CreateAs(c, i)
        BY <3>1 DEF Create
      <4> QED
        BY <4>1, <1>s, Shapes DEF CreateAs, Fresh, IInv, TempsPrivate
    <3>2. CASE Fill(c)
      BY <3>2, <1>s, Shapes, Private DEF Fill, FillAs, Linked
    <3> QED
      BY <1>5, <3>1, <3>2
  <2> QED
    BY <2>1, <2>2, <2>3, <1>s, NothingShown, Stutters
<1>6. ASSUME NEW c \in Calls, Rename(c) PROVE Abstract!Install(c) \/ UNCHANGED Abstract!vars
  <2>1. /\ UNCHANGED <<node, fd, req, env>> /\ pc[c] = "rename" /\ pc[c] \in Busy
        /\ at[c] \in Names /\ req[c] # None
    BY <1>6, <1>b DEF Rename, locals, Linked
  <2>2. UNCHANGED Seen
    BY <2>1 DEF Seen
  <2>3. CASE UNCHANGED dir /\ pc' = [pc EXCEPT ![c] = "cleanup"]
    BY <2>1, <2>2, <2>3, <1>s, <1>b, Stutters DEF Shown, Linked
  <2>4. CASE /\ dir' = [dir EXCEPT ![at[c]] = dir[c], ![c] = None]
             /\ pc' = [pc EXCEPT ![c] = "ok"]
    <3>1. /\ dir[c] \in Inodes /\ node[dir[c]] \in Node
          /\ node[dir[c]].kind = "reg" /\ node[dir[c]].text = text[c]
      BY <2>1, <1>s, Private, Shapes DEF RInv, FillInv, Linked
    <3>2. View(node[dir[c]]) = Abstract!File(text[c]) /\ dir[c] # None
      BY <3>1, ViewsAreNotNone, <1>s, Shapes DEF Abstract!File
    <3>3. \A n \in Names : dir'[n] = IF n = at[c] THEN dir[c] ELSE dir[n]
      BY <2>1, <2>4, <1>s, Shapes
    <3>4. Shown' = [Shown EXCEPT ![at[c]] = Abstract!File(text[c])]
      BY <2>1, <3>2, <3>3 DEF Shown
    <3>5. Stage[c] = "running" /\ Stage' = [Stage EXCEPT ![c] = "ok"]
      <4>1. Stage[c] = "running"
        BY <2>1, Phases DEF Stage
      <4>2. Stage' = [Stage EXCEPT ![c] = Phase("ok")]
        BY <2>4, <1>s, StageMoves
      <4> QED
        BY <4>1, <4>2, Phases
    <3>6. /\ req[c].op # "dry" /\ req[c].op \in {"write", "edit", "dry"}
          /\ req[c].op = "write" => text[c] = req[c].text
          /\ req[c].op = "edit" =>
               fd[c] # None /\ text[c] = Replace(node[fd[c]].text, req[c].old, req[c].new)
      BY <2>1, <1>s, Shapes DEF RInv, HandInv, Reached, Linked, Request
    <3>7. req[c].op = "edit" => Seen[c] # None /\ Seen[c] = node[fd[c]].text
      <4>1. ASSUME req[c].op = "edit"
            PROVE  fd[c] # None /\ node[fd[c]] \in Node /\ node[fd[c]].kind = "reg"
        BY <4>1, <3>6, <1>s, Shapes DEF TypeOK
      <4> QED
        BY <4>1, ViewsAreNotNone DEF Seen
    <3>8. text[c] = Abstract!Outcome(c)
      <4>1. CASE req[c].op = "write"
        BY <4>1, <3>6 DEF Abstract!Outcome
      <4>2. CASE req[c].op = "edit"
        BY <4>2, <3>6, <3>7 DEF Abstract!Outcome, Replace, Seen
      <4> QED
        BY <4>1, <4>2, <3>6
    <3>9. Abstract!Install(c)
      BY <2>1, <2>2, <3>4, <3>5, <3>6, <3>7, <3>8 DEF Abstract!Install, Shown, Stage, Seen
    <3> QED
      BY <3>9
  <2> QED
    BY <1>6, <2>3, <2>4 DEF Rename, Goto
<1>7. ASSUME NEW c \in Calls, Cleanup(c) PROVE Abstract!Fail(c)
  <2>1. /\ UNCHANGED <<node, fd, req, env>> /\ pc[c] \in Busy /\ pc' = [pc EXCEPT ![c] = "error"]
        /\ \A n \in Names : dir'[n] = dir[n]
    BY <1>7, <1>b, <1>s, Shapes DEF Cleanup, Goto, locals, Linked
  <2>2. UNCHANGED <<Shown, Seen>>
    BY <2>1 DEF Shown, Seen
  <2> QED
    BY <2>1, <2>2, <1>s, Fails
<1>8. ASSUME NEW n \in Names, EnvPut(n) PROVE Abstract!Elsewhere
  <2>1. PICK i \in Inodes, f \in Foreign :
          /\ node[i].kind = "free" /\ UNCHANGED <<pc, req, fd>> /\ env > 0 /\ env' = env - 1
          /\ node' = [node EXCEPT ![i] = f] /\ dir' = [dir EXCEPT ![n] = i]
    BY <1>8 DEF EnvPut, Fresh, Happens, locals
  <2>2. \A e \in Entries : dir[e] # i
    BY <2>1, <1>s, Shapes DEF IInv, TempsPrivate
  <2>3. \A m \in Names : /\ dir'[m] = IF m = n THEN i ELSE dir[m]
                         /\ dir[m] # None => node'[dir[m]] = node[dir[m]]
    BY <2>1, <2>2, <1>s, Shapes
  <2>4. Shown' = [Shown EXCEPT ![n] = View(f)]
    BY <2>1, <2>3, <1>s, Shapes DEF Shown
  <2>5. UNCHANGED <<Seen, Stage>>
    <3>1. Next
      BY <1>8 DEF Next, Env
    <3>2. \A c \in Calls : fd[c] # None => node'[fd[c]] = node[fd[c]]
      BY <3>1, ReadFilesStay DEF RInv
    <3> QED
      BY <2>1, <3>2 DEF Seen, Stage
  <2> QED
    BY <2>1, <2>4, <2>5 DEF Abstract!Elsewhere, Abstract!Event, Shown, Stage, Seen
<1>9. ASSUME NEW n \in Names, NEW m \in Names, EnvUnlink(m) \/ EnvHardLink(n, m)
      PROVE  Abstract!Elsewhere
  <2>1. PICK j \in {None, dir[n]} :
          /\ dir' = [dir EXCEPT ![m] = j]
          /\ UNCHANGED <<node, pc, req, fd>> /\ env > 0 /\ env' = env - 1
    BY <1>9 DEF EnvUnlink, EnvHardLink, Happens, locals
  <2>2. Shown' = [Shown EXCEPT ![m] = IF j = None THEN None ELSE Shown[n]]
    BY <2>1, <1>s, Shapes DEF Shown
  <2>3. UNCHANGED <<Seen, Stage>>
    BY <2>1 DEF Seen, Stage
  <2>4. \E k \in Names, f \in {None} \cup {Shown[i] : i \in Names} :
          Shown' = [Shown EXCEPT ![k] = f]
    BY <2>2
  <2> QED
    BY <2>1, <2>3, <2>4 DEF Abstract!Elsewhere, Abstract!Event, Shown, Stage, Seen
<1>10. \A n \in Names : ~EnvInPlace(n)
  BY DEF EnvInPlace, Happens
<1>11. ASSUME Crash PROVE Abstract!Crash
  <2>1. UNCHANGED <<dir, node, req, fd>> /\ env > 0 /\ env' = env - 1
    BY <1>11 DEF Crash, Happens, files, locals
  <2>2. Stage' = [c \in Calls |-> IF Stage[c] = "running" THEN "crashed" ELSE Stage[c]]
    BY <1>11, <1>s, Phases, Shapes DEF Crash, Stage, Idle, Returned
  <2>3. UNCHANGED <<Shown, Seen>>
    BY <2>1 DEF Shown, Seen
  <2> QED
    BY <2>1, <2>2, <2>3 DEF Abstract!Crash, Abstract!Event, Shown, Stage, Seen
<1>12. ASSUME UNCHANGED vars PROVE UNCHANGED Abstract!vars
  BY <1>12 DEF vars, files, locals, Abstract!vars
<1> QED
  BY <1>1, <1>2, <1>3, <1>4, <1>5, <1>6, <1>7, <1>8, <1>9, <1>10, <1>11, <1>12
     DEF Next, Step, Env, Abstract!Next

\* RInv holds from the start.
LEMMA InitRefines == Init => RInv
<1> SUFFICES ASSUME Init PROVE RInv
  OBVIOUS
<1>1. IInv
  BY InitInv
<1>2. \A c \in Calls : pc[c] = "idle" /\ fd[c] = None
  BY DEF Init
<1> QED
  BY <1>1, <1>2 DEF RInv, HandInv, FillInv, Reached, Busy, Unlinked, Linked

\* The detailed specification, with its system calls, links, temporary files and
\* inodes, implements the abstract one: a call is one atomic change of one name if
\* it succeeds and none if it does not, whatever calls overlap, whatever fails and
\* wherever the server dies, unless another process rewrites a file in place.
THEOREM WritesAreAtomic ==
  ASSUME "inplace" \notin EnvOps
  PROVE  Spec => ImplementsAtomicFiles
<1>1. Init => RInv
  BY InitRefines
<1>2. RInv /\ [Next]_vars => RInv'
  BY StepInv, StepFill, StepHand DEF RInv
<1>3. RInv /\ [Next]_vars => [Abstract!Next]_(Abstract!vars)
  BY StepMaps
<1> QED
  BY <1>1, <1>2, <1>3, InitMaps, PTL DEF Spec, ImplementsAtomicFiles, Abstract!Spec

-----------------------------------------------------------------------------
(* What holds of FileWrites as long as no other process interferes, for every *)
(* value of its constants: hard links, links that are followed, permissions.  *)

\* A call that has looked at its name, and will act on what it saw.
Looked == {"open", "slurp", "create"} \cup Linked
Landed == Looked \cup {"opendir", "stat"}

\* What a call has checked of its name still holds when it renames.
SoleInv == \A c \in Calls : pc[c] \in Looked => ~HardLinked(at[c])

\* How many links a call is through.
Through(c) == IF pc[c] = "readlink" THEN hops[c] - 1 ELSE hops[c]

\* It came along t, over links it may follow, to where it is.
CameAlong(c, t) ==
  /\ t[0] = req[c].path
  /\ \A k \in 0..MaxHops : k >= Through(c) => t[k] = at[c]
  /\ \A k \in 0..MaxHops : k < Through(c) =>
       IsLink(t[k]) /\ HopAllowed(t[k]) /\ t[k+1] = node[dir[t[k]]].to

LinkInv ==
  /\ \A c \in Calls : pc[c] \in Busy => \E t \in [0..MaxHops -> Names] : CameAlong(c, t)
  /\ \A c \in Calls : pc[c] = "readlink" => hops[c] > 0 /\ IsLink(at[c]) /\ HopAllowed(at[c])
  /\ \A c \in Calls : pc[c] \in Landed => ~IsLink(at[c])

\* A call that has not begun has followed nothing.
HopsInv == \A c \in Calls : pc[c] = "idle" => hops[c] = 0

\* What is under a name: an inode's contents, or nothing.
Under(n) == IF dir[n] = None THEN None ELSE node[dir[n]]

\* What a call saw when it looked is, as to permissions, what it will replace.
ModeInv ==
  /\ \A c \in Calls : pc[c] \in Looked => InstallMode(st[c]) = InstallMode(Under(at[c]))
  /\ \A c \in Calls : pc[c] = "rename" => node[dir[c]].mode = InstallMode(st[c])

-----------------------------------------------------------------------------
(* Only a rename, or another process, changes what is under a name. *)

\* The steps that leave all names alone.
Apart(c) ==
  \/ Begin(c) \/ Walk(c) \/ Follow(c) \/ OpenDir(c) \/ Stat(c) \/ OpenForRead(c) \/ Slurp(c)
  \/ Create(c) \/ Fill(c) \/ Cleanup(c) \/ Fault(c)

\* They leave every name with its inode, and that with its contents.
LEMMA NamesStay ==
  ASSUME IInv, NEW c \in Calls, Apart(c) \/ Crash \/ UNCHANGED vars
  PROVE  \A n \in Names : dir'[n] = dir[n] /\ (dir[n] # None => node'[dir[n]] = node[dir[n]])
<1>s. TypeOK
  BY DEF IInv
<1>1. CASE Create(c)
  <2>1. PICK i \in Inodes : Fresh(i) /\ CreateAs(c, i)
    BY <1>1 DEF Create
  <2> QED
    BY <2>1, <1>s, Shapes DEF CreateAs, Fresh, IInv, TempsPrivate
<1>2. CASE Fill(c)
  BY <1>2, <1>s, Shapes, Private DEF Fill, FillAs, Linked
<1>3. CASE Cleanup(c)
  BY <1>3, <1>s, Shapes DEF Cleanup
<1>4. CASE Begin(c) \/ Walk(c) \/ Follow(c) \/ OpenDir(c) \/ Stat(c) \/ OpenForRead(c) \/ Slurp(c) \/ Fault(c)
  BY <1>4 DEF Begin, Walk, Follow, OpenDir, Stat, OpenForRead, Slurp, Fault, files
<1>5. CASE Crash \/ UNCHANGED vars
  BY <1>5 DEF Crash, vars, files
<1> QED
  BY <1>1, <1>2, <1>3, <1>4, <1>5 DEF Apart

\* What is under a name whose inode stays and keeps its contents.
LEMMA SameUnder ==
  ASSUME NEW n \in Names, dir'[n] = dir[n], dir[n] # None => node'[dir[n]] = node[dir[n]]
  PROVE  /\ Under(n)' = Under(n)
         /\ IsLink(n)' = IsLink(n)
         /\ IsLink(n) => HopAllowed(n)' = HopAllowed(n) /\ node'[dir'[n]].to = node[dir[n]].to
BY DEF Under, IsLink, HopAllowed

\* A rename puts the call's own, complete file under its name and leaves the rest.
LEMMA RenameEffect ==
  ASSUME IInv, FillInv, NEW c \in Calls, Rename(c)
  PROVE  /\ pc[c] = "rename" /\ at[c] \in Names /\ UNCHANGED <<node, locals>>
         /\ dir[c] \in Inodes /\ node[dir[c]].kind = "reg" /\ \A e \in Entries \ {c} : dir[e] # dir[c]
         /\ \/ /\ \A n \in Names : dir'[n] = dir[n]
               /\ pc' = [pc EXCEPT ![c] = "cleanup"]
            \/ /\ \A n \in Names : dir'[n] = IF n = at[c] THEN dir[c] ELSE dir[n]
               /\ pc' = [pc EXCEPT ![c] = "ok"]
<1>s. TypeOK
  BY DEF IInv
<1>1. pc[c] = "rename" /\ UNCHANGED <<node, locals>>
  BY DEF Rename
<1>2. at[c] \in Names
  BY <1>1, <1>s DEF TypeOK, Busy, Linked
<1>3. dir[c] \in Inodes /\ node[dir[c]].kind = "reg" /\ \A e \in Entries \ {c} : dir[e] # dir[c]
  BY <1>1, Private DEF Linked, FillInv
<1>4. \/ (\A n \in Names : dir'[n] = dir[n]) /\ pc' = [pc EXCEPT ![c] = "cleanup"]
      \/ /\ \A n \in Names : dir'[n] = IF n = at[c] THEN dir[c] ELSE dir[n]
         /\ pc' = [pc EXCEPT ![c] = "ok"]
  BY <1>2, <1>s, Shapes DEF Rename, Goto
<1> QED
  BY <1>1, <1>2, <1>3, <1>4

\* How the steps of a call move it: it has looked only once it has been at Stat, and
\* the name it works on changes only on the way there.
LEMMA Moves ==
  ASSUME TypeOK, NEW c \in Calls, Apart(c), NEW d \in Calls, pc'[d] \in Looked
  PROVE  /\ at'[d] = at[d]
         /\ pc[d] \in Looked \/ (pc[d] = "stat" /\ Stat(d))
         /\ pc[d] \in Looked => st'[d] = st[d]
<1> USE DEF Looked, Linked
<1>1. CASE c # d
  <2>1. pc'[d] = pc[d] /\ at'[d] = at[d] /\ st'[d] = st[d]
    <3>1. CASE Begin(c) \/ Walk(c) \/ Follow(c) \/ OpenDir(c) \/ Stat(c)
      BY <1>1, <3>1, Shapes DEF TypeOK, Begin, Walk, Follow, OpenDir, Stat, Goto, locals
    <3>2. CASE OpenForRead(c) \/ Slurp(c) \/ Create(c) \/ Fill(c) \/ Cleanup(c) \/ Fault(c)
      BY <1>1, <3>2, Shapes DEF TypeOK, OpenForRead, Slurp, Create, CreateAs, Fill, FillAs, Cleanup,
         Fault, Goto, locals
    <3> QED
      BY <3>1, <3>2 DEF Apart
  <2> QED
    BY <2>1
<1>2. CASE c = d
  <2>1. CASE Stat(c)
    BY <1>2, <2>1, Shapes DEF TypeOK, Stat, Goto
  <2>2. CASE Begin(c) \/ Walk(c) \/ Follow(c) \/ OpenDir(c)
    BY <1>2, <2>2, Shapes DEF TypeOK, Begin, Walk, Follow, OpenDir, Goto
  <2>3. CASE OpenForRead(c) \/ Slurp(c) \/ Create(c) \/ Fill(c) \/ Cleanup(c) \/ Fault(c)
    BY <1>2, <2>3, Shapes DEF TypeOK, OpenForRead, Slurp, Create,
       CreateAs, Fill, FillAs, Cleanup, Fault, FailsTo, Unlinked, Goto, locals
  <2> QED
    BY <2>1, <2>2, <2>3 DEF Apart
<1> QED
  BY <1>1, <1>2

-----------------------------------------------------------------------------
(* Hard links. *)

\* A name that is alone with its file stays so when names and contents stay.
LEMMA StaysSole ==
  ASSUME NEW n \in Names, ~HardLinked(n),
         \A m \in Names : dir'[m] = dir[m] /\ (dir[m] # None => node'[dir[m]] = node[dir[m]])
  PROVE  ~HardLinked(n)'
BY DEF HardLinked

\* One name gets a file no other name has, or none.
LEMMA BecomesSole ==
  ASSUME NEW n \in Names, ~HardLinked(n), NEW m \in Names, NEW i,
         \A k \in Names : dir'[k] = IF k = m THEN i ELSE dir[k],
         \A k \in Names : i # None => dir[k] # i,
         \A k \in Names : dir[k] # None => node'[dir[k]] = node[dir[k]]
  PROVE  ~HardLinked(n)'
BY DEF HardLinked

\* Every step keeps SoleInv, if no other process makes hard links.
LEMMA StepSole ==
  ASSUME IInv, FillInv, SoleInv, [Next]_vars, "link" \notin EnvOps
  PROVE  SoleInv'
<1>s. TypeOK
  BY DEF IInv
<1>1. SUFFICES ASSUME NEW d \in Calls, pc'[d] \in Looked PROVE ~HardLinked(at[d])'
  BY DEF SoleInv
<1>a. pc[d] \in Looked => at[d] \in Names /\ ~HardLinked(at[d])
  BY <1>s DEF SoleInv, TypeOK, Looked, Busy, Unlinked, Linked
<1>2. ASSUME NEW c \in Calls, Apart(c) PROVE ~HardLinked(at[d])'
  <2>1. at'[d] = at[d] /\ (pc[d] \in Looked \/ (pc[d] = "stat" /\ Stat(d)))
    BY <1>1, <1>2, <1>s, Moves
  <2>2. at[d] \in Names /\ ~HardLinked(at[d])
    BY <2>1, <1>1, <1>s, <1>a, Shapes DEF Stat, StatRefuses, Goto, Looked, Linked, TypeOK, Busy, Unlinked
  <2> QED
    BY <2>1, <2>2, <1>2, NamesStay, StaysSole DEF HardLinked
<1>3. ASSUME NEW c \in Calls, Rename(c) PROVE ~HardLinked(at[d])'
  <2>1. UNCHANGED <<node, at>> /\ pc[d] \in Looked
    BY <1>1, <1>3, <1>s, Shapes, RenameEffect DEF locals, Looked, Linked
  <2>2. at[d] \in Names /\ ~HardLinked(at[d])
    BY <2>1, <1>a
  <2>3. CASE \A n \in Names : dir'[n] = dir[n]
    BY <2>1, <2>2, <2>3, StaysSole DEF HardLinked
  <2>4. CASE \A n \in Names : dir'[n] = IF n = at[c] THEN dir[c] ELSE dir[n]
    <3>1. at[c] \in Names /\ \A k \in Names : dir[k] # dir[c]
      BY <1>3, <1>s, Shapes, RenameEffect
    <3> QED
      BY <2>1, <2>2, <2>4, <3>1, BecomesSole DEF HardLinked
  <2> QED
    BY <1>3, <2>3, <2>4, RenameEffect
<1>4. ASSUME NEW n \in Names, EnvPut(n) PROVE ~HardLinked(at[d])'
  <2>1. PICK i \in Inodes, f \in Foreign :
          /\ node[i].kind = "free" /\ UNCHANGED <<pc, at>>
          /\ node' = [node EXCEPT ![i] = f] /\ dir' = [dir EXCEPT ![n] = i]
    BY <1>4 DEF EnvPut, Fresh, locals
  <2>2. \A e \in Entries : dir[e] # i
    BY <2>1, <1>s, Shapes DEF IInv, TempsPrivate
  <2>3. \A m \in Names : /\ dir'[m] = IF m = n THEN i ELSE dir[m]
                         /\ dir[m] # None => node'[dir[m]] = node[dir[m]]
    BY <2>1, <2>2, <1>s, Shapes
  <2> QED
    BY <1>1, <1>a, <2>1, <2>2, <2>3, <1>s, Shapes, BecomesSole DEF HardLinked
<1>5. ASSUME NEW n \in Names, EnvUnlink(n) PROVE ~HardLinked(at[d])'
  <2>1. UNCHANGED <<node, pc, at>> /\ \A m \in Names : dir'[m] = IF m = n THEN None ELSE dir[m]
    BY <1>5, <1>s, Shapes DEF EnvUnlink, locals
  <2> QED
    BY <1>1, <1>a, <2>1, BecomesSole DEF HardLinked
<1>6. ASSUME NEW n \in Names, EnvInPlace(n) PROVE ~HardLinked(at[d])'
  <2>1. UNCHANGED <<dir, pc, at>> /\ \A m \in Names : dir[m] # None =>
          node'[dir[m]].kind = node[dir[m]].kind
    BY <1>6, <1>s, Shapes DEF EnvInPlace, locals
  <2> QED
    BY <1>1, <1>a, <2>1 DEF HardLinked
<1>7. \A n, m \in Names : ~EnvHardLink(n, m)
  BY DEF EnvHardLink, Happens
<1>8. ASSUME Crash \/ UNCHANGED vars PROVE ~HardLinked(at[d])'
  <2>1. UNCHANGED <<dir, node, at>> /\ pc[d] \in Looked
    BY <1>1, <1>8 DEF Crash, files, locals, vars, Looked, Linked
  <2> QED
    BY <2>1, <1>a DEF HardLinked
<1> QED
  BY <1>2, <1>3, <1>4, <1>5, <1>6, <1>7, <1>8 DEF Next, Step, Env, Apart

\* A call that began with one name for a file never leaves another name behind with
\* the old contents, unless another process made that name after the call looked.
THEOREM HardLinksStayWhole ==
  ASSUME "link" \notin EnvOps
  PROVE  Spec => HardLinksIntact
<1> DEFINE I == IInv /\ FillInv /\ SoleInv
           A == \A c \in Calls : Installs(c) => ~HardLinked(at[c])
<1>1. Init => I
  BY InitRefines DEF RInv, Init, SoleInv, Looked, Linked
<1>2. I /\ [Next]_vars => I'
  BY StepInv, StepFill, StepSole
<1>3. I => A
  BY DEF SoleInv, Installs, Looked, Linked
<1>4. Spec => [][A]_vars
  BY <1>1, <1>2, <1>3, PTL DEF Spec
<1> QED
  BY <1>4 DEF HardLinksIntact

-----------------------------------------------------------------------------
(* Symbolic links. *)

\* With no other process at work, a link stays the link it is: a rename only ever
\* replaces a name that is none, by a file.
LEMMA LinksStay ==
  ASSUME IInv, FillInv, LinkInv, [Next]_vars, EnvOps \subseteq {"crash"}, NEW n \in Names
  PROVE  /\ IsLink(n)' = IsLink(n)
         /\ IsLink(n) => HopAllowed(n)' = HopAllowed(n) /\ node'[dir'[n]].to = node[dir[n]].to
<1>1. CASE \E c \in Calls : Apart(c)
  BY <1>1, NamesStay, SameUnder
<1>2. CASE Crash \/ UNCHANGED vars
  BY <1>2, SameUnder DEF Crash, vars, files
<1>3. ASSUME NEW c \in Calls, Rename(c)
      PROVE  /\ IsLink(n)' = IsLink(n)
             /\ IsLink(n) => HopAllowed(n)' = HopAllowed(n) /\ node'[dir'[n]].to = node[dir[n]].to
  <2>1. ~IsLink(at[c]) /\ at[c] \in Names
    BY <1>3, RenameEffect DEF LinkInv, Landed, Looked, Linked
  <2>2. CASE n # at[c] \/ dir'[n] = dir[n]
    BY <1>3, <2>2, RenameEffect, SameUnder
  <2>3. CASE n = at[c] /\ dir'[n] = dir[c]
    BY <1>3, <2>1, <2>3, RenameEffect DEF IsLink
  <2> QED
    BY <1>3, <2>2, <2>3, RenameEffect
<1>4. \A m, k \in Names : ~EnvPut(m) /\ ~EnvUnlink(m) /\ ~EnvInPlace(m) /\ ~EnvHardLink(m, k)
  BY DEF EnvPut, EnvUnlink, EnvInPlace, EnvHardLink, Happens
<1> QED
  BY <1>1, <1>2, <1>3, <1>4 DEF Next, Step, Env, Apart

\* So a call has still come along the way it came.
LEMMA WayStays ==
  ASSUME IInv, FillInv, LinkInv, [Next]_vars, EnvOps \subseteq {"crash"},
         NEW d \in Calls, NEW t \in [0..MaxHops -> Names], CameAlong(d, t),
         req'[d] = req[d], at'[d] = at[d], Through(d)' = Through(d)
  PROVE  CameAlong(d, t)'
<1>1. \A k \in 0..MaxHops : t[k] \in Names
  OBVIOUS
<1>2. \A k \in 0..MaxHops : k < Through(d) =>
        (IsLink(t[k]) /\ HopAllowed(t[k]) /\ t[k+1] = node[dir[t[k]]].to)'
  BY <1>1, LinksStay DEF CameAlong
<1> QED
  BY <1>2 DEF CameAlong

\* Every step keeps HopsInv: no step takes a call back to where it had not begun.
LEMMA StepHops ==
  ASSUME TypeOK, HopsInv, [Next]_vars
  PROVE  HopsInv'
<1>1. ASSUME NEW c \in Calls, Step(c) \/ Begin(c) \/ Fault(c) PROVE HopsInv'
  <2>1. CASE Begin(c) \/ Walk(c) \/ Follow(c) \/ OpenDir(c) \/ Stat(c)
    BY <2>1, Shapes DEF TypeOK, HopsInv, Begin, Walk, Follow, OpenDir, Stat, Goto, locals
  <2>2. CASE OpenForRead(c) \/ Slurp(c) \/ Create(c) \/ Fill(c)
    BY <2>2, Shapes DEF HopsInv, OpenForRead, Slurp, Create, CreateAs, Fill, FillAs, Goto, locals
  <2>3. CASE Rename(c) \/ Cleanup(c) \/ Fault(c)
    BY <2>3, Shapes DEF HopsInv, Rename, Cleanup, Fault, FailsTo, Unlinked, Goto, locals
  <2> QED
    BY <1>1, <2>1, <2>2, <2>3 DEF Step
<1>2. CASE Env \/ UNCHANGED vars
  BY <1>2 DEF HopsInv, Env, EnvPut, EnvUnlink, EnvInPlace, EnvHardLink, Crash, vars, locals
<1> QED
  BY <1>1, <1>2 DEF Next

\* Every step keeps LinkInv, if no other process changes the directory.
LEMMA StepLink ==
  ASSUME IInv, FillInv, HopsInv, LinkInv, [Next]_vars, EnvOps \subseteq {"crash"}
  PROVE  LinkInv'
<1>s. TypeOK /\ TypeOK'
  BY StepType DEF IInv
<1> DEFINE Way(d) == pc[d] \in Busy => \E t \in [0..MaxHops -> Names] : CameAlong(d, t)
           AtLink(d) == pc[d] = "readlink" => hops[d] > 0 /\ IsLink(at[d]) /\ HopAllowed(at[d])
           Off(d) == pc[d] \in Landed => ~IsLink(at[d])
<1>0. SUFFICES ASSUME NEW d \in Calls PROVE Way(d)' /\ AtLink(d)' /\ Off(d)'
  BY DEF LinkInv
<1>i. Way(d) /\ AtLink(d) /\ Off(d)
  BY DEF LinkInv
<1>h. hops[d] \in 0..MaxHops /\ hops'[d] \in 0..MaxHops /\ MaxHops \in Nat
  BY <1>s, ConstantsOK DEF TypeOK
<1>b. pc[d] \in Busy => at[d] \in Names
  BY <1>s DEF TypeOK
<1>j. Landed \subseteq Busy
  BY DEF Landed, Looked, Busy, Unlinked, Linked
<1>1. ASSUME UNCHANGED <<req, at, hops>>, pc[d] \in Busy, pc'[d] # "readlink", pc[d] # "readlink",
             pc'[d] \in Landed => pc[d] \in Landed
      PROVE  Way(d)' /\ AtLink(d)' /\ Off(d)'
  <2>1. PICK t \in [0..MaxHops -> Names] : CameAlong(d, t)
    BY <1>1, <1>i
  <2>2. CameAlong(d, t)'
    BY <1>1, <2>1, WayStays DEF Through
  <2>3. Off(d)'
    BY <1>1, <1>i, <1>b, LinksStay DEF IsLink
  <2> QED
    BY <1>1, <2>2, <2>3
<1>2. ASSUME UNCHANGED <<req, at, hops>>, pc'[d] = pc[d]
      PROVE  Way(d)' /\ AtLink(d)' /\ Off(d)'
  <2>1. CASE pc[d] \in Busy
    <3>1. PICK t \in [0..MaxHops -> Names] : CameAlong(d, t)
      BY <2>1, <1>i
    <3>2. CameAlong(d, t)'
      BY <1>2, <3>1, WayStays DEF Through
    <3>3. Off(d)' /\ AtLink(d)'
      BY <1>2, <1>i, <1>b, <1>j, <2>1, LinksStay DEF IsLink, HopAllowed
    <3> QED
      BY <3>2, <3>3
  <2>2. CASE pc[d] \notin Busy
    BY <1>2, <2>2, <1>j DEF Busy, Unlinked
  <2> QED
    BY <2>1, <2>2
<1>3. ASSUME pc'[d] \notin Busy PROVE Way(d)' /\ AtLink(d)' /\ Off(d)'
  BY <1>3, <1>j DEF Busy, Unlinked
<1>4. ASSUME NEW c \in Calls, c # d, Step(c) \/ Begin(c) \/ Fault(c) PROVE Way(d)' /\ AtLink(d)' /\ Off(d)'
  <2>1. pc'[d] = pc[d] /\ req'[d] = req[d] /\ at'[d] = at[d] /\ hops'[d] = hops[d]
    <3>1. CASE Begin(c) \/ Walk(c) \/ Follow(c) \/ OpenDir(c) \/ Stat(c)
      BY <1>4, <3>1, <1>s, Shapes DEF TypeOK, Begin, Walk, Follow, OpenDir, Stat, Goto, locals
    <3>2. CASE OpenForRead(c) \/ Slurp(c) \/ Create(c) \/ Fill(c) \/ Rename(c) \/ Cleanup(c) \/ Fault(c)
      BY <1>4, <3>2, <1>s, Shapes DEF OpenForRead, Slurp, Create, CreateAs, Fill, FillAs, Rename,
         Cleanup, Fault, Goto, locals
    <3> QED
      BY <1>4, <3>1, <3>2 DEF Step
  <2>2. CASE pc[d] \in Busy
    <3>1. PICK t \in [0..MaxHops -> Names] : CameAlong(d, t)
      BY <2>2, <1>i
    <3>2. CameAlong(d, t)'
      BY <2>1, <3>1, WayStays DEF Through
    <3>3. Off(d)' /\ AtLink(d)'
      BY <2>1, <1>i, <1>b, <1>j, <2>2, LinksStay DEF IsLink, HopAllowed
    <3> QED
      BY <3>2, <3>3
  <2>3. CASE pc[d] \notin Busy
    BY <2>1, <2>3, <1>3
  <2> QED
    BY <2>2, <2>3
<1>5. ASSUME Begin(d) PROVE Way(d)' /\ AtLink(d)' /\ Off(d)'
  <2>1. PICK r \in Requests : /\ req' = [req EXCEPT ![d] = r] /\ at' = [at EXCEPT ![d] = r.path]
                              /\ pc' = [pc EXCEPT ![d] = IF r.path = BadPath THEN "error" ELSE "walk"]
    BY <1>5 DEF Begin, Goto, PathRefused
  <2>2. req'[d] = r /\ at'[d] = r.path /\ hops'[d] = 0 /\ pc'[d] \in {"error", "walk"}
    BY <1>5, <1>s, <2>1, Shapes DEF Begin, HopsInv
  <2>3. CASE pc'[d] = "walk"
    <3>1. at'[d] \in Names
      BY <2>3, <1>s DEF TypeOK, Busy, Unlinked
    <3>2. PICK t \in [0..MaxHops -> Names] : \A k \in 0..MaxHops : t[k] = at'[d]
      <4> DEFINE v == [k \in 0..MaxHops |-> at'[d]]
      <4> v \in [0..MaxHops -> Names] /\ \A k \in 0..MaxHops : v[k] = at'[d]
        BY <3>1
      <4> HIDE DEF v
      <4> QED
        OBVIOUS
    <3>3. Through(d)' = 0
      BY <2>2, <2>3 DEF Through
    <3>4. CameAlong(d, t)'
      BY <2>2, <3>2, <3>3, <1>h DEF CameAlong
    <3> QED
      BY <2>3, <3>2, <3>4 DEF Landed, Looked, Linked
  <2> QED
    BY <2>2, <2>3, <1>3 DEF Busy, Unlinked, Linked
<1>6. ASSUME Walk(d) PROVE Way(d)' /\ AtLink(d)' /\ Off(d)'
  <2>1. pc[d] = "walk" /\ UNCHANGED <<dir, node, req, at>> /\ at[d] \in Names
    BY <1>6, <1>b DEF Walk, Busy, Unlinked, files
  <2>2. PICK t \in [0..MaxHops -> Names] : CameAlong(d, t)
    BY <2>1, <1>i DEF Busy, Unlinked
  <2>3. CASE ~IsLink(at[d]) /\ Goto(d, "opendir") /\ UNCHANGED hops
    <3>1. pc'[d] = "opendir" /\ Through(d)' = Through(d)
      BY <2>1, <2>3, <1>s, Shapes DEF Goto, Through
    <3>2. CameAlong(d, t)'
      BY <2>1, <2>2, <3>1, WayStays
    <3> QED
      BY <2>1, <2>3, <3>1, <3>2 DEF IsLink
  <2>4. CASE IsLink(at[d]) /\ MayFollow(d) /\ hops' = [hops EXCEPT ![d] = @ + 1] /\ Goto(d, "readlink")
    <3>1. pc'[d] = "readlink" /\ hops'[d] = hops[d] + 1 /\ HopAllowed(at[d])
      BY <2>4, <1>s, Shapes DEF Goto, MayFollow, TypeOK
    <3>2. Through(d)' = Through(d)
      BY <2>1, <3>1, <1>h DEF Through
    <3>3. CameAlong(d, t)'
      BY <2>1, <2>2, <3>2, WayStays
    <3>4. AtLink(d)'
      BY <2>1, <2>4, <3>1, <1>h DEF IsLink, HopAllowed
    <3> QED
      BY <3>1, <3>3, <3>4 DEF Landed, Looked, Linked
  <2>5. CASE Goto(d, "error")
    BY <2>5, <1>s, Shapes, <1>3 DEF Goto, Busy, Unlinked, Linked
  <2> QED
    BY <1>6, <2>3, <2>4, <2>5 DEF Walk
<1>7. ASSUME Follow(d) PROVE Way(d)' /\ AtLink(d)' /\ Off(d)'
  <2>1. /\ pc[d] = "readlink" /\ UNCHANGED <<dir, node, req, hops>> /\ at[d] \in Names
        /\ hops[d] > 0 /\ IsLink(at[d]) /\ HopAllowed(at[d])
    BY <1>7, <1>b, <1>i DEF Follow, Busy, Unlinked, files
  <2>2. pc'[d] = "walk" /\ at'[d] = node[dir[at[d]]].to /\ at'[d] \in Names
    <3>1. pc'[d] = "walk" /\ at'[d] = node[dir[at[d]]].to
      BY <1>7, <2>1, <1>s, Shapes DEF Follow, Goto
    <3> QED
      BY <3>1, <1>s DEF TypeOK, Busy, Unlinked
  <2>3. PICK t \in [0..MaxHops -> Names] : CameAlong(d, t)
    BY <2>1, <1>i DEF Busy, Unlinked
  <2>4. PICK n \in 0..MaxHops : n = Through(d)
    BY <2>1, <1>h DEF Through
  <2>5. n + 1 \in 0..MaxHops /\ Through(d)' = n + 1
    BY <2>1, <2>2, <2>4, <1>h DEF Through
  <2>u. PICK u \in [0..MaxHops -> Names] : \A k \in 0..MaxHops : u[k] = IF k <= n THEN t[k] ELSE at'[d]
    <3> DEFINE v == [k \in 0..MaxHops |-> IF k <= n THEN t[k] ELSE at'[d]]
    <3> v \in [0..MaxHops -> Names] /\ \A k \in 0..MaxHops : v[k] = IF k <= n THEN t[k] ELSE at'[d]
      BY <2>2
    <3> HIDE DEF v
    <3> QED
      OBVIOUS
  <2>6. u[0] = req'[d].path
    BY <2>1, <2>3, <2>4, <2>u, <1>h DEF CameAlong
  <2>7. \A k \in 0..MaxHops : k >= n + 1 => u[k] = at'[d]
    BY <2>4, <2>u
  <2>8. ASSUME NEW k \in 0..MaxHops, k < n + 1
        PROVE  IsLink(u[k])' /\ HopAllowed(u[k])' /\ u[k+1] = node'[dir'[u[k]]].to
    <3>1. CASE k < n
      <4>1. u[k] = t[k] /\ u[k+1] = t[k+1]
        <5>1. k <= n /\ k + 1 <= n /\ k + 1 \in 0..MaxHops
          BY <3>1, <1>h
        <5> QED
          BY <5>1, <2>u
      <4>2. IsLink(t[k]) /\ HopAllowed(t[k]) /\ t[k+1] = node[dir[t[k]]].to
        BY <3>1, <2>3, <2>4 DEF CameAlong
      <4> QED
        BY <4>1, <4>2, <2>1 DEF IsLink, HopAllowed
    <3>2. CASE k = n
      <4>1. u[k] = t[k] /\ u[k+1] = at'[d]
        BY <3>2, <2>4, <2>5, <2>u
      <4>2. t[k] = at[d]
        BY <3>2, <2>3, <2>4 DEF CameAlong
      <4> QED
        BY <4>1, <4>2, <2>1, <2>2 DEF IsLink, HopAllowed
    <3> QED
      BY <2>8, <2>4, <3>1, <3>2
  <2>9. CameAlong(d, u)'
    BY <2>5, <2>6, <2>7, <2>8 DEF CameAlong
  <2> QED
    BY <2>2, <2>u, <2>9 DEF Landed, Looked, Linked
<1>8. ASSUME \/ OpenDir(d) \/ Stat(d) \/ OpenForRead(d) \/ Slurp(d) \/ Create(d) \/ Fill(d)
             \/ Rename(d) \/ Cleanup(d) \/ Fault(d)
      PROVE  Way(d)' /\ AtLink(d)' /\ Off(d)'
  <2>1. UNCHANGED <<req, at, hops>>
    BY <1>8 DEF OpenDir, Stat, OpenForRead, Slurp, Create, CreateAs, Fill, FillAs, Rename, Cleanup,
       Fault, locals
  <2>2. \/ pc'[d] \notin Busy
        \/ pc[d] \in Landed /\ pc'[d] # "readlink"
    <3>1. CASE OpenDir(d) \/ Stat(d) \/ OpenForRead(d) \/ Slurp(d) \/ Create(d)
      BY <3>1, <1>s, Shapes DEF OpenDir, Stat, OpenForRead, Slurp, Create, CreateAs, Goto,
         Landed, Looked, Linked
    <3>2. CASE Fill(d) \/ Rename(d) \/ Cleanup(d) \/ Fault(d)
      BY <3>2, <1>s, Shapes DEF Fill, FillAs, Rename, Cleanup, Fault, FailsTo, Goto,
         Landed, Looked, Linked, Busy, Unlinked
    <3> QED
      BY <1>8, <3>1, <3>2
  <2> QED
    BY <2>1, <2>2, <1>1, <1>3, <1>j DEF Landed, Looked, Linked
<1>9. CASE Crash
  <2>1. UNCHANGED <<req, at, hops>> /\ (pc'[d] = pc[d] \/ pc'[d] = "crashed")
    BY <1>9 DEF Crash, locals
  <2> QED
    BY <2>1, <1>2, <1>3 DEF Busy, Unlinked, Linked
<1>10. CASE UNCHANGED vars
  BY <1>10, <1>2 DEF vars, locals
<1>11. \A m, k \in Names : ~EnvPut(m) /\ ~EnvUnlink(m) /\ ~EnvInPlace(m) /\ ~EnvHardLink(m, k)
  BY DEF EnvPut, EnvUnlink, EnvInPlace, EnvHardLink, Happens
<1> QED
  BY <1>4, <1>5, <1>6, <1>7, <1>8, <1>9, <1>10, <1>11 DEF Next, Step, Env

\* A write goes through links to the file they lead to, over links it may follow, and
\* never replaces a link, however many calls overlap, if no other process changes the
\* directory.
THEOREM WritesGoThroughLinks ==
  ASSUME EnvOps \subseteq {"crash"}
  PROVE  Spec => WritesThroughLinks
<1> DEFINE I == IInv /\ FillInv /\ HopsInv /\ LinkInv
           Lands(c) ==
             \E trail \in Trails(req[c].path) :
               /\ at[c] = trail[MaxHops] /\ ~IsLink(at[c])
               /\ \A k \in 0..MaxHops : IsLink(trail[k]) => HopAllowed(trail[k])
           A == \A c \in Calls : Installs(c) => Lands(c)
<1>1. Init => I
  BY InitRefines DEF RInv, Init, HopsInv, LinkInv, Landed, Looked, Linked, Busy, Unlinked
<1>2. I /\ [Next]_vars => I'
  BY StepInv, StepFill, StepHops, StepLink DEF IInv
<1>3. ASSUME I, NEW c \in Calls, pc[c] = "rename" PROVE Lands(c)
  <2>1. PICK t \in [0..MaxHops -> Names] : CameAlong(c, t)
    BY <1>3 DEF LinkInv, Busy, Linked
  <2>2. ~IsLink(at[c])
    BY <1>3 DEF LinkInv, Landed, Looked, Linked
  <2>3. Through(c) = hops[c] /\ hops[c] \in 0..MaxHops /\ MaxHops \in Nat
    BY <1>3, ConstantsOK DEF Through, IInv, TypeOK
  <2>4. at[c] = t[MaxHops] /\ t[0] = req[c].path
    BY <2>1, <2>3 DEF CameAlong
  <2>5. \A k \in 0..MaxHops : IsLink(t[k]) => HopAllowed(t[k])
    BY <2>1, <2>2, <2>3 DEF CameAlong
  <2>6. ASSUME NEW k \in 1..MaxHops
        PROVE  t[k] = IF IsLink(t[k-1]) THEN node[dir[t[k-1]]].to ELSE t[k-1]
    <3>1. k - 1 \in 0..MaxHops /\ k \in 0..MaxHops /\ (k - 1) + 1 = k
      BY <2>3
    <3>2. CASE k - 1 < hops[c]
      BY <2>1, <2>3, <3>1, <3>2 DEF CameAlong
    <3>3. CASE k - 1 >= hops[c]
      BY <2>1, <2>2, <2>3, <3>1, <3>3 DEF CameAlong
    <3> QED
      BY <2>3, <3>1, <3>2, <3>3
  <2>7. t \in Trails(req[c].path)
    BY <2>4, <2>6 DEF Trails
  <2> QED
    BY <2>2, <2>4, <2>5, <2>7
<1>4. I => A
  BY <1>3 DEF Installs
<1>5. Spec => [][A]_vars
  BY <1>1, <1>2, <1>4, PTL DEF Spec
<1> QED
  BY <1>5 DEF WritesThroughLinks

-----------------------------------------------------------------------------
(* Permissions. *)

\* Cutting a mode down to its permission bits a second time changes nothing.
LEMMA PermissionsOnce ==
  ASSUME NEW s \in Node \cup {None}, NEW f \in Node, f.kind = "reg", f.mode = InstallMode(s)
  PROVE  InstallMode(f) = InstallMode(s)
<1>1. f # None
  BY ConstantsOK
<1>2. InstallMode(f) = InstallMode(s) % 512
  BY <1>1 DEF InstallMode, Permissions
<1>3. CASE s # None /\ s.kind = "reg"
  <2>1. s.mode \in Nat
    BY <1>3, ConstantsOK DEF Node
  <2>2. (s.mode % 512) % 512 = s.mode % 512
    BY <2>1
  <2> QED
    BY <1>2, <1>3, <2>2 DEF InstallMode, Permissions
<1>4. CASE ~(s # None /\ s.kind = "reg")
  <2>1. 384 % 512 = 384
    OBVIOUS
  <2> QED
    BY <1>2, <1>4, <2>1 DEF InstallMode, NewMode
<1> QED
  BY <1>3, <1>4

\* A file that is ready to be renamed is its call's alone: no other step touches it.
LEMMA ReadyStays ==
  ASSUME IInv, [Next]_vars, EnvOps \subseteq {"crash"}, NEW d \in Calls, pc'[d] = "rename"
  PROVE  \/ Fill(d)
         \/ /\ pc[d] = "rename" /\ dir'[d] = dir[d] /\ node'[dir[d]] = node[dir[d]]
            /\ st'[d] = st[d]
<1>s. TypeOK
  BY DEF IInv
<1>1. ASSUME NEW c \in Calls, c # d, Step(c) \/ Begin(c) \/ Fault(c)
      PROVE  /\ pc[d] = "rename" /\ dir'[d] = dir[d] /\ node'[dir[d]] = node[dir[d]]
             /\ st'[d] = st[d]
  <2>1. pc[d] = "rename" /\ st'[d] = st[d]
    <3>1. CASE Begin(c) \/ Walk(c) \/ Follow(c) \/ OpenDir(c) \/ Stat(c)
      BY <1>1, <3>1, <1>s, Shapes DEF TypeOK, Begin, Walk, Follow, OpenDir, Stat, Goto, locals
    <3>2. CASE OpenForRead(c) \/ Slurp(c) \/ Create(c) \/ Fill(c) \/ Rename(c) \/ Cleanup(c) \/ Fault(c)
      BY <1>1, <3>2, <1>s, Shapes DEF OpenForRead, Slurp, Create, CreateAs, Fill, FillAs, Rename,
         Cleanup, Fault, Goto, locals
    <3> QED
      BY <1>1, <3>1, <3>2 DEF Step
  <2>2. dir[d] \in Inodes /\ \A e \in Entries \ {d} : dir[e] # dir[d]
    BY <2>1, <1>s, Private DEF Linked
  <2>3. dir'[d] = dir[d] /\ node'[dir[d]] = node[dir[d]]
    <3>1. CASE Begin(c) \/ Walk(c) \/ Follow(c) \/ OpenDir(c) \/ Stat(c) \/ OpenForRead(c) \/ Slurp(c) \/ Fault(c)
      BY <3>1 DEF Begin, Walk, Follow, OpenDir, Stat, OpenForRead, Slurp, Fault, files
    <3>2. CASE Create(c)
      <4>1. PICK i \in Inodes : Fresh(i) /\ CreateAs(c, i)
        BY <3>2 DEF Create
      <4> QED
        BY <1>1, <4>1, <2>2, <1>s, Shapes DEF CreateAs, Fresh, IInv, TempsPrivate
    <3>3. CASE Fill(c)
      <4>1. c \in Entries \ {d}
        BY <1>1 DEF Entries
      <4> QED
        BY <3>3, <4>1, <2>2, <1>s, Shapes DEF Fill, FillAs
    <3>4. CASE Rename(c) \/ Cleanup(c)
      <4>1. d \notin Names
        BY ConstantsOK
      <4>2. Rename(c) => at[c] \in Names
        BY <1>s DEF Rename, TypeOK, Busy, Linked
      <4> QED
        BY <1>1, <3>4, <4>1, <4>2, <1>s, Shapes DEF Rename, Cleanup
    <3> QED
      BY <1>1, <3>1, <3>2, <3>3, <3>4 DEF Step
  <2> QED
    BY <2>1, <2>3
<1>2. ASSUME Step(d) \/ Begin(d) \/ Fault(d) PROVE Fill(d)
  <2>1. CASE Begin(d) \/ Walk(d) \/ Follow(d) \/ OpenDir(d) \/ Stat(d)
    BY <2>1, <1>s, Shapes DEF TypeOK, Begin, Walk, Follow, OpenDir, Stat, Goto
  <2>2. CASE OpenForRead(d) \/ Slurp(d) \/ Create(d) \/ Rename(d) \/ Cleanup(d) \/ Fault(d)
    BY <2>2, <1>s, Shapes DEF OpenForRead, Slurp, Create, CreateAs, Rename, Cleanup, Fault, FailsTo,
       Unlinked, Goto
  <2> QED
    BY <1>2, <2>1, <2>2 DEF Step
<1>3. CASE Crash \/ UNCHANGED vars
  BY <1>3 DEF Crash, vars, files, locals, Busy, Unlinked, Linked
<1>4. \A m, k \in Names : ~EnvPut(m) /\ ~EnvUnlink(m) /\ ~EnvInPlace(m) /\ ~EnvHardLink(m, k)
  BY DEF EnvPut, EnvUnlink, EnvInPlace, EnvHardLink, Happens
<1> QED
  BY <1>1, <1>2, <1>3, <1>4 DEF Next, Env

\* Every step keeps ModeInv, if no other process changes the directory.  When two calls
\* overlap, the second replaces a file that has the permissions it saw on the one the
\* first replaced.
LEMMA StepMode ==
  ASSUME IInv, FillInv, ModeInv, [Next]_vars, EnvOps \subseteq {"crash"}
  PROVE  ModeInv'
<1>s. TypeOK
  BY DEF IInv
<1>t. \A c \in Calls : st[c] \in Node \cup {None}
  BY <1>s DEF TypeOK
<1> DEFINE Stated(d) == pc[d] \in Looked => InstallMode(st[d]) = InstallMode(Under(at[d]))
           Kept(d) == pc[d] = "rename" => node[dir[d]].mode = InstallMode(st[d])
<1>a. \A d \in Calls : Stated(d) /\ Kept(d)
  BY DEF ModeInv
<1>b. \A d \in Calls : pc[d] \in Looked => at[d] \in Names
  BY <1>s DEF TypeOK, Looked, Busy, Unlinked, Linked
<1>1. ASSUME NEW d \in Calls PROVE Kept(d)'
  <2>1. CASE pc'[d] = "rename" /\ Fill(d)
    <3>1. dir[d] \in Inodes
      BY <2>1, Private DEF Fill, FillAs, Linked
    <3> QED
      BY <2>1, <3>1, <1>s, Shapes DEF Fill, FillAs, RegFile, locals
  <2>2. CASE pc'[d] = "rename" /\ ~Fill(d)
    BY <2>2, <1>a, ReadyStays
  <2> QED
    BY <2>1, <2>2
<1>2. ASSUME NEW d \in Calls, pc'[d] \in Looked
      PROVE  InstallMode(st'[d]) = InstallMode(Under(at[d])')
  <2>1. ASSUME NEW c \in Calls, Apart(c) PROVE InstallMode(st'[d]) = InstallMode(Under(at[d])')
    <3>1. /\ at'[d] = at[d]
          /\ pc[d] \in Looked \/ (pc[d] = "stat" /\ Stat(d))
          /\ pc[d] \in Looked => st'[d] = st[d]
      BY <1>2, <2>1, <1>s, Moves
    <3>2. at[d] \in Names
      BY <3>1, <1>s, <1>b DEF TypeOK, Busy, Unlinked
    <3>3. Under(at[d])' = Under(at[d])
      BY <2>1, <3>1, <3>2, NamesStay, SameUnder DEF Under
    <3>4. CASE Stat(d)
      <4>1. st'[d] = Under(at[d])
        BY <3>4, <1>s DEF TypeOK, Stat, Under
      <4> QED
        BY <3>3, <4>1
    <3> QED
      BY <1>a, <3>1, <3>3, <3>4
  <2>2. ASSUME NEW c \in Calls, Rename(c) PROVE InstallMode(st'[d]) = InstallMode(Under(at[d])')
    <3>1. pc[d] \in Looked /\ UNCHANGED <<node, at, st>>
      BY <1>2, <2>2, <1>s, Shapes, RenameEffect DEF locals, Looked, Linked
    <3>2. at[d] \in Names /\ InstallMode(st[d]) = InstallMode(Under(at[d]))
      BY <3>1, <1>a, <1>b
    <3>3. CASE dir'[at[d]] = dir[at[d]]
      BY <3>1, <3>2, <3>3 DEF Under
    <3>4. CASE at[d] = at[c] /\ dir'[at[d]] = dir[c]
      <4>1. pc[c] = "rename" /\ dir[c] \in Inodes /\ node[dir[c]].kind = "reg"
        BY <2>2, RenameEffect
      <4>2. node[dir[c]] \in Node /\ dir[c] # None
        BY <4>1, <1>s, Shapes, ConstantsOK DEF TypeOK
      <4>3. Under(at[d])' = node[dir[c]]
        BY <3>1, <3>4, <4>2 DEF Under
      <4>4. InstallMode(node[dir[c]]) = InstallMode(st[c])
        BY <4>1, <4>2, <1>a, <1>t, PermissionsOnce
      <4>5. InstallMode(st[c]) = InstallMode(Under(at[c]))
        BY <4>1, <1>a DEF Looked, Linked
      <4> QED
        BY <3>1, <3>2, <3>4, <4>3, <4>4, <4>5
    <3> QED
      BY <2>2, <3>2, <3>3, <3>4, RenameEffect
  <2>3. CASE Crash \/ UNCHANGED vars
    <3>1. UNCHANGED <<dir, node, at, st>> /\ pc[d] \in Looked
      BY <1>2, <2>3 DEF Crash, files, locals, vars, Looked, Linked
    <3> QED
      BY <3>1, <1>a DEF Under
  <2>4. \A m, k \in Names : ~EnvPut(m) /\ ~EnvUnlink(m) /\ ~EnvInPlace(m) /\ ~EnvHardLink(m, k)
    BY DEF EnvPut, EnvUnlink, EnvInPlace, EnvHardLink, Happens
  <2> QED
    BY <2>1, <2>2, <2>3, <2>4 DEF Next, Step, Env, Apart
<1> QED
  BY <1>1, <1>2 DEF ModeInv

\* A file that is replaced leaves its permission bits to the new one, and a new file is
\* private, whichever of the overlapping calls comes last.
THEOREM PermissionsStay ==
  ASSUME EnvOps \subseteq {"crash"}
  PROVE  Spec => PermissionsKept
<1> DEFINE I == IInv /\ FillInv /\ ModeInv
           A == \A c \in Calls : Installs(c) => node[dir[c]].mode = InstallMode(Under(at[c]))
<1>1. Init => I
  BY InitRefines DEF RInv, Init, ModeInv, Looked, Linked
<1>2. I /\ [Next]_vars => I'
  BY StepInv, StepFill, StepMode
<1>3. I => A
  BY DEF ModeInv, Installs, Looked, Linked
<1>4. Spec => [][A]_vars
  BY <1>1, <1>2, <1>3, PTL DEF Spec
<1> QED
  BY <1>4 DEF PermissionsKept, Under

=============================================================================
